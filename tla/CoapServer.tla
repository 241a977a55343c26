----------------------------- MODULE CoapServer -----------------------------
(***************************************************************************)
(* The request handlers that gcoap's thread runs: modules/coap_common,     *)
(* coap_position, coap_suit, coap_saul and coap_led.  A reply is a code    *)
(* and, with content, the length of its text; room is what the packet      *)
(* leaves for it.  Only the LED's handler changes anything.                *)
(***************************************************************************)
EXTENDS Integers

CONSTANTS SizeMod,     \* 2^32, the values of a size_t
          Inverted     \* SAUL knows that the board's LED lights at level 0

ASSUME ServerConstants == SizeMod \in Nat \ {0} /\ Inverted \in BOOLEAN

VARIABLE led   \* the level of LED0_PIN

Content(n) == [code |-> "2.05", length |-> n]

\* gcoap_response of an error: no payload.
Error == [code |-> "5.00", length |-> 0]

-----------------------------------------------------------------------------
(* Texts.                                                                  *)

\* _handler_str of a text of n bytes.
HandlerStr(n, room) == IF n <= room THEN Content(n) ELSE Error

\* name, board, mcu and os: texts of the build.
ConstantReply(n, room) == HandlerStr(n, room)

\* position_handler: the configured coordinates.
PositionReply(n, room) == IF n <= room THEN Content(n) ELSE Error

\* version_handler, vendor_handler and suit_state_handler.
SuitReply(n, room) == IF n <= room THEN Content(n) ELSE Error

-----------------------------------------------------------------------------
(* Sensors.                                                                *)

\* _read_saul_data_str, which has found sensor or 0: the length of its text,
\* or -1.  dim is what saul_reg_read returns.
ReadSaulDataStr(sensor, dim, n) == IF sensor = 0 \/ dim <= 0 THEN -1 ELSE n

\* An int stored in a size_t.
SizeT(n) == n % SizeMod

\* Mutant: the lengths are compared as signed numbers.
SaulReply_Signed(n, room) == IF n <= room THEN Content(n) ELSE Error

\* _saul_gcoap_response.
SaulResponse(n, room) == IF n <= room THEN Content(n) ELSE Error

\* saul_coap_handler of what was read: only 0 is less than or equal to 0; gcoap
\* turns its -1 into an error.
SaulReply(n, room) == IF SizeT(n) = 0 THEN Error ELSE SaulResponse(SizeT(n), room)

-----------------------------------------------------------------------------
(* The LED.                                                                *)

\* A payload is its length and what strtol makes of it: 0 of a letter.
Payloads == {[length |-> 1, value |-> v] : v \in 0 .. 2} \cup
            {[length |-> 0, value |-> 0], [length |-> 2, value |-> 1]}

\* The level the boot leaves at the pin is RIOT's matter.
ServerInit == led \in {0, 1}

\* led_handler, GET.
LedReading == IF led = 0 THEN 1 ELSE 0

LedAccepts(payload) == payload.length = 1 /\ payload.value \in {0, 1}

\* led_handler, PUT or POST; anything else is a bad request, 4.00.
LedPut(payload) == LedAccepts(payload) /\ led' = 1 - payload.value

\* The shell's "saul write" to the same pin: the other writer.
ShellWritesLed(value) == led' = IF Inverted THEN 1 - value ELSE value

LedNext ==
  \/ \E payload \in Payloads : LedPut(payload)
  \/ \E value \in {0, 1} : ShellWritesLed(value)

=============================================================================
