------------------------------ MODULE CircBuf ------------------------------
(***************************************************************************)
(* circ_buf_t of drivers/sm_pwm_01c: the fixed array that holds the last   *)
(* BufferLen samples of one particle size, and their average.              *)
(***************************************************************************)
EXTENDS Integers, Sequences, Functions

CONSTANT BufferLen    \* SM_PWM_01C_BUFFER_LEN

ASSUME BufferLenIsPositive == BufferLen \in Nat \ {0}

Slots == 0 .. BufferLen - 1

\* The values of a uint16_t.
Samples == {n \in Nat : n <= 65535}

CircBufs == [buf : [Slots -> Samples], head : Slots]

\* memset
EmptyBuf == [buf |-> [i \in Slots |-> 0], head |-> 0]

\* Mutant: head is not reduced modulo the length.
Push_NoWrap(b, data) ==
  [buf |-> [b.buf EXCEPT ![b.head] = data], head |-> b.head + 1]

\* _circ_buf_push: over the oldest sample, which head points to.
Push(b, data) ==
  [buf  |-> [b.buf EXCEPT ![b.head] = data],
   head |-> (b.head + 1) % BufferLen]

\* _circ_buf_avg sums all slots, in whatever order they were written.
Avg(b) == SumFunction(b.buf) \div BufferLen

\* The samples of a buffer, oldest first: what the array stands for.
Window(b) == [i \in 1 .. BufferLen |-> b.buf[(b.head + i - 1) % BufferLen]]
=============================================================================
