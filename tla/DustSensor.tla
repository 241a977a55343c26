----------------------------- MODULE DustSensor -----------------------------
(***************************************************************************)
(* What a dust sensor that was started averages over: for each particle    *)
(* size the last samples in order, zeros at first.  That a sample is taken *)
(* again and again is SmPwm01c's SampledForEver.  SmPwm01c, built with the *)
(* moving average, implements this module.                                 *)
(***************************************************************************)
EXTENDS Naturals, Sequences

CONSTANTS Channels,   \* the particle sizes
          WindowLen   \* how many samples are averaged

VARIABLES running,   \* samples are taken
          window     \* [Channels -> the last WindowLen samples, oldest first]

NoSamples == [c \in Channels |-> [i \in 1 .. WindowLen |-> 0]]

Init == running = FALSE /\ window = NoSamples

Start == running' = TRUE /\ window' = NoSamples

Stop == running' = FALSE /\ UNCHANGED window

\* One sample of every particle size replaces the oldest one.
Sample ==
  /\ running
  /\ \A c \in Channels :
       window'[c] = Append(Tail(window[c]), window'[c][WindowLen])
  /\ DOMAIN window' = Channels
  /\ UNCHANGED running

Next == Start \/ Stop \/ Sample

Spec == Init /\ [][Next]_<<running, window>>
=============================================================================
