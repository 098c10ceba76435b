---------------------------- MODULE ReceptionLog ----------------------------
(***************************************************************************)
(* What the co-simulation promises to whoever reads its log, without the   *)
(* socket, the threads, the packet uids or the bookkeeping on either side. *)
(*                                                                         *)
(* Simulated time advances in steps.  In every step some robots transmit,  *)
(* and a transmission is ignored while the radio is not yet active.  A     *)
(* transmission reaches each other robot at most once, some time later or  *)
(* never, and a reception enters the log once, in the step in which it     *)
(* happened, with the robots and the latency it really had.                *)
(***************************************************************************)
EXTENDS Integers

CONSTANTS Step, Active, NsPerUs

VARIABLES
    time,   \* where simulated time has got to
    asked,  \* the messages of the step at time have been asked for
    msgs,   \* the transmissions so far: [robot, time]
    log     \* the receptions so far: [src, dst, time (told), lat, sent]

vars == <<time, asked, msgs, log>>

Init == time = 0 /\ asked = FALSE /\ msgs = {} /\ log = {}

(* The step at time begins: a set of robots transmits. *)
Transmit ==
    /\ ~asked /\ asked' = TRUE
    /\ msgs \subseteq msgs'
    /\ \A m \in msgs' \ msgs : m.time = time /\ time >= Active
    /\ UNCHANGED <<time, log>>

(* e is the reception of an earlier transmission, in the step that ends at time. *)
Possible(e) ==
    \E m \in msgs, at \in 0 .. time :
        /\ m.robot = e.src /\ m.time = e.sent /\ m.time < at
        /\ e.src # e.dst
        /\ e.lat = (at - e.sent) \div NsPerUs
        /\ e.time = time /\ time - Step <= at

(* No robot receives the same transmission twice. *)
Distinct(entries) ==
    \A e, f \in entries : <<e.src, e.dst, e.sent>> = <<f.src, f.dst, f.sent>> => e = f

(* The step ends: its receptions are told and time moves on. *)
Tell ==
    /\ asked /\ asked' = FALSE
    /\ log \subseteq log'
    /\ \A e \in log' \ log : Possible(e)
    /\ Distinct(log')
    /\ time' = time + Step
    /\ UNCHANGED msgs

Next == Transmit \/ Tell

Spec == Init /\ [][Next]_vars

=============================================================================
