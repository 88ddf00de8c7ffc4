------------------------------ MODULE Acceptor ------------------------------
(***************************************************************************)
(* Acceptor (src/src/acceptor.cc): the listening socket on the base loop,  *)
(* and the spare descriptor that is given up, when the process has no      *)
(* other left, to take one peer from the queue and turn it away.  Without  *)
(* it the socket would stay readable and the loop would spin.              *)
(*                                                                         *)
(* `free' is the number of descriptors the process may still open.  Other  *)
(* threads open and close descriptors between the steps.                   *)
(***************************************************************************)
EXTENDS Naturals

VARIABLES
  waiting,     \* peers in the listening socket's queue
  idleFd,      \* idleFd_ is an open descriptor
  acceptorPc   \* where handleRead is, when it has run out of descriptors

acceptorVars == <<waiting, idleFd, acceptorPc>>

\* Between two calls of handleRead ("idle"), before close(idleFd_) ("full"),
\* before the second accept ("closed"), before open ("answered").
AcceptorPoints == {"idle", "full", "closed", "answered"}

AcceptorInit == waiting = 0 /\ idleFd = TRUE /\ acceptorPc = "idle"

\* accept() returns a descriptor, which goes to newConnectionCallback_.
Accept(free) ==
  /\ acceptorPc = "idle"
  /\ waiting > 0
  /\ free > 0
  /\ waiting' = waiting - 1
  /\ UNCHANGED <<idleFd, acceptorPc>>

\* Seeded fault: handleRead leaves it at the error.
AcceptGivesUp(free) == FALSE /\ UNCHANGED acceptorVars

\* accept() fails with EMFILE.  (LOG_ERROR comes before the test of errno and
\* may change it; handleRead then returns with nothing changed, the socket is
\* still readable, and the next poll brings it back here.)
AcceptFails(free) ==
  /\ acceptorPc = "idle"
  /\ waiting > 0
  /\ free = 0
  /\ acceptorPc' = "full"
  /\ UNCHANGED <<waiting, idleFd>>

CloseSpare ==
  /\ acceptorPc = "full"
  /\ idleFd' = FALSE
  /\ acceptorPc' = "closed"
  /\ UNCHANGED waiting

\* The second accept(), which works unless another thread has taken the
\* descriptor, and the close() of what it returned.
TurnAway(free) ==
  /\ acceptorPc = "closed"
  /\ waiting' = IF free > 0 THEN waiting - 1 ELSE waiting
  /\ acceptorPc' = "answered"
  /\ UNCHANGED idleFd

\* Seeded fault: the spare descriptor is not opened again.
ForgetSpare(free) ==
  /\ acceptorPc = "answered"
  /\ acceptorPc' = "idle"
  /\ UNCHANGED <<waiting, idleFd>>

OpenSpare(free) ==
  /\ acceptorPc = "answered"
  /\ idleFd' = (free > 0)
  /\ acceptorPc' = "idle"
  /\ UNCHANGED waiting

\* The destructor: the peers that wait are disconnected by the kernel.
CloseAcceptor ==
  /\ waiting' = 0
  /\ idleFd' = FALSE
  /\ UNCHANGED acceptorPc

\* The steps of handleRead behind an accept() that failed.
Refuse(free) ==
  AcceptFails(free) \/ CloseSpare \/ TurnAway(free) \/ OpenSpare(free)
=============================================================================
