---------------------------- MODULE MailPromise ----------------------------
(***************************************************************************)
(* What team mail promises of a message, whoever delivers it and whatever  *)
(* fails: a request - the send, or the human's retry - reaches one agent   *)
(* at most, mail that was ended or received stays so until the human asks  *)
(* again, and it counts as received only when an agent has read it.        *)
(*                                                                         *)
(* A copy of the request in force is in an agent's input (unread) or in    *)
(* its transcript (read).  Agents read their input or lose it; any number  *)
(* of messages may be settled at once.                                     *)
(***************************************************************************)
EXTENDS Naturals

CONSTANTS Message, Session

VARIABLES
    status,     \* per message
    request,    \* per message, the request in force, 0 if none
    unread,     \* per session, <<message, request>> in its input
    read        \* per session, <<message, request>> it has read

vars == <<status, request, unread, read>>

Status == {"unsent", "waiting", "given", "unsure", "received", "ended"}
Copies == Message \X Nat

Init ==
    /\ status = [m \in Message |-> "unsent"]
    /\ request = [m \in Message |-> 0]
    /\ unread = [s \in Session |-> {}]
    /\ read = [s \in Session |-> {}]

Copied(m) == \E s \in Session : <<m, request[m]>> \in unread[s] \cup read[s]
Heard(m) == \E s \in Session : \E copy \in read[s] : copy[1] = m

Receipt(m) == IF Heard(m) THEN {"received"} ELSE {}
Return(m) == IF Copied(m) THEN {} ELSE {"waiting"}

\* A send, or a retry of mail that was given up.
Ask(m) ==
    /\ \/ /\ status[m] \in {"unsent", "unsure", "ended"}
          /\ status' = [status EXCEPT ![m] = "waiting"]
       \/ /\ status[m] = "unsent"
          /\ status' = [status EXCEPT ![m] = "ended"]
    /\ request' = [request EXCEPT ![m] = @ + 1]
    /\ UNCHANGED <<unread, read>>

\* The request goes to an agent, once.
Give(m, s) ==
    /\ status[m] = "waiting" /\ ~Copied(m)
    /\ unread' = [unread EXCEPT ![s] = @ \cup {<<m, request[m]>>}]
    /\ \E next \in {"given", "unsure"} \cup Receipt(m) :
         status' = [status EXCEPT ![m] = next]
    /\ UNCHANGED <<request, read>>

\* What may become of m without anybody asking for it or giving it
After(m) ==
    CASE status[m] = "unsent"   -> {"unsent"}
      [] status[m] = "waiting"  -> {"waiting", "unsure", "ended"} \cup Receipt(m)
      [] status[m] = "given"    -> {"given", "unsure", "ended"} \cup Receipt(m)
                                       \cup Return(m)
      [] status[m] = "unsure"   -> {"unsure", "ended"} \cup Receipt(m)
      [] status[m] = "received" -> {"received", "ended"}
      [] OTHER                  -> {"ended"}

Inputs(s) ==
    /\ read[s] \subseteq read'[s] /\ read'[s] \subseteq read[s] \cup unread[s]
    /\ unread'[s] \subseteq unread[s] \ read'[s]

Moves ==
    /\ \A m \in Message : status'[m] \in After(m)
    /\ \A s \in Session : Inputs(s)
    /\ UNCHANGED request

\* Agents read or lose input, and messages are settled.
Settle ==
    /\ Moves
    /\ status' \in [Message -> Status]
    /\ unread' \in [Session -> SUBSET Copies] /\ read' \in [Session -> SUBSET Copies]

Next ==
    \/ Settle
    \/ \E m \in Message : Ask(m)
    \/ \E m \in Message, s \in Session : Give(m, s)

Spec == Init /\ [][Next]_vars
=============================================================================
