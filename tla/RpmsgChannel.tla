----------------------------- MODULE RpmsgChannel -----------------------------
(***************************************************************************)
(* What the RPMSG transport promises: a first-in-first-out channel from    *)
(* the host to every endpoint and one from the M3 to the host, neither of  *)
(* which loses, repeats, reorders or alters a message.  A message for an   *)
(* endpoint that is not open may be dropped.                               *)
(***************************************************************************)
EXTENDS Sequences

CONSTANTS Ends, MsgIn, MsgOut

VARIABLES open,      \* the endpoints that exist
          pending,   \* pending[e]: messages for e, not yet read
          out        \* messages for the host, not yet accepted

Init == open = {} /\ pending = [e \in Ends |-> <<>>] /\ out = <<>>

Post(e) == /\ \E m \in MsgIn : pending' = [pending EXCEPT ![e] = Append(@, m)]
           /\ UNCHANGED <<open, out>>
Take(e) == /\ pending[e] # <<>>
           /\ pending' = [pending EXCEPT ![e] = Tail(@)]
           /\ UNCHANGED <<open, out>>
Deliver(e) == e \in open /\ Take(e)
Drop(e)    == e \notin open /\ Take(e)
Open(e)    == /\ e \notin open
              /\ open' = open \cup {e}
              /\ UNCHANGED <<pending, out>>
Emit       == /\ \E m \in MsgOut : out' = Append(out, m)
              /\ UNCHANGED <<open, pending>>
Accept     == /\ out # <<>>
              /\ out' = Tail(out)
              /\ UNCHANGED <<open, pending>>

Next == \/ \E e \in Ends : Post(e) \/ Deliver(e) \/ Drop(e) \/ Open(e)
        \/ Emit \/ Accept

Spec == Init /\ [][Next]_<<open, pending, out>>
===============================================================================
