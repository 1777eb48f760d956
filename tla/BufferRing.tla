------------------------------ MODULE BufferRing ------------------------------
(***************************************************************************)
(* A vring as its users see it: buffers travel from the host to the M3     *)
(* and back, first in first out in either direction.  Module VirtQueue     *)
(* implements it with two index rings in shared memory.                    *)
(***************************************************************************)
EXTENDS Sequences

CONSTANT Bufs

VARIABLES hostOwn,   \* buffers of the host
          offered,   \* offered to the M3, oldest first
          held,      \* buffers of the M3
          returned   \* handed back to the host, oldest first

vars == <<hostOwn, offered, held, returned>>

Init == hostOwn \cup {offered[i] : i \in DOMAIN offered} = Bufs
          /\ held = {} /\ returned = <<>>

Offer(b) == /\ b \in hostOwn
            /\ hostOwn' = hostOwn \ {b} /\ offered' = Append(offered, b)
            /\ UNCHANGED <<held, returned>>
Take     == /\ offered # <<>>
            /\ offered' = Tail(offered) /\ held' = held \cup {Head(offered)}
            /\ UNCHANGED <<hostOwn, returned>>
Return(b) == /\ b \in held
             /\ held' = held \ {b} /\ returned' = Append(returned, b)
             /\ UNCHANGED <<hostOwn, offered>>
Collect  == /\ returned # <<>>
            /\ returned' = Tail(returned) /\ hostOwn' = hostOwn \cup {Head(returned)}
            /\ UNCHANGED <<offered, held>>

Next == (\E b \in Bufs : Offer(b) \/ Return(b)) \/ Take \/ Collect
Spec == Init /\ [][Next]_vars
===============================================================================
