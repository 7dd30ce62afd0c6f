----------------------------- MODULE NetlinkFifo -----------------------------
(***************************************************************************)
(* What the users of a netlink socket rely on: requests reach the kernel   *)
(* one by one, each at most once and in the order in which they were made. *)
(* The socket may lose some that wait in a row, never turn them around.    *)
(***************************************************************************)
EXTENDS SequencesExt, Integers

VARIABLE queue   \* requests that were made and that the kernel has not seen

Init == queue = <<>>

Send == IsStrictPrefix(queue, queue')

Take == queue # <<>> /\ queue' = Tail(queue)

Lose == /\ Len(queue') < Len(queue)
        /\ \E i \in 0 .. Len(queue') :
              queue' = SubSeq(queue, 1, i)
                       \o SubSeq(queue, i + 1 + Len(queue) - Len(queue'), Len(queue))

Spec == Init /\ [][Send \/ Take \/ Lose]_queue
=============================================================================
