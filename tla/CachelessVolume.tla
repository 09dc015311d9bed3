------------------------- MODULE CachelessVolume -------------------------
(***************************************************************************)
(* What concurrent readers of a volume are promised when nothing is cached:*)
(* each request is answered with what the disk holds, or fails.  The README*)
(* of the library promises the same with the caches on.                    *)
(***************************************************************************)
CONSTANTS Readers, Requests,
          Idle,        \* no request pending
          Failed,      \* the answer of a lookup that met a read error
          OnDisk(_)    \* the answers a request may have, given the disk alone

VARIABLES asked,       \* asked[r]: the request of reader r, or Idle
          answer       \* answer[r]: what its last request returned

Answers == UNION {OnDisk(q) : q \in Requests} \union {Failed}

Init ==
    /\ asked = [r \in Readers |-> Idle]
    /\ answer = [r \in Readers |-> Failed]

Ask(r) ==
    /\ asked[r] = Idle
    /\ \E q \in Requests : asked' = [asked EXCEPT ![r] = q]
    /\ UNCHANGED answer

Reply(r) ==
    /\ asked[r] # Idle
    /\ \E a \in OnDisk(asked[r]) \union {Failed} : answer' = [answer EXCEPT ![r] = a]
    /\ asked' = [asked EXCEPT ![r] = Idle]

Next == \E r \in Readers : Ask(r) \/ Reply(r)

Spec == Init /\ [][Next]_<<asked, answer>>
==========================================================================
