------------------------------ MODULE ByteFile ------------------------------
(***************************************************************************)
(* What a reader of a fork may rely on: a sequence of bytes with a handle. *)
(* A call asks for c.len bytes from c.off; its answer r says how many came *)
(* and why no more.  Nothing is said of extents, blocks or the device.     *)
(***************************************************************************)
EXTENDS Integers, Sequences

VARIABLES content,  \* the bytes; none before the file is open
          told,     \* whether anything is promised of them
          off,      \* where the next Read starts
          ret       \* the last answer: [call, n, err, bytes]

\* The bytes are those of the content at the offset that was asked for.
RightBytes(r) ==
    r.n > 0 => /\ r.call.off + r.n <= Len(content)
               /\ r.bytes = SubSeq(content, r.call.off + 1, r.call.off + r.n)

\* nil and EOF promise something, an error promises nothing: a whole buffer;
\* the end of the content; from ReadAll, the whole content.
Promise(r) ==
    CASE r.call.kind = "ReadAll" -> r.err = "nil" => r.n = Len(content)
      [] OTHER -> /\ r.err = "nil" => r.n = r.call.len
                  /\ r.err = "EOF" => r.call.off + r.n >= Len(content)

Allowed(r) == r.n <= r.call.len /\ RightBytes(r) /\ Promise(r)

Init == content = <<>> /\ off = 0 /\ ret.n = 0

\* The file is opened.
Open == content = <<>> /\ off' = off /\ ret' = ret

\* A call is answered.  Read starts where the last one ended, and moves on by
\* what it returned, error or not; the other calls leave the handle alone.
Answer ==
    /\ told => /\ Allowed(ret')
               /\ IF ret'.call.kind = "Read"
                  THEN ret'.call.off = off /\ off' = off + ret'.n
                  ELSE off' = off
    /\ UNCHANGED <<content, told>>

Next == Open \/ Answer

Spec == Init /\ [][Next]_<<content, told, off, ret>>
=============================================================================
