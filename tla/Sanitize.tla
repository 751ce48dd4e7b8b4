------------------------------ MODULE Sanitize ------------------------------
(***************************************************************************)
(* The byte budget of what an agent's output is wrapped in.  A text is its *)
(* size: whether there is one at all, and the bytes that are left of it    *)
(* when the unsafe characters are gone and the delimiters escaped.         *)
(***************************************************************************)
EXTENDS Integers

Text == {t \in [given : BOOLEAN, bytes : Nat] : t.bytes > 0 => t.given}

(* A cut moves back to the start of a rune, which has four bytes at most.  *)
Back == 0..3

Whole(n) == [bytes |-> n, truncated |-> FALSE]

(* truncateUTF8, which stops at the beginning of the text.                 *)
TruncateUTF8(cap, back) == IF back <= cap THEN cap - back ELSE 0

(* Clean: a cap of zero or less is none.                                   *)
Clean(t, cap, back) ==
    IF cap > 0 /\ t.bytes > cap
    THEN [bytes |-> TruncateUTF8(cap, back), truncated |-> TRUE]
    ELSE Whole(t.bytes)

(* EnvelopeTail: the tail first; then the body, unless no byte is left for *)
(* it beside the newline that joins them.                                  *)
Budget(tail, cap, back) == IF cap > 0 THEN cap - Clean(tail, cap, back).bytes - 1 ELSE 0

BodyOf(body, tail, cap, backs) ==
    IF ~tail.given THEN Clean(body, cap, backs.body)
    ELSE IF cap > 0 /\ Budget(tail, cap, backs.tail) <= 0
         THEN [bytes |-> 0, truncated |-> body.given]
         ELSE Clean(body, Budget(tail, cap, backs.tail), backs.body)

TailOf(tail, cap, backs) ==
    IF tail.given THEN Clean(tail, cap, backs.tail) ELSE Whole(0)

EnvelopeTail(body, tail, cap, backs) ==
    LET b == BodyOf(body, tail, cap, backs)
        t == TailOf(tail, cap, backs)
    IN  [body |-> b.bytes, tail |-> t.bytes,
         payload |-> IF tail.given /\ b.bytes > 0 THEN b.bytes + 1 + t.bytes
                     ELSE b.bytes + t.bytes,
         truncated |-> b.truncated \/ t.truncated]

Backs == [body : Back, tail : Back]

=============================================================================
