------------------------------ MODULE MCFiles -------------------------------
(* Instances of names and descriptors for TLC. *)
EXTENDS Files

Mode(access, create, trunc) == [access |-> access, create |-> create, trunc |-> trunc]

a == "a"
b == "b"
D == "."
S == "/"
aaa == <<a, a, a>>
aaab == <<S, a, a, a, a, S, S, b>>       \* cut to aaa/b
up == <<D, D>>
self == <<a, a, a, S, D>>
around == <<a, a, a, S, b, S, D, D>>
SomePaths == {aaa, aaab, up, self, around}

Call(op, arg, path) == [op |-> op, arg |-> arg, path |-> path]

\* The first process makes and removes a directory and what is in it; the other
\* goes down and up the same paths, and makes a directory there too.
SomeCalls ==
  [p \in Procs |->
     IF p = InitProc
     THEN {Call("make", "dir", aaa), Call("make", "dev", aaa),
           Call("unlink", None, aaa), Call("unlink", None, aaab), Call("unlink", None, self),
           Call("open", Mode("rw", TRUE, FALSE), aaab)}
     ELSE {Call("chdir", None, aaa), Call("chdir", None, up), Call("chdir", None, around),
           Call("make", "dir", aaab), Call("open", Mode("r", FALSE, FALSE), around),
           Call("open", Mode("rw", FALSE, FALSE), aaa),
           Call("open", Mode("w", FALSE, TRUE), aaab)}]
=============================================================================
