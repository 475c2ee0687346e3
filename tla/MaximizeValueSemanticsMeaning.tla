-------------------- MODULE MaximizeValueSemanticsMeaning ---------------------
(***************************************************************************)
(* What a function on tensors computes, before, during and after           *)
(* torch-maximize-value-semantics.                                         *)
(*                                                                         *)
(* Contents are terms, written in prefix form as sequences of numbers: the *)
(* number of an argument, or that of an op followed by what it reads.      *)
(* A mutable tensor is a base, the op that allocated it, and a path, the   *)
(* views taken of that base.  Views and casts share the base; reading a    *)
(* tensor finds the last write to its base.                                *)
(***************************************************************************)
EXTENDS MaximizeValueSemantics, Integers

\* What is known of the result of an op: a value has a term, a mutable tensor
\* a base and a path; of a write, where it went and the term that was written;
\* of an allocation, the term the base has at first.
Nothing == [base |-> 0, path |-> <<>>, term |-> <<>>]

\* The term for taking the views of a path of something with the given term.
Viewed(path, term) ==
  LET viewed[n \in 0 .. Len(path)] ==
        IF n = 0 THEN term ELSE path[n] \o viewed[n - 1]
  IN  viewed[Len(path)]

Writes(f) == {o \in Op : f[o].kind \in {"overwrite", "inplace", "other"}}

\* The op of the source s that op i stands for, or was made for: positions are
\* kept free before an op for those.
Origin(s, i) == CHOOSE o \in i .. NumOps :
                  /\ s[o].kind # "none"
                  /\ \A p \in i .. o - 1 : s[p].kind = "none"

\* The contents of path in base as op i finds them, m describing the ops before
\* i: those of the last write through a prefix of path; a write through another
\* path gives contents nothing is known of, identified by the write.
Read(f, m, base, path, i) ==
  LET writes == {w \in Writes(f) : w < i /\ m[w].base = base}
  IN  IF writes = {} THEN Viewed(path, m[base].term)
      ELSE LET w == CHOOSE w \in writes : \A x \in writes : x <= w
           IN  IF IsPrefix(m[w].path, path)
               THEN Viewed(SubSeq(path, Len(m[w].path) + 1, Len(path)),
                            m[w].term)
               ELSE Viewed(path, <<-1, w>>)

\* The tensors in the list v as op i finds it.
Elements(f, v, i) ==
  LET elements[n \in 0 .. i - 1] ==
        IF n = 0 THEN f[v].args
        ELSE IF f[n].kind = "append" /\ f[n].args[1] = v
        THEN Append(elements[n - 1], f[n].args[2])
        ELSE elements[n - 1]
  IN  elements[i - 1]

\* The contents of v, a tensor or a list of tensors, as op i finds them.
Contents(f, m, v, i) ==
  LET OfTensor(t) ==
        IF m[t].base = 0 THEN m[t].term ELSE Read(f, m, m[t].base, m[t].path, i)
  IN  IF f[v].kind = "list"
      THEN LET elements == Elements(f, v, i)
           IN  <<-3, Len(elements)>>
                 \o FlattenSeq([k \in DOMAIN elements |-> OfTensor(elements[k])])
      ELSE OfTensor(v)

\* The meaning of op i of f, made of s, m being that of the ops before it.  An
\* unknown op may change the tensors it is given.
Denote(s, f, m, i) ==
  LET op    == f[i]
      operands == [k \in DOMAIN op.args |-> Contents(f, m, op.args[k], i)]
      view  == <<i>> \o FlattenSeq(Tail(operands))
  IN CASE op.kind = "arg" -> [Nothing EXCEPT !.term = <<i>>]
       [] op.kind = "to_tensor" -> [Nothing EXCEPT !.base = i, !.term = operands[1]]
       [] op.kind = "pure" ->
            [Nothing EXCEPT !.base = IF IsMutable(f, i) THEN i ELSE 0,
                            !.term = <<Origin(s, i)>> \o FlattenSeq(operands)]
       [] op.kind = "inplace" ->
            [m[op.args[1]] EXCEPT !.term = <<i>> \o FlattenSeq(operands)]
       [] op.kind = "to_vtensor" -> [Nothing EXCEPT !.term = operands[1]]
       [] op.kind \in {"view", "cast"} ->
            IF IsMutable(f, i)
            THEN [m[op.args[1]] EXCEPT !.path =
                    IF op.kind = "cast" THEN @ ELSE Append(@, view)]
            ELSE [Nothing EXCEPT !.term =
                    IF op.kind = "cast" THEN operands[1] ELSE view \o operands[1]]
       [] op.kind = "overwrite" -> [m[op.args[2]] EXCEPT !.term = operands[1]]
       [] op.kind = "other" ->
            [m[op.args[1]] EXCEPT !.term = <<-2, i>> \o operands[1]]
       [] OTHER -> Nothing

\* The meanings of all ops, one after the other.
Meaning(s, f) ==
  LET meaning[n \in 0 .. NumOps] ==
        IF n = 0 THEN [o \in Op |-> Nothing]
        ELSE IF f[n].kind = "none" THEN meaning[n - 1]
        ELSE LET before == meaning[n - 1]
             IN  [before EXCEPT ![n] = Denote(s, f, before, n)]
  IN  meaning[NumOps]

\* What the caller and the unknown ops get to see of f, made of s.
Observed(s, f) ==
  LET m == Meaning(s, f)
  IN  [returned |-> [k \in DOMAIN f[NumOps].args |->
                       Contents(f, m, f[NumOps].args[k], NumOps)],
       others |-> {m[o].term : o \in {o \in Op : f[o].kind = "other"}}]

-----------------------------------------------------------------------------
\* Rewriting is invisible: after every step, and so in the end, the function
\* returns the contents it returned before, and unknown ops are given them too.
ResultsPreserved == Observed(source, func) = Observed(source, source)
=============================================================================
