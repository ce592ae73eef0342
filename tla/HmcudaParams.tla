------------------------------ MODULE HmcudaParams ------------------------------
(***************************************************************************)
(* How many arguments a kernel takes.  CUDA's registration does not say,   *)
(* so the guest reads the demangled name of the kernel and counts commas   *)
(* (guest/intercept/hmcuda_runtime.cpp, count_params_from_mangled).  Each  *)
(* launch then sends that many of its caller's arguments.                  *)
(*                                                                         *)
(* A name is a sequence of words and of the five characters the scan looks *)
(* at.  What the ABI's demangler makes of a signature is Demangled.        *)
(***************************************************************************)
EXTENDS Integers, Sequences, FiniteSets, SequencesExt

CONSTANTS
  Scopes,     (* what may come before the name                             *)
  Arguments,  (* template arguments                                        *)
  Types,      (* parameter types                                           *)
  MaxParams   (* bound on the parameters of a kernel                       *)

(* What names are made of.                                                 *)
Tokens ==
  {"void", "name", "<", ">", "(", ")", ","}
  \cup UNION {ToSet(t) : t \in Scopes \cup Arguments \cup Types}

Signatures ==
  [mangled : BOOLEAN, scope : Scopes, targs : {<<>>} \cup {<<a>> : a \in Arguments},
   params : UNION {[1..n -> Types] : n \in 0..MaxParams}]

(* __cxa_demangle: a template comes with its return type; an empty list of *)
(* parameters is empty, not void; a name that was never mangled fails.     *)
Joined(items) ==
  LET upTo[n \in 0..Len(items)] ==
        IF n = 0 THEN <<>> ELSE IF n = 1 THEN items[1] ELSE upTo[n - 1] \o <<",">> \o items[n]
  IN upTo
Commas(items) == Joined(items)[Len(items)]

Demangled(k) ==
  (IF k.targs = <<>> THEN <<>> ELSE <<"void">>) \o k.scope \o <<"name">>
  \o (IF k.targs = <<>> THEN <<>> ELSE <<"<">> \o Commas(k.targs) \o <<">">>)
  \o <<"(">> \o Commas(k.params) \o <<")">>

------------------------------------------------------------------------------
(* What comes after the first opening parenthesis and before the last      *)
(* closing one.                                                            *)
Between(text) ==
  SubSeq(text, SelectInSeq(text, LAMBDA c : c = "(") + 1,
               SelectLastInSeq(text, LAMBDA c : c = ")") - 1)

Nesting(c) == IF c \in {"<", "("} THEN 1 ELSE IF c \in {">", ")"} THEN -1 ELSE 0

(* Brackets opened and not closed, after each word.                        *)
Depth(text) ==
  LET at[n \in 0..Len(text)] == IF n = 0 THEN 0 ELSE at[n - 1] + Nesting(text[n])
  IN at

(* The commas outside all brackets, and one more than they are.            *)
OuterCommas(text) == LET depth == Depth(text)
                     IN {n \in 1..Len(text) : text[n] = "," /\ depth[n - 1] = 0}

(* The seeded fault of the scan: brackets are not looked at.               *)
EveryComma(text) == 1 + Cardinality({n \in 1..Len(text) : text[n] = ","})

Counted(text) == 1 + Cardinality(OuterCommas(text))

Voids == {"void", "void*"}  (* words that begin with "void"                *)

(* count_params_from_mangled: a list that is empty, or that begins with    *)
(* void and has no comma, counts nothing.                                  *)
CountParams(k) ==
  LET text == Between(Demangled(k))
  IN IF ~k.mangled \/ text = <<>> \/ (Counted(text) = 1 /\ text[1] \in Voids)
     THEN 0 ELSE Counted(text)

(* A type is at least a word, its brackets match, and it has commas within *)
(* brackets only: so the ABI's demangler writes it.                        *)
IsType(t) == t # <<>> /\ Depth(t)[Len(t)] = 0 /\ OuterCommas(t) = {}

ASSUME ParamsAssumption ==
  /\ MaxParams \in Nat
  /\ Scopes \cup Arguments \cup Types \subseteq Seq(Tokens)
  /\ \A t \in Types : IsType(t)

(* Names without a parenthesis before the parameters, unless the only      *)
(* parameter begins with void.                                             *)
Plain(k) ==
  /\ k.mangled /\ ~Contains(k.scope, "(")
  /\ \A n \in 1..Len(k.targs) : ~Contains(k.targs[n], "(")
  /\ Len(k.params) = 1 => k.params[1][1] \notin Voids
=============================================================================
