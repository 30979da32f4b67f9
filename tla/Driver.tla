--------------------------------- MODULE Driver --------------------------------
(***************************************************************************)
(* The compiler from its input to the module of basic blocks: the lexer,   *)
(* the parser, the semantic analysis declaration by declaration, the       *)
(* translation function by function.  The declarations are kept in hash    *)
(* maps, so the order in which the analysis and the translation meet them  *)
(* is any order.                                                           *)
(*   source   the program that is compiled                                 *)
(*   input    its text, then the lexemes of it                             *)
(*   phase    what main() is about to do, or how it ended                  *)
(*   file     the declarations, with what the analysis has set in them     *)
(*   sc       the scopes of the analysis between two declarations          *)
(*   todo     the declarations the current phase has yet to visit          *)
(*   ir       the builder of the translation                               *)
(***************************************************************************)
EXTENDS Ast

CONSTANTS Programs,  \* the programs, as the trees that are meant
          Texts(_)   \* what may be written for one

VARIABLES source, input, phase, file, sc, todo, ir

vars == <<source, input, phase, file, sc, todo, ir>>

L == INSTANCE Lexer
P == INSTANCE Parser
S == INSTANCE Sema
T == INSTANCE Translator

Init ==
  /\ source \in Programs
  /\ input \in Texts(source)
  /\ phase = "lex"
  /\ file = File(Empty, Empty, Empty)
  /\ sc = <<>>
  /\ todo = {}
  /\ ir = T!NewBuilder

Methods(f) == {<<s, m>> \in (DOMAIN f.ss) \X UNION {DOMAIN f.ss[s].ms : s \in DOMAIN f.ss} :
                 m \in DOMAIN f.ss[s].ms}

\* What the analysis visits: methods, then globals, then functions.
Decl(k, of, n) == [k |-> k, of |-> of, n |-> n]
Declarations(f) ==
  {Decl("method", p[1], p[2]) : p \in Methods(f)}
    \cup {Decl("global", "", g) : g \in DOMAIN f.gs}
    \cup {Decl("function", "", n) : n \in DOMAIN f.fns}

\* Nobody catches what the lexer throws.
Lex ==
  /\ phase = "lex"
  /\ LET r == L!lex(input, <<>>)
     IN \/ r.st = "ok" /\ phase' = "parse" /\ input' = r.v
        \/ r.st # "ok" /\ phase' = "lexer threw" /\ input' = <<>>
  /\ UNCHANGED <<source, file, sc, todo, ir>>

Parsed(r) ==
  \/ /\ r.st = "ok"
     /\ phase' = "sema"
     /\ file' = r.v
     /\ sc' = S!fillTopLevelScope(r.v)
     /\ todo' = Declarations(r.v)
  \/ /\ r.st # "ok"
     /\ phase' = IF r.st = "error" THEN "syntax error" ELSE r.st
     /\ UNCHANGED <<file, sc, todo>>

Parse ==
  /\ phase = "parse"
  /\ Parsed(P!parse(input))
  /\ input' = <<>>
  /\ UNCHANGED <<source, ir>>

(***************************************************************************)
(* A declaration is next if no kind before its own is left and, for a      *)
(* method, no other struct is halfway through its methods.                 *)
(***************************************************************************)
Kinds(k) == CASE k = "method" -> {} [] k = "global" -> {"method"} [] k = "function" -> {"method", "global"}
Halfway(s) == \E m, n \in DOMAIN file.ss[s].ms :
                Decl("method", s, m) \in todo /\ Decl("method", s, n) \notin todo
IsNext(d) ==
  /\ d \in todo
  /\ \A e \in todo : e.k \notin Kinds(d.k)
  /\ d.k = "method" => \A s \in DOMAIN file.ss \ {d.of} : ~Halfway(s)

\* A null type that is dereferenced ends one way or the other.
Context(ub) == [file |-> file, sc |-> sc, fn |-> NoType, ub |-> ub]

\* The file with what the analysis makes of d.
Put(d, v) ==
  CASE d.k = "method" -> [file EXCEPT !.ss[d.of].ms[d.n] = v]
    [] d.k = "global" -> [file EXCEPT !.gs[d.n] = v]
    [] d.k = "function" -> [file EXCEPT !.fns[d.n] = v]

\* The analysis of d ended with r; an error of the program ends the compiler.
Visited(d, r) ==
  /\ todo' = todo \ {d}
  /\ \/ /\ r.st = "ok"
        /\ file' = Put(d, r.v)
        /\ sc' = r.sc
        /\ phase' = phase
     \/ /\ r.st # "ok"
        /\ phase' = IF r.st = "error" THEN "rejected" ELSE r.st
        /\ UNCHANGED <<file, sc>>
  /\ UNCHANGED <<source, input, ir>>

VisitMethod(d, ub) ==
  /\ phase = "sema" /\ d.k = "method" /\ IsNext(d)
  /\ Visited(d, S!VisitMethod(Context(ub), d.of, d.n))

VisitGlobal(d, ub) ==
  /\ phase = "sema" /\ d.k = "global" /\ IsNext(d)
  /\ Visited(d, S!VisitVarDecl(Context(ub), file.gs[d.n]))

VisitFunction(d, ub) ==
  /\ phase = "sema" /\ d.k = "function" /\ IsNext(d)
  /\ Visited(d, S!VisitTopLevel(Context(ub), file.fns[d.n]))

\* The declarations of the unit enter the module.
StartTranslation ==
  /\ phase = "sema" /\ todo = {}
  /\ LET unit == S!TranslationUnit(file)
     IN /\ ir' = T!Prologue(unit)
        /\ todo' = {Decl("function", "", n) : n \in DOMAIN unit.fns}
  /\ phase' = IF ir'.st = "ok" THEN "translate" ELSE "crash"
  /\ UNCHANGED <<source, input, file, sc>>

TranslateFunction(d) ==
  /\ phase = "translate" /\ d \in todo
  /\ ir' = T!VisitFunction(ir, ir.unit.fns[d.n])
  /\ phase' = IF ir'.st = "ok" THEN phase ELSE "crash"
  /\ todo' = todo \ {d}
  /\ UNCHANGED <<source, input, file, sc>>

Finish ==
  /\ phase = "translate" /\ todo = {}
  /\ phase' = "done"
  /\ UNCHANGED <<source, input, file, sc, todo, ir>>

Next ==
  \/ Lex
  \/ Parse
  \/ \E d \in todo, ub \in {"crash", "error"} :
       VisitMethod(d, ub) \/ VisitGlobal(d, ub) \/ VisitFunction(d, ub)
  \/ StartTranslation
  \/ \E d \in todo : TranslateFunction(d)
  \/ Finish

Spec == Init /\ [][Next]_vars
=============================================================================
