------------------------------ MODULE RtlRules -------------------------------
(***************************************************************************)
(* scripts/check_rtl_rules.py: the scanner of check_file for rules R1/R3   *)
(* and R2.  A line is the kind its text matches: what it opens, closes or  *)
(* declares.  One ReadLine is one turn of the loop over the file.          *)
(***************************************************************************)
EXTENDS Integers, Sequences, FiniteSets, SequencesExt

CONSTANTS MaxLines      \* bound on the length of a file

ASSUME RtlRulesAssumption == MaxLines \in Nat

VARIABLES file,         \* the lines read so far
          seen,         \* seen_first_always
          depth,        \* in_function and in_task, in_generate
          stack,        \* begin_stack: was the block opened with a label
          flagged       \* lines reported, per rule

rrVars == <<file, seen, depth, stack, flagged>>

\* "x begin: l" is any line that opens a labelled block, "end else begin" closes
\* one block and opens the next.
Kinds == {"always begin", "begin", "begin: l", "end", "end else begin", "end else begin: l",
          "function", "endfunction", "generate", "endgenerate", "logic", "automatic logic"}

OpensNamed == {"begin: l", "end else begin: l"}
OpensPlain == {"always begin", "begin", "end else begin"}
Opens == OpensNamed \cup OpensPlain
Closes == {"end", "end else begin", "end else begin: l"}

Down(n) == IF n = 0 THEN 0 ELSE n - 1

RrInit ==
    /\ file = <<>>
    /\ seen = FALSE
    /\ depth = [function |-> 0, generate |-> 0]
    /\ stack = <<>>
    /\ flagged = [r1 |-> {}, r2 |-> {}]

\* in_function and in_generate; the regular expressions anchor at the line's start.
MutDepthAfter(k) ==
    [function |-> CASE k = "function" -> depth.function + 1 [] OTHER -> depth.function,
     generate |-> CASE k = "generate" -> depth.generate + 1
                    [] k = "endgenerate" -> Down(depth.generate) [] OTHER -> depth.generate]
DepthAfter(k) ==
    [function |-> CASE k = "function" -> depth.function + 1
                    [] k = "endfunction" -> Down(depth.function) [] OTHER -> depth.function,
     generate |-> CASE k = "generate" -> depth.generate + 1
                    [] k = "endgenerate" -> Down(depth.generate) [] OTHER -> depth.generate]

\* The begins of a line are pushed before its ends pop, so "end else begin" pops
\* the block it has just pushed and keeps the label of the one it closes.
StackAfter(k) ==
    LET named == IF k \in OpensNamed THEN <<TRUE>> ELSE <<>>
        plain == IF k \in OpensPlain THEN <<FALSE>> ELSE <<>>
        pushed == stack \o named \o plain
    IN  IF k \in Closes /\ pushed # <<>> THEN Front(pushed) ELSE pushed

ReadLine ==
    /\ Len(file) < MaxLines
    /\ \E k \in Kinds :
        /\ k \in Closes \cap Opens => stack # <<>>     \* an else follows its if
        /\ file' = Append(file, k)
        /\ depth' = DepthAfter(k)
        /\ stack' = StackAfter(k)
        /\ seen' = (seen \/ k = "always begin")
        /\ LET n == Len(file) + 1
               late == /\ k = "logic" /\ seen
                       /\ depth'.function = 0 /\ depth'.generate = 0
                       /\ \A i \in DOMAIN stack' : ~stack'[i]
           IN  flagged' = [r1 |-> flagged.r1 \cup (IF late THEN {n} ELSE {}),
                           r2 |-> flagged.r2 \cup (IF k = "automatic logic" THEN {n} ELSE {})]

RrDone == Len(file) = MaxLines /\ UNCHANGED rrVars

RrNext == ReadLine \/ RrDone
RrSpec == RrInit /\ [][RrNext]_rrVars

-----------------------------------------------------------------------------
(* Properties.                                                             *)

\* The block opened in line i is open after line n: no line between them closes
\* more blocks than were opened after i.  Defined from the text, without a stack.
OpenAt(i, n) ==
    \A k \in (i + 1)..n :
        Cardinality({c \in (i + 1)..k : file[c] \in Closes})
          <= Cardinality({b \in (i + 1)..(k - 1) : file[b] \in Opens})

\* Line k closes the block of line i.
ClosedBy(i, k) == OpenAt(i, k - 1) /\ ~OpenAt(i, k)

\* Every else branch is labelled exactly as the branch it follows.
LabelsKept ==
    \A i, k \in DOMAIN file :
        (i < k /\ file[i] \in Opens /\ file[k] \in Opens /\ ClosedBy(i, k))
        => (file[i] \in OpensNamed <=> file[k] \in OpensNamed)

\* A function, task or generate region around line n: an opening line above it
\* that fewer closing lines follow than opening ones.
Inside(open, close, n) ==
    \E i \in 1..n :
        \A k \in i..n : Cardinality({b \in i..k : file[b] = open})
                          > Cardinality({c \in i..k : file[c] = close})

\* The scanner reports a declaration exactly when it follows an always block and
\* stands in no function, no generate region and no labelled block, and its stack
\* is as deep as blocks are open, although it pushes before it pops and although
\* a stray end or endfunction may stand anywhere.
RrExact ==
    /\ Len(stack) = Cardinality({i \in DOMAIN file : file[i] \in Opens /\ OpenAt(i, Len(file))})
    /\ LabelsKept =>
        \A n \in DOMAIN file :
            n \in flagged.r1 <=>
                /\ file[n] = "logic"
                /\ \E i \in 1..(n - 1) : file[i] = "always begin"
                /\ ~Inside("function", "endfunction", n)
                /\ ~Inside("generate", "endgenerate", n)
                /\ ~\E i \in 1..n : file[i] \in OpensNamed /\ OpenAt(i, n)

=============================================================================
