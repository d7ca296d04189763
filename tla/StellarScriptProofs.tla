-------------------------- MODULE StellarScriptProofs --------------------------
(***************************************************************************)
(* A proof about the branches of a script: execute_script_block and        *)
(* execute_if_chain call each other over a shared line index and hand down *)
(* a flag, and nothing in them speaks of the lines that indentation puts   *)
(* around a statement.  For every script, classification and prediction.   *)
(***************************************************************************)
EXTENDS StellarSession, TLAPS

Frames ==
  [kind : {"block", "chain"}, indent : Nat, execute : BOOLEAN, taken : BOOLEAN, runs : BOOLEAN]

Ind(k) == input[k].indent
Header(k) == IsHeader(input[k].words)
Continuing(k) == IsElif(input[k].words) \/ IsElse(input[k].words)

\* A header whose branch the lines since have not left.
OpenHeader(h) ==
  /\ h \in 1 .. (at - 1) /\ Header(h)
  /\ \A k \in (h + 1) .. (at - 1) : Ind(k) > Ind(h)

\* All the branches around the indentation i run.
Reached(i) == \A h \in 1 .. (at - 1) : OpenHeader(h) /\ Ind(h) < i => h \in ran

\* A header of a chain at the indentation i that the lines since have not left, and
\* one of which ran.
InChain(h, i) ==
  /\ h \in 1 .. (at - 1) /\ Header(h) /\ Ind(h) = i
  /\ \A k \in (h + 1) .. (at - 1) : Ind(k) > i \/ (Ind(k) = i /\ Continuing(k))
ChainRan(i) == \E h \in ran : InChain(h, i)

\* A block is at the bottom; what is opened later is indented more, or as much when
\* it is a chain in its block.
Stacked(frames) ==
  /\ frames \in Seq(Frames) /\ frames # <<>>
  /\ frames[1].kind = "block"
  /\ \A p, q \in DOMAIN frames :
       p < q => /\ frames[p].indent <= frames[q].indent
                /\ frames[p].kind = "chain" => frames[p].indent < frames[q].indent

\* The flags that are handed down say what ran.
Flagged(frame) ==
  /\ frame.execute <=> Reached(frame.indent)
  /\ frame.kind = "chain" => (frame.taken \/ frame.runs <=> ChainRan(frame.indent))

StackInv == Stacked(stack) /\ \A p \in DOMAIN stack : Flagged(stack[p])

LinesInv ==
  /\ input \in Seq(Lines) /\ at \in Nat \ {0}
  /\ ran \subseteq 1 .. (at - 1)

ScriptInv ==
  call.mode = "script" =>
    /\ phase # "reading"
    /\ phase = "start" => input = <<>> /\ at = 1 /\ ran = {}
    /\ LinesInv /\ BranchesRunAlone
    /\ phase = "building" => StackInv
-------------------------------------------------------------------------------
\* BranchesRunAlone, line by line.
OnePerChain == \A h, g \in ran : Header(h) => ~SameChain(h, g)
ReachedAt(s) == \A h \in 1 .. s : Encloses(h, s) => h \in ran
LineInv(s) ==
  IF Header(s)
  THEN /\ s \in ran => ReachedAt(s)
       /\ ReachedAt(s) /\ IsElse(input[s].words) => \E h \in ran : h = s \/ SameChain(h, s)
  ELSE s \in ran <=> ReachedAt(s)

LEMMA LineByLine ==
  call.mode = "script" => (BranchesRunAlone <=> OnePerChain /\ \A s \in 1 .. (at - 1) : LineInv(s))
  BY DEF BranchesRunAlone, OnePerChain, LineInv, ReachedAt, Header

LEMMA LineByLineNext ==
  call'.mode = "script" =>
    (BranchesRunAlone' <=> OnePerChain' /\ \A s \in 1 .. (at' - 1) : LineInv(s)')
  BY DEF BranchesRunAlone, OnePerChain, LineInv, ReachedAt, Header

LEMMA HeaderKinds ==
  ASSUME NEW words
  PROVE  /\ IsIf(words) => ~IsElif(words) /\ ~IsElse(words)
         /\ IsElif(words) => ~IsElse(words)
  BY DEF IsIf, IsElif, IsElse

\* What a line that is done changes in the predicates of the invariant.
LEMMA NextLineEffect ==
  ASSUME LinesInv, Within, input' = input, at' = at + 1, ran' \in {ran, ran \union {at}},
         NEW c, c = Ind(at)
  PROVE  /\ c \in Nat
         /\ \A i \in Nat : i <= c => (Reached(i)' <=> Reached(i))
         /\ \A i \in Nat : i > c =>
              (Reached(i)' <=> Reached(c) /\ (Header(at) => at \in ran'))
         /\ \A i \in Nat : i < c => (ChainRan(i)' <=> ChainRan(i))
         /\ ChainRan(c)' <=> \/ Continuing(at) /\ ChainRan(c)
                             \/ Header(at) /\ at \in ran'
         /\ \A h \in 1 .. at : Encloses(h, at) <=> OpenHeader(h) /\ Ind(h) < c
         /\ \A h \in ran : Header(h) =>
              (SameChain(h, at) <=> Continuing(at) /\ InChain(h, c))
<1>1. /\ at \in Nat \ {0} /\ at \in DOMAIN input /\ Ind(at) \in Nat
      /\ \A k \in 1 .. at : Ind(k) \in Nat
      /\ ran \subseteq 1 .. (at - 1)
  <2>1. at \in Nat \ {0} /\ at \in 1 .. Len(input) /\ input \in Seq(Lines)
    BY DEF LinesInv, Within
  <2>2. \A k \in 1 .. Len(input) : input[k] \in Lines
    BY <2>1
  <2>3. \A k \in 1 .. Len(input) : Ind(k) \in Nat
    BY <2>2 DEF Ind, Lines
  <2> QED
    BY <2>1, <2>3 DEF LinesInv
<1>0. PICK a : a = at
  OBVIOUS
<1>2. \A k : Ind(k)' = Ind(k) /\ (Header(k)' <=> Header(k)) /\ (Continuing(k)' <=> Continuing(k))
  BY DEF Ind, Header, Continuing
<1>3. \A h : OpenHeader(h)' <=> \/ OpenHeader(h) /\ Ind(h) < c
                                \/ h = at /\ Header(at)
  <2>1. ASSUME NEW h \in 1 .. (at - 1)
        PROVE  OpenHeader(h)' <=> OpenHeader(h) /\ Ind(h) < c
    <3>1. (h + 1) .. (at' - 1) = ((h + 1) .. (at - 1)) \union {at}
      BY <1>1
    <3>2. h \in 1 .. (at' - 1)
      BY <1>1
    <3>3. c > Ind(h) <=> Ind(h) < c
      BY <1>1
    <3> QED
      BY <1>2, <3>1, <3>2, <3>3, Zenon DEF OpenHeader
  <2>2. OpenHeader(a)' <=> Header(a)
    <3>1. (a + 1) .. (at' - 1) = {} /\ a \in 1 .. (at' - 1)
      BY <1>0, <1>1
    <3> QED
      BY <1>2, <3>1, Zenon DEF OpenHeader
  <2>3. at \notin 1 .. (at - 1) /\ 1 .. (at' - 1) = 1 .. (at - 1) \union {at}
    BY <1>1
  <2> QED
    BY <1>0, <2>1, <2>2, <2>3, Zenon DEF OpenHeader
<1>4. \A h \in 1 .. (at - 1) : h \in ran' <=> h \in ran
  BY <1>1
<1>5. 1 .. (at' - 1) = 1 .. (at - 1) \union {at}
  BY <1>1
<1>6. ASSUME NEW i \in Nat
      PROVE  Reached(i)' <=> /\ \A h \in 1 .. (at - 1) :
                                  OpenHeader(h) /\ Ind(h) < c /\ Ind(h) < i => h \in ran
                             /\ Header(at) /\ c < i => at \in ran'
  <2>1. Reached(i)' <=> \A h \in 1 .. (at' - 1) : OpenHeader(h)' /\ Ind(h) < i => h \in ran'
    BY <1>2, Zenon DEF Reached
  <2>2. at \notin 1 .. (at - 1) /\ ~OpenHeader(at)
    BY <1>1 DEF OpenHeader
  <2>3. \A h \in 1 .. (at - 1) : OpenHeader(h)' <=> OpenHeader(h) /\ Ind(h) < c
    BY <1>3, <2>2, Zenon
  <2>4. (\A h \in 1 .. (at' - 1) : OpenHeader(h)' /\ Ind(h) < i => h \in ran')
          <=> /\ \A h \in 1 .. (at - 1) : OpenHeader(h)' /\ Ind(h) < i => h \in ran'
              /\ Header(at) /\ c < i => at \in ran'
    <3>1. \A h : h = at => (OpenHeader(h)' <=> Header(h)) /\ Ind(h) = c
      BY <1>3, <2>2, Zenon
    <3> QED
      BY <1>5, <3>1, Zenon
  <2> QED
    BY <1>4, <2>1, <2>3, <2>4, Zenon
<1>7. ASSUME NEW i \in Nat, i <= c
      PROVE  Reached(i)' <=> Reached(i)
  <2>1. ~(c < i) /\ \A h \in 1 .. (at - 1) : Ind(h) < i => Ind(h) < c
    BY <1>1, <1>7
  <2> QED
    BY <1>6, <2>1, Zenon DEF Reached
<1>8. ASSUME NEW i \in Nat, i > c
      PROVE  Reached(i)' <=> Reached(c) /\ (Header(at) => at \in ran')
  <2>1. c < i /\ \A h \in 1 .. (at - 1) : Ind(h) < c => Ind(h) < i
    BY <1>1, <1>8
  <2> QED
    BY <1>6, <2>1, Zenon DEF Reached
<1>9. ASSUME NEW i, NEW h \in 1 .. (at - 1)
      PROVE  InChain(h, i)' <=> InChain(h, i) /\ (c > i \/ (c = i /\ Continuing(at)))
  <2>1. (h + 1) .. (at' - 1) = ((h + 1) .. (at - 1)) \union {at}
    BY <1>1
  <2>2. h \in 1 .. (at' - 1)
    BY <1>1
  <2> QED
    BY <1>2, <2>1, <2>2, Zenon DEF InChain
<1>10. ASSUME NEW i PROVE InChain(a, i)' <=> Header(a) /\ c = i
  <2>1. (a + 1) .. (at' - 1) = {} /\ a \in 1 .. (at' - 1) /\ c = Ind(a)
    BY <1>0, <1>1
  <2> QED
    BY <1>2, <2>1, Zenon DEF InChain
<1>11. ASSUME NEW i
       PROVE  ChainRan(i)' <=> \/ ChainRan(i) /\ (c > i \/ (c = i /\ Continuing(at)))
                               \/ Header(at) /\ c = i /\ at \in ran'
  <2>1. /\ \A h \in ran' : h \in ran \/ h = a
        /\ \A h \in ran : h \in ran' /\ h \in 1 .. (at - 1)
    BY <1>0, <1>1
  <2> QED
    BY <1>0, <1>9, <1>10, <2>1, Zenon DEF ChainRan
<1>12. ASSUME NEW i \in Nat, i < c PROVE ChainRan(i)' <=> ChainRan(i)
  <2>1. c > i /\ c # i
    BY <1>1, <1>12
  <2> QED
    BY <1>11, <2>1, Zenon
<1>13. ChainRan(c)' <=> \/ Continuing(at) /\ ChainRan(c)
                        \/ Header(at) /\ at \in ran'
  <2>1. ~(c > c)
    BY <1>1
  <2> QED
    BY <1>11, <2>1, Zenon
<1>14. ASSUME NEW h \in 1 .. at
       PROVE  Encloses(h, at) <=> OpenHeader(h) /\ Ind(h) < c
  <2>1. CASE h = at
    BY <1>1, <2>1 DEF Encloses, OpenHeader
  <2>2. CASE h \in 1 .. (at - 1)
    <3>1. (h + 1) .. at = ((h + 1) .. (at - 1)) \union {at} /\ h < at
      BY <1>1, <2>2
    <3>2. c > Ind(h) <=> Ind(h) < c
      BY <1>1
    <3> QED
      BY <2>2, <3>1, <3>2, Zenon DEF Encloses, OpenHeader, Ind, Header
  <2> QED
    BY <1>1, <2>1, <2>2
<1>15. ASSUME NEW h \in ran, Header(h)
       PROVE  SameChain(h, at) <=> Continuing(at) /\ InChain(h, c)
  <2>1. (h + 1) .. at = ((h + 1) .. (at - 1)) \union {at} /\ h < at /\ h \in 1 .. (at - 1)
    BY <1>1
  <2>2. c = Ind(h) => ~(c > Ind(h))
    BY <1>1
  <2>3. SameChain(h, at) <=>
          /\ c = Ind(h)
          /\ \A k \in (h + 1) .. at : Ind(k) > Ind(h) \/ (Ind(k) = Ind(h) /\ Continuing(k))
    BY <2>1, Zenon DEF SameChain, Ind, Continuing
  <2> QED
    BY <1>15, <2>1, <2>2, <2>3, Zenon DEF InChain
<1> QED
  BY <1>1, <1>7, <1>8, <1>12, <1>13, <1>14, <1>15

\* A line that is done settles its own part of the property, and no other.
LEMMA OlderLinesKept ==
  ASSUME LinesInv, input' = input, ran' \in {ran, ran \union {at}},
         NEW s \in 1 .. (at - 1), LineInv(s)
  PROVE  LineInv(s)'
<1>1. \A h, g : /\ Encloses(h, g)' <=> Encloses(h, g)
                /\ SameChain(h, g)' <=> SameChain(h, g)
                /\ Header(g)' <=> Header(g)
  BY DEF Encloses, SameChain, Header
<1>2. at \notin 1 .. s /\ s \in 1 .. s
  BY DEF LinesInv
<1>3. /\ \A h \in 1 .. s : h \in ran' <=> h \in ran
      /\ ran \subseteq ran'
  BY <1>2
<1>4. ReachedAt(s)' <=> ReachedAt(s)
  BY <1>1, <1>3, Zenon DEF ReachedAt
<1> QED
  BY <1>1, <1>2, <1>3, <1>4, Zenon DEF LineInv

\* The property holds of the next line when it is done.
LEMMA NewLineInv ==
  ASSUME call.mode = "script", UNCHANGED <<call, input>>, LinesInv, BranchesRunAlone, Within,
         at' = at + 1, ran' \in {ran, ran \union {at}},
         NEW c, c = Ind(at),
         IF Header(at)
         THEN /\ at \in ran' => Reached(c) /\ ~(Continuing(at) /\ ChainRan(c))
              /\ Reached(c) /\ IsElse(Words) => at \in ran' \/ ChainRan(c)
         ELSE at \in ran' <=> Reached(c)
  PROVE  LinesInv' /\ BranchesRunAlone'
<1>0. PICK a : a = at
  OBVIOUS
<1>1. at \in Nat \ {0} /\ ran \subseteq 1 .. (at - 1)
  BY DEF LinesInv
<1>2. LinesInv'
  BY <1>1 DEF LinesInv
<1>3. \A h, g : /\ Encloses(h, g)' <=> Encloses(h, g)
                /\ SameChain(h, g)' <=> SameChain(h, g)
                /\ Header(g)' <=> Header(g)
  BY DEF Encloses, SameChain, Header
<1>4. ReachedAt(a)' <=> Reached(c)
  <2>1. \A h \in 1 .. at : Encloses(h, at) <=> OpenHeader(h) /\ Ind(h) < c
    BY NextLineEffect
  <2>2. ASSUME NEW h \in 1 .. at, OpenHeader(h)
        PROVE  h \in 1 .. (at - 1) /\ (h \in ran' <=> h \in ran)
    BY <1>1, <2>2 DEF OpenHeader
  <2>3. 1 .. (at - 1) \subseteq 1 .. at
    BY <1>1
  <2> QED
    BY <1>0, <1>3, <2>1, <2>2, <2>3, Zenon DEF ReachedAt, Reached
<1>5. \A h \in ran : Header(h) => (SameChain(h, at) <=> Continuing(at) /\ InChain(h, c))
  BY NextLineEffect
<1>6. ~SameChain(at, at) /\ \A g \in ran : ~SameChain(at, g)
  <2>1. ~(at < at) /\ \A g \in ran : ~(at < g)
    BY <1>1
  <2> QED
    BY <2>1, Zenon DEF SameChain
<1>7. OnePerChain'
  <2>1. OnePerChain
    BY LineByLine
  <2>2. ASSUME NEW h \in ran, Header(h), at \in ran' \ ran PROVE ~SameChain(h, at)
    <3>1. CASE Continuing(at)
      <4>1. Header(at)
        BY <3>1 DEF Continuing, Header, IsHeader
      <4> QED
        BY <1>5, <2>2, <4>1, Zenon DEF ChainRan
    <3> QED
      BY <1>5, <2>2, <3>1, Zenon
  <2> QED
    BY <1>3, <1>6, <2>1, <2>2, Zenon DEF OnePerChain
<1>8. LineInv(a)'
  <2>1. ASSUME Header(at), Reached(c), IsElse(Words)
        PROVE  \E h \in ran' : h = at \/ SameChain(h, at)
    <3>1. Continuing(at)
      BY <2>1 DEF Continuing, Words
    <3>2. CASE at \in ran'
      BY <3>2
    <3>3. CASE ChainRan(c)
      <4>1. PICK h \in ran : InChain(h, c)
        BY <3>3, Zenon DEF ChainRan
      <4>2. Header(h)
        BY <4>1, Zenon DEF InChain
      <4> QED
        BY <1>5, <3>1, <4>1, <4>2
    <3> QED
      BY <2>1, <3>2, <3>3
  <2>2. (IsElse(input[a].words))' <=> IsElse(Words)
    BY <1>0 DEF Words
  <2>3. Header(a)' <=> Header(at)
    BY <1>0, <1>3
  <2> QED
    BY <1>0, <1>3, <1>4, <2>1, <2>2, <2>3, Zenon DEF LineInv
<1>9. \A s \in 1 .. (at' - 1) : LineInv(s)'
  <2>1. \A s \in 1 .. (at - 1) : LineInv(s)'
    BY LineByLine, OlderLinesKept
  <2>2. 1 .. (at' - 1) = 1 .. (at - 1) \union {at}
    BY <1>1
  <2> QED
    BY <1>0, <1>8, <2>1, <2>2, Zenon
<1> QED
  BY <1>2, <1>7, <1>9, LineByLineNext
-------------------------------------------------------------------------------
(* The blocks and chains that stay open. *)

LEMMA FramesKept ==
  ASSUME LinesInv, Within, input' = input, at' = at + 1, ran' \in {ran, ran \union {at}},
         NEW f \in Frames, Flagged(f), f.indent <= Ind(at),
         f.kind = "chain" => f.indent < Ind(at)
  PROVE  Flagged(f)'
<1>1. f.indent \in Nat
  BY DEF Frames
<1>2. PICK c : c = Ind(at)
  OBVIOUS
<1>3. Reached(f.indent)' <=> Reached(f.indent)
  BY <1>1, <1>2, NextLineEffect
<1>4. f.kind = "chain" => (ChainRan(f.indent)' <=> ChainRan(f.indent))
  BY <1>1, <1>2, NextLineEffect
<1> QED
  BY <1>3, <1>4, Zenon DEF Flagged

LEMMA TopOfStack ==
  ASSUME StackInv
  PROVE  /\ Len(stack) \in Nat \ {0} /\ DOMAIN stack = 1 .. Len(stack)
         /\ Top \in Frames /\ Top = stack[Len(stack)] /\ Flagged(Top)
         /\ \A p \in DOMAIN stack :
              /\ stack[p] \in Frames /\ Flagged(stack[p])
              /\ stack[p].indent <= Top.indent
              /\ p # Len(stack) /\ stack[p].kind = "chain" => stack[p].indent < Top.indent
<1>1. /\ Len(stack) \in Nat \ {0} /\ DOMAIN stack = 1 .. Len(stack)
      /\ \A p \in DOMAIN stack : stack[p] \in Frames
      /\ Top = stack[Len(stack)]
  BY DEF StackInv, Stacked, Top, Last
<1>2. \A f \in Frames : f.indent \in Nat
  BY DEF Frames
<1>3. ASSUME NEW p \in DOMAIN stack
      PROVE  /\ stack[p].indent <= Top.indent
             /\ p # Len(stack) /\ stack[p].kind = "chain" => stack[p].indent < Top.indent
  <2>1. p = Len(stack) \/ p < Len(stack)
    BY <1>1
  <2>2. stack[p].indent \in Nat
    BY <1>1, <1>2
  <2> QED
    BY <1>1, <2>1, <2>2 DEF StackInv, Stacked
<1>4. Len(stack) \in DOMAIN stack
  BY <1>1
<1>5. \A p \in DOMAIN stack : Flagged(stack[p])
  BY DEF StackInv
<1>6. Top \in Frames /\ Flagged(Top)
  BY <1>1, <1>4, <1>5, Zenon
<1> QED
  BY <1>1, <1>3, <1>5, <1>6, Zenon

LEMMA BelowTop ==
  ASSUME StackInv, Len(stack) > 1, NEW base, base = Front(stack)
  PROVE  /\ Stacked(base) /\ DOMAIN base \subseteq DOMAIN stack
         /\ \A p \in DOMAIN base : base[p] = stack[p] /\ p # Len(stack)
<1>1. /\ base \in Seq(Frames) /\ Len(base) = Len(stack) - 1 /\ Len(base) \in Nat \ {0}
      /\ DOMAIN base \subseteq DOMAIN stack /\ DOMAIN base = 1 .. Len(base)
      /\ \A p \in DOMAIN base : base[p] = stack[p]
  BY DEF StackInv, Stacked, Front
<1>2. 1 \in DOMAIN base /\ base # <<>> /\ \A p \in DOMAIN base : p # Len(stack)
  BY <1>1
<1> QED
  BY <1>1, <1>2 DEF StackInv, Stacked

\* What is closed leaves the rest as it was.
LEMMA CloseInv ==
  ASSUME StackInv, Len(stack) > 1, stack' = Front(stack), UNCHANGED <<input, at, ran>>
  PROVE  StackInv'
<1>1. /\ Stacked(stack') /\ DOMAIN stack' \subseteq DOMAIN stack
      /\ \A p \in DOMAIN stack' : stack'[p] = stack[p]
  <2>1. PICK base : base = Front(stack)
    OBVIOUS
  <2> QED
    BY <2>1, BelowTop, Zenon
<1>2. \A f : Flagged(f)' <=> Flagged(f)
  BY DEF Flagged, Reached, ChainRan, OpenHeader, InChain, Ind, Header, Continuing
<1>3. \A p \in DOMAIN stack' : Flagged(stack'[p])
  BY <1>1, Zenon DEF StackInv
<1>4. \A p \in DOMAIN stack' : Flagged(stack[p])'
  BY <1>2, <1>3, Zenon DEF Flagged
<1> QED
  BY <1>1, <1>4 DEF StackInv

\* A statement runs when its block does.
LEMMA StatementInv ==
  ASSUME call.mode = "script", UNCHANGED <<call, input, stack>>,
         LinesInv, BranchesRunAlone, StackInv, AtLine, ~Header(at), at' = at + 1,
         IF Top.execute THEN ran' = ran \union {at} ELSE ran' = ran
  PROVE  LinesInv' /\ BranchesRunAlone' /\ StackInv'
<1>1. PICK c : c = Ind(at)
  OBVIOUS
<1>2. Within /\ Top.indent = c
  BY <1>1 DEF AtLine, Ind
<1>3. Top.execute <=> Reached(c)
  BY <1>2, TopOfStack DEF Flagged
<1>4. at \notin ran /\ ran' \in {ran, ran \union {at}}
  BY DEF LinesInv
<1>5. at \in ran' <=> Reached(c)
  BY <1>3, <1>4
<1>6. LinesInv' /\ BranchesRunAlone'
  BY <1>1, <1>2, <1>4, <1>5, NewLineInv
<1>7. ASSUME NEW p \in DOMAIN stack, NEW f, f = stack[p]
      PROVE  Flagged(f)'
  <2>1. f \in Frames /\ Flagged(f) /\ f.indent <= c
    BY <1>2, <1>7, TopOfStack
  <2>2. f.kind = "chain" => f.indent < c
    <3>1. p = Len(stack) => f.kind # "chain"
      BY <1>7, TopOfStack DEF AtLine, InBlock
    <3> QED
      BY <1>2, <1>7, <3>1, TopOfStack
  <2> QED
    BY <1>1, <1>2, <1>4, <2>1, <2>2, FramesKept
<1>8. \A p \in DOMAIN stack' : Flagged(stack[p])'
  BY <1>7, Zenon DEF Flagged
<1> QED
  BY <1>6, <1>8 DEF StackInv

-------------------------------------------------------------------------------
(* The headers of chains. *)

Branch(chain, taken, runs) == [chain EXCEPT !.taken = taken, !.runs = runs]
Body(chain, runs) ==
  IF at < Len(input) /\ input[at + 1].indent > chain.indent
  THEN <<Block(input[at + 1].indent, runs)>> ELSE <<>>

\* What OpenBranch pushes: the chain, and a block when the next line is indented more.
Pushed(base, chain, taken, runs, f, body) ==
  /\ runs <=> chain.execute /\ ~taken /\ Condition
  /\ f.kind = chain.kind /\ f.indent = chain.indent
  /\ f.execute <=> chain.execute
  /\ f.taken <=> taken
  /\ f.runs <=> runs
  /\ Len(body) <= 1
  /\ \A p \in DOMAIN body : /\ body[p].kind = "block" /\ body[p].indent > chain.indent
                            /\ body[p].execute <=> runs
  /\ stack' = base \o <<f>> \o body
  /\ ran' = IF runs THEN ran \union {at} ELSE ran

LEMMA OpenBranchEffect ==
  ASSUME NEW base, NEW chain \in Frames, NEW taken \in BOOLEAN,
         LinesInv, OpenBranch(base, chain, taken)
  PROVE  \E runs \in BOOLEAN, f \in Frames, body \in Seq(Frames) :
           Pushed(base, chain, taken, runs, f, body)
<1>1. PICK runs \in BOOLEAN : runs = (chain.execute /\ ~taken /\ Condition)
  BY Zenon
<1>2. /\ stack' = base \o <<Branch(chain, taken, chain.execute /\ ~taken /\ Condition)>>
                       \o Body(chain, chain.execute /\ ~taken /\ Condition)
      /\ ran' = IF chain.execute /\ ~taken /\ Condition THEN ran \union {at} ELSE ran
  BY Zenon DEF OpenBranch, Branch, Body
<1>3. stack' = base \o <<Branch(chain, taken, runs)>> \o Body(chain, runs)
  BY <1>1, <1>2, Zenon
<1>4. ran' = IF runs THEN ran \union {at} ELSE ran
  BY <1>1, <1>2, Zenon
<1>5. PICK f : f = Branch(chain, taken, runs)
  OBVIOUS
<1>6. /\ f \in Frames
      /\ f.kind = chain.kind /\ f.indent = chain.indent
      /\ f.execute = chain.execute /\ f.taken = taken /\ f.runs = runs
  BY <1>5 DEF Branch, Frames
<1>7. PICK body : body = Body(chain, runs)
  OBVIOUS
<1>8. /\ body \in Seq(Frames) /\ Len(body) <= 1
      /\ \A p \in DOMAIN body : /\ body[p].kind = "block" /\ body[p].indent > chain.indent
                                /\ body[p].execute <=> runs
  <2>1. CASE ~(at < Len(input) /\ input[at + 1].indent > chain.indent)
    <3>1. body = <<>>
      BY <1>7, <2>1 DEF Body
    <3> QED
      BY <3>1
  <2>2. CASE at < Len(input) /\ input[at + 1].indent > chain.indent
    <3>1. PICK b : b = Block(input[at + 1].indent, runs)
      OBVIOUS
    <3>2. body = <<b>>
      BY <1>7, <2>2, <3>1 DEF Body
    <3>3. input[at + 1].indent \in Nat
      <4>1. at + 1 \in DOMAIN input /\ input \in Seq(Lines)
        BY <2>2 DEF LinesInv
      <4>2. input[at + 1] \in Lines
        BY <4>1
      <4> QED
        BY <4>2 DEF Lines
    <3>4. /\ b \in Frames /\ b.kind = "block" /\ b.indent = input[at + 1].indent
          /\ b.execute = runs
      BY <3>1, <3>3 DEF Block, Frames
    <3> QED
      BY <2>2, <3>2, <3>4
  <2> QED
    BY <2>1, <2>2
<1>9. /\ runs <=> chain.execute /\ ~taken /\ Condition
      /\ f.execute <=> chain.execute
      /\ f.taken <=> taken
      /\ f.runs <=> runs
  BY <1>1, <1>6, Zenon
<1>10. stack' = base \o <<f>> \o body
  BY <1>3, <1>5, <1>7, Zenon
<1> QED
  BY <1>4, <1>6, <1>8, <1>9, <1>10, Zenon DEF Pushed
\* A header keeps the invariant, whether it opens a chain on a block (base is the stack)
\* or is the next one of the chain on top (base is what is below).
LEMMA BranchInv ==
  ASSUME call.mode = "script", UNCHANGED <<call, input>>,
         LinesInv, BranchesRunAlone, Within, Header(at), at' = at + 1,
         NEW base, Stacked(base),
         \A p \in DOMAIN base : /\ Flagged(base[p]) /\ base[p].indent <= Ind(at)
                                /\ base[p].kind = "chain" => base[p].indent < Ind(at),
         NEW chain \in Frames, chain.kind = "chain", chain.indent = Ind(at),
         chain.execute <=> Reached(Ind(at)),
         NEW taken \in BOOLEAN, taken <=> Continuing(at) /\ ChainRan(Ind(at)),
         OpenBranch(base, chain, taken)
  PROVE  LinesInv' /\ BranchesRunAlone' /\ StackInv'
<1>1. PICK c : c = Ind(at)
  OBVIOUS
<1>2. PICK runs \in BOOLEAN, f \in Frames, body \in Seq(Frames) :
        Pushed(base, chain, taken, runs, f, body)
  BY OpenBranchEffect, Zenon
<1> USE DEF Pushed
<1>3. /\ ran' \in {ran, ran \union {at}} /\ at \notin ran
      /\ at \in ran' <=> runs
  BY <1>2 DEF LinesInv
<1>4. /\ c \in Nat
      /\ Reached(c)' <=> Reached(c)
      /\ \A i \in Nat : i > c => (Reached(i)' <=> Reached(c) /\ runs)
      /\ ChainRan(c)' <=> (Continuing(at) /\ ChainRan(c)) \/ runs
  <2>1. c \in Nat
    BY <1>1, <1>3, NextLineEffect
  <2>2. c <= c
    BY <2>1
  <2> QED
    BY <1>1, <1>3, <2>1, <2>2, NextLineEffect
<1>5. runs => Reached(c) /\ ~(Continuing(at) /\ ChainRan(c))
  BY <1>1, <1>2
<1>6. LinesInv' /\ BranchesRunAlone'
  <2>1. Reached(c) /\ IsElse(Words) => runs \/ ChainRan(c)
    BY <1>1, <1>2 DEF Condition
  <2> QED
    BY <1>1, <1>3, <1>5, <2>1, NewLineInv
<1>7. /\ base \in Seq(Frames) /\ Len(base) \in Nat \ {0} /\ Len(body) \in {0, 1}
      /\ base[1].kind = "block" /\ DOMAIN base = 1 .. Len(base)
  BY <1>2 DEF Stacked
<1>8. /\ stack' \in Seq(Frames) /\ DOMAIN stack' = 1 .. Len(base) + 1 + Len(body)
      /\ Len(stack') = Len(base) + 1 + Len(body)
      /\ \A p \in 1 .. Len(base) : stack'[p] = base[p]
      /\ stack'[Len(base) + 1] = f
      /\ Len(body) = 1 => stack'[Len(base) + 2] = body[1] /\ 1 \in DOMAIN body
  BY <1>2, <1>7
<1>9. \A p \in DOMAIN stack' : \/ p \in 1 .. Len(base)
                               \/ p = Len(base) + 1
                               \/ Len(body) = 1 /\ p = Len(base) + 2
  <2>1. \A n \in Nat, m \in {0, 1} : \A p \in 1 .. n + 1 + m :
          p \in 1 .. n \/ p = n + 1 \/ (m = 1 /\ p = n + 2)
    OBVIOUS
  <2> QED
    BY <1>7, <1>8, <2>1, Zenon
<1>10. Flagged(f)'
  BY <1>1, <1>2, <1>4, Zenon DEF Flagged
<1>11. ASSUME NEW b \in Frames, b.kind = "block", b.indent > c, b.execute <=> runs
       PROVE  Flagged(b)'
  <2>1. Reached(b.indent)' <=> runs
    BY <1>4, <1>5, <1>11 DEF Frames
  <2> QED
    BY <1>11, <2>1 DEF Flagged
<1>12. ASSUME NEW p \in DOMAIN base PROVE Flagged(base[p])'
  <2>1. PICK b : b = base[p]
    OBVIOUS
  <2>2. /\ b \in Frames /\ Flagged(b) /\ b.indent <= Ind(at)
        /\ b.kind = "chain" => b.indent < Ind(at)
    BY <1>7, <2>1
  <2>3. Flagged(b)'
    BY <1>3, <2>2, FramesKept
  <2> QED
    BY <2>1, <2>3
<1>13. ASSUME NEW p \in DOMAIN stack', NEW b, b = stack'[p]
       PROVE  Flagged(b)'
  <2>1. CASE p \in 1 .. Len(base)
    <3>1. b = base[p] /\ p \in DOMAIN base
      BY <1>7, <1>8, <1>13, <2>1
    <3> QED
      BY <1>12, <3>1
  <2>2. CASE p = Len(base) + 1
    BY <1>8, <1>10, <1>13, <2>2
  <2>3. CASE Len(body) = 1 /\ p = Len(base) + 2
    <3>1. b = body[1] /\ 1 \in DOMAIN body
      BY <1>8, <1>13, <2>3
    <3>2. b \in Frames /\ b.kind = "block" /\ b.indent > c /\ (b.execute <=> runs)
      BY <1>1, <1>2, <3>1
    <3> QED
      BY <1>11, <3>2
  <2> QED
    BY <1>9, <2>1, <2>2, <2>3
<1>14. \A p \in DOMAIN stack' : Flagged(stack[p])'
  BY <1>13, Zenon DEF Flagged
<1>15. Stacked(stack')
  <2>1. /\ \A p \in 1 .. Len(base) : /\ stack'[p].indent \in Nat
                                     /\ stack'[p].indent <= c
                                     /\ stack'[p].kind = "chain" => stack'[p].indent < c
        /\ f.indent = c
        /\ Len(body) = 1 => stack'[Len(base) + 2].indent \in Nat
                            /\ stack'[Len(base) + 2].indent > c
    <3>1. \A b \in Frames : b.indent \in Nat
      BY DEF Frames
    <3>2. \A p \in DOMAIN base : base[p] \in Frames
      BY <1>7
    <3>3. Len(body) = 1 => body[1] \in Frames
      BY <1>2, <1>8
    <3> QED
      BY <1>1, <1>2, <1>7, <1>8, <3>1, <3>2, <3>3
  <2>2. stack' # <<>> /\ stack'[1].kind = "block"
    BY <1>7, <1>8
  <2>3. ASSUME NEW p \in DOMAIN stack', NEW q \in DOMAIN stack', p < q
        PROVE  /\ stack'[p].indent <= stack'[q].indent
               /\ stack'[p].kind = "chain" => stack'[p].indent < stack'[q].indent
    <3>1. CASE q \in 1 .. Len(base)
      <4>1. p \in DOMAIN base /\ q \in DOMAIN base
        BY <1>7, <1>8, <2>3, <3>1
      <4> QED
        BY <1>7, <1>8, <2>3, <4>1 DEF Stacked
    <3>2. CASE q = Len(base) + 1
      <4>1. p \in 1 .. Len(base)
        BY <1>7, <1>8, <2>3, <3>2
      <4> QED
        BY <1>8, <2>1, <3>2, <4>1
    <3>3. CASE Len(body) = 1 /\ q = Len(base) + 2
      <4>1. p \in 1 .. Len(base) \/ p = Len(base) + 1
        BY <1>7, <1>8, <2>3, <3>3
      <4> QED
        BY <1>4, <1>8, <2>1, <3>3, <4>1
    <3> QED
      BY <1>9, <3>1, <3>2, <3>3
  <2> QED
    BY <1>8, <2>2, <2>3 DEF Stacked
<1> QED
  BY <1>6, <1>14, <1>15 DEF StackInv

LEMMA OpenChainInv ==
  ASSUME call.mode = "script", LinesInv, BranchesRunAlone, StackInv, OpenChain
  PROVE  LinesInv' /\ BranchesRunAlone' /\ StackInv'
<1>1. /\ Top.kind = "block" /\ Within /\ Top.indent = Ind(at) /\ IsIf(Words)
      /\ OpenBranch(stack, [Top EXCEPT !.kind = "chain"], FALSE)
  BY DEF OpenChain, AtLine, InBlock, Ind
<1>2. UNCHANGED <<call, input>> /\ at' = at + 1
  BY <1>1 DEF OpenBranch
<1>3. Header(at) /\ ~Continuing(at)
  BY <1>1, HeaderKinds DEF Header, Continuing, IsHeader, Words
<1>4. Top \in Frames /\ Flagged(Top)
  BY TopOfStack
<1>5. PICK chain : chain = [Top EXCEPT !.kind = "chain"]
  OBVIOUS
<1>6. /\ chain \in Frames /\ chain.kind = "chain" /\ chain.indent = Ind(at)
      /\ chain.execute = Top.execute
  BY <1>1, <1>4, <1>5 DEF Frames
<1>7. chain.execute <=> Reached(Ind(at))
  BY <1>1, <1>4, <1>6, Zenon DEF Flagged
<1>8. \A p \in DOMAIN stack : /\ Flagged(stack[p]) /\ stack[p].indent <= Ind(at)
                              /\ stack[p].kind = "chain" => stack[p].indent < Ind(at)
  BY <1>1, TopOfStack
<1>9. PICK taken \in BOOLEAN : taken = FALSE
  OBVIOUS
<1>10. OpenBranch(stack, chain, taken)
  BY <1>1, <1>5, <1>9, Zenon
<1> QED
  BY <1>1, <1>2, <1>3, <1>6, <1>7, <1>8, <1>9, <1>10, BranchInv DEF StackInv

LEMMA NextBranchInv ==
  ASSUME call.mode = "script", LinesInv, BranchesRunAlone, StackInv, NextBranch
  PROVE  LinesInv' /\ BranchesRunAlone' /\ StackInv'
<1>1. /\ Top.kind = "chain" /\ Within /\ Ind(at) = Top.indent /\ Continuing(at)
      /\ OpenBranch(Front(stack), Top, Taken(Top))
  BY DEF NextBranch, Continues, Ind, Continuing, Words
<1>2. UNCHANGED <<call, input>> /\ at' = at + 1
  BY <1>1 DEF OpenBranch
<1>3. Header(at)
  BY <1>1 DEF Header, Continuing, IsHeader
<1>4. Top \in Frames /\ Flagged(Top)
  BY TopOfStack
<1>5. Top.execute <=> Reached(Ind(at))
  BY <1>1, <1>4 DEF Flagged
<1>6. PICK taken \in BOOLEAN : taken = Taken(Top)
  BY Zenon DEF Taken
<1>7. taken <=> Continuing(at) /\ ChainRan(Ind(at))
  BY <1>1, <1>4, <1>6, Zenon DEF Flagged, Taken
<1>8. PICK base : base = Front(stack)
  OBVIOUS
<1>9. Len(stack) > 1
  <2>1. Len(stack) # 1 /\ Len(stack) \in Nat \ {0}
    BY <1>1, TopOfStack DEF StackInv, Stacked
  <2>2. \A n \in Nat \ {0} : n # 1 => n > 1
    OBVIOUS
  <2> QED
    BY <2>1, <2>2
<1>10. /\ Stacked(base) /\ DOMAIN base \subseteq DOMAIN stack
       /\ \A p \in DOMAIN base : base[p] = stack[p] /\ p # Len(stack)
  BY <1>8, <1>9, BelowTop
<1>11. \A p \in DOMAIN base : /\ Flagged(base[p]) /\ base[p].indent <= Ind(at)
                              /\ base[p].kind = "chain" => base[p].indent < Ind(at)
  BY <1>1, <1>10, TopOfStack
<1>12. OpenBranch(base, Top, taken)
  BY <1>1, <1>6, <1>8, Zenon
<1> QED
  BY <1>1, <1>2, <1>3, <1>4, <1>5, <1>7, <1>10, <1>11, <1>12, BranchInv
-------------------------------------------------------------------------------
(* The steps of a script. *)

\* A statement is done, or fails, or executes a plan in the REPL.
LEMMA StatementEffect ==
  Statements => FailScript \/ (\E c : Done(c)) \/ FinalizeInRepl \/ PromptInRepl
<1> SUFFICES ASSUME Statements
             PROVE  FailScript \/ (\E c : Done(c)) \/ FinalizeInRepl \/ PromptInRepl
  OBVIOUS
<1>1. Fails => FailScript \/ \E c : Done(c)
  BY Zenon DEF Fails
<1>2. ASSUME NEW possible, Wallet(possible) PROVE FailScript \/ \E c : Done(c)
  BY <1>1, <1>2, Zenon DEF Wallet
<1>3. ASSUME NEW flag, Toggle(flag) PROVE FailScript \/ \E c : Done(c)
  BY <1>1, <1>3, Zenon DEF Toggle
<1>4. Plain \/ Threshold \/ Macro \/ Network \/ Horizon \/ Friendbot \/ Source
        \/ Generate \/ Bootstrap \/ CliBinary => FailScript \/ \E c : Done(c)
  BY <1>1, <1>2, Zenon DEF Plain, Threshold, Macro, Network, Horizon, Friendbot, Source,
                           Generate, Bootstrap, CliBinary
<1>5. Request => FailScript \/ \E c : Done(c)
  BY <1>1, Zenon DEF Request
<1>6. FinalizeInScript \/ Predict \/ Assign \/ ActionLine \/ PromptInScript
        => FailScript \/ \E c : Done(c)
  BY <1>1, Zenon DEF FinalizeInScript, Predict, Assign, ActionLine, PromptInScript
<1> QED
  BY <1>3, <1>4, <1>5, <1>6, Zenon DEF Statements

LEMMA CallKept == [Next]_vars => call' = call
<1> SUFFICES ASSUME [Next]_vars PROVE call' = call
  OBVIOUS
<1>1. CASE Structure
  BY <1>1 DEF Structure, BadIndentation, OrphanBranch, OpenChain, NextBranch, OpenBranch,
              CloseChain, CloseBlock, RunScript, SkipStatement, FailScript
<1>2. CASE Statements
  BY <1>2, StatementEffect DEF Done, FailScript, FinalizeInRepl, PromptInRepl
<1>3. CASE Flow \/ UNCHANGED vars
  BY <1>3 DEF Flow, sessionVars, vars
<1>4. CASE RunFile \/ RunText \/ OpenScript \/ OpenRepl \/ TypeBlock
  BY <1>4 DEF RunFile, RunText, OpenScript, OpenRepl, TypeBlock
<1>5. CASE Exit \/ SetupTestnet \/ RunManual \/ Finalized
  BY <1>5 DEF Exit, SetupTestnet, RunManual, Finalized
<1> QED
  BY <1>1, <1>2, <1>3, <1>4, <1>5 DEF Next

LEMMA SameLines ==
  ASSUME LinesInv, BranchesRunAlone, UNCHANGED <<call, input, at, ran>>
  PROVE  LinesInv' /\ BranchesRunAlone'
<1>1. LinesInv'
  BY DEF LinesInv
<1>2. \A h, g : /\ Encloses(h, g)' <=> Encloses(h, g)
                /\ SameChain(h, g)' <=> SameChain(h, g)
  BY DEF Encloses, SameChain
<1> QED
  BY <1>1, <1>2, Zenon DEF BranchesRunAlone

\* The first line of a script is in the block of the script.
LEMMA OpenScriptInv ==
  ASSUME call.mode = "script", ScriptInv, OpenScript
  PROVE  ScriptInv'
<1>1. /\ input' \in Seq(Lines) /\ phase' = "building"
      /\ at = 1 /\ at' = 1 /\ ran = {} /\ ran' = {} /\ call' = call
      /\ stack' = <<Block(0, TRUE)>>
  BY SessionAssumption DEF OpenScript, ScriptInv
<1>2. LinesInv' /\ at' - 1 = 0
  BY <1>1 DEF LinesInv
<1>3. 1 .. (at' - 1) = {}
  BY <1>1
<1>4. BranchesRunAlone'
  <2>1. OnePerChain'
    BY <1>1, Zenon DEF OnePerChain
  <2> QED
    BY <1>1, <1>3, <2>1, LineByLineNext
<1>5. PICK b : b = Block(0, TRUE)
  OBVIOUS
<1>6. b \in Frames /\ b.kind = "block" /\ b.execute
  BY <1>5 DEF Block, Frames
<1>7. stack' = <<b>> /\ DOMAIN stack' = {1} /\ stack'[1] = b /\ stack' \in Seq(Frames)
  <2>1. stack' = <<b>>
    BY <1>1, <1>5, Zenon
  <2> QED
    BY <1>6, <2>1
<1>8. Stacked(stack')
  BY <1>6, <1>7 DEF Stacked
<1>9. Flagged(b)'
  BY <1>3, <1>6, Zenon DEF Flagged, Reached
<1>10. \A p \in DOMAIN stack' : Flagged(stack[p])'
  BY <1>7, <1>9, Zenon DEF Flagged
<1> QED
  BY <1>1, <1>2, <1>4, <1>8, <1>10 DEF ScriptInv, StackInv

\* Steps that leave the lines alone and open nothing.
LEMMA QuietScript ==
  ASSUME ScriptInv, UNCHANGED <<call, input, at, ran, stack>>,
         phase' \in {phase, "stopped", "executing"}
  PROVE  ScriptInv'
<1>1. StackInv => StackInv'
  <2>1. \A f : Flagged(f)' <=> Flagged(f)
    BY DEF Flagged, Reached, ChainRan, OpenHeader, InChain, Ind, Header, Continuing
  <2>2. ASSUME StackInv PROVE \A p \in DOMAIN stack' : Flagged(stack[p])'
    <3>1. \A p \in DOMAIN stack' : Flagged(stack'[p])
      BY <2>2 DEF StackInv
    <3> QED
      BY <2>1, <3>1, Zenon DEF Flagged
  <2> QED
    BY <2>2 DEF StackInv
<1>2. call.mode = "script" => LinesInv' /\ BranchesRunAlone'
  BY SameLines DEF ScriptInv
<1> QED
  BY <1>1, <1>2 DEF ScriptInv

\* Steps inside a script.
LEMMA BuildingStep ==
  ASSUME call.mode = "script", ScriptInv, phase = "building", UNCHANGED <<call, phase>>,
         LinesInv' /\ BranchesRunAlone' /\ StackInv'
  PROVE  ScriptInv'
  BY DEF ScriptInv

LEMMA StructureScript ==
  ASSUME call.mode = "script", ScriptInv, Structure
  PROVE  ScriptInv'
<1>1. /\ phase = "building"
      /\ LinesInv /\ BranchesRunAlone /\ StackInv
  BY DEF Structure, BadIndentation, OrphanBranch, OpenChain, NextBranch, CloseChain, CloseBlock,
         RunScript, SkipStatement, AtLine, BlockEnds, InBlock, ScriptInv
<1>2. CASE BadIndentation \/ OrphanBranch \/ RunScript
  <2>1. UNCHANGED <<call, input, at, ran, stack>> /\ phase' \in {"stopped", "executing"}
    BY <1>2 DEF BadIndentation, OrphanBranch, RunScript, FailScript
  <2> QED
    BY <2>1, QuietScript
<1>3. CASE OpenChain
  <2>1. UNCHANGED <<call, phase>>
    BY <1>3 DEF OpenChain, OpenBranch
  <2> QED
    BY <1>1, <1>3, <2>1, OpenChainInv, BuildingStep
<1>4. CASE NextBranch
  <2>1. UNCHANGED <<call, phase>>
    BY <1>4 DEF NextBranch, OpenBranch
  <2> QED
    BY <1>1, <1>4, <2>1, NextBranchInv, BuildingStep
<1>5. CASE CloseChain \/ CloseBlock
  <2>1. /\ UNCHANGED <<call, phase, input, at, ran>> /\ stack' = Front(stack)
        /\ Top.kind = "chain" \/ Len(stack) > 1
    BY <1>5 DEF CloseChain, CloseBlock
  <2>2. Top.kind = "chain" => Len(stack) > 1
    <3>1. Top.kind = "chain" => Len(stack) # 1
      BY <1>1, TopOfStack DEF StackInv, Stacked
    <3>2. \A n \in Nat \ {0} : n # 1 => n > 1
      OBVIOUS
    <3> QED
      BY <1>1, <3>1, <3>2, TopOfStack
  <2>3. StackInv'
    BY <1>1, <2>1, <2>2, CloseInv
  <2>4. LinesInv' /\ BranchesRunAlone'
    BY <1>1, <2>1, SameLines
  <2> QED
    BY <1>1, <2>1, <2>3, <2>4, BuildingStep
<1>6. CASE SkipStatement
  <2>1. /\ AtLine /\ ~Header(at) /\ ~Top.execute /\ at' = at + 1
        /\ UNCHANGED <<call, phase, input, stack, ran>>
    BY <1>6 DEF SkipStatement, Header, Words
  <2>2. LinesInv' /\ BranchesRunAlone' /\ StackInv'
    BY <1>1, <2>1, StatementInv
  <2> QED
    BY <1>1, <2>1, <2>2, BuildingStep
<1> QED
  BY <1>2, <1>3, <1>4, <1>5, <1>6 DEF Structure

LEMMA StatementsScript ==
  ASSUME call.mode = "script", ScriptInv, Statements
  PROVE  ScriptInv'
<1>1. InScript /\ ~InRepl
  BY DEF ScriptInv, Statements, InRepl, Ready
<1>2. AtLine /\ ~Header(at) /\ Top.execute /\ (FailScript \/ \E c : Done(c))
  BY <1>1, StatementEffect DEF InScript, Header, Words, FinalizeInRepl, PromptInRepl
<1>3. phase = "building"
  BY <1>2 DEF AtLine, InBlock
<1>4. CASE FailScript
  BY <1>4, QuietScript DEF FailScript
<1>5. CASE \E c : Done(c)
  <2>1. /\ UNCHANGED <<call, phase, input, stack>> /\ at' = at + 1
        /\ ran' = ran \union {at}
    BY <1>3, <1>5 DEF Done
  <2>2. LinesInv /\ BranchesRunAlone /\ StackInv
    BY <1>3 DEF ScriptInv
  <2>3. LinesInv' /\ BranchesRunAlone' /\ StackInv'
    BY <1>2, <2>1, <2>2, StatementInv
  <2> QED
    BY <1>3, <2>1, <2>3, BuildingStep
<1> QED
  BY <1>2, <1>4, <1>5

LEMMA ScriptStep == ScriptInv /\ [Next]_vars => ScriptInv'
<1> SUFFICES ASSUME ScriptInv, [Next]_vars PROVE ScriptInv'
  OBVIOUS
<1>1. CASE call.mode # "script"
  BY <1>1, CallKept DEF ScriptInv
<1>2. CASE call.mode = "script" /\ (Flow \/ UNCHANGED vars)
  <2>1. UNCHANGED <<call, phase, input, at, ran, stack>>
    BY <1>2 DEF Flow, sessionVars, vars
  <2> QED
    BY <2>1, QuietScript
<1>3. CASE call.mode = "script" /\ Structure
  BY <1>3, StructureScript
<1>4. CASE call.mode = "script" /\ Statements
  BY <1>4, StatementsScript
<1>5. CASE call.mode = "script" /\ OpenScript
  BY <1>5, OpenScriptInv
<1>6. call.mode = "script" =>
        ~(RunFile \/ RunText \/ OpenRepl \/ TypeBlock \/ Exit \/ SetupTestnet \/ RunManual
            \/ Finalized)
  BY DEF ScriptInv, RunFile, RunText, OpenRepl, TypeBlock, Exit, SetupTestnet, RunManual, Finalized,
         Ready
<1> QED
  BY <1>1, <1>2, <1>3, <1>4, <1>5, <1>6 DEF Next

-------------------------------------------------------------------------------
(* Theorems *)

\* The open blocks and chains of a script say at every line which branches around it
\* ran (execute_script_block and execute_if_chain).
THEOREM ScriptInvariant == Spec => []ScriptInv
<1>1. Init => ScriptInv
  BY DEF Init, ScriptInv, LinesInv, BranchesRunAlone
<1>2. ScriptInv /\ [Next]_vars => ScriptInv'
  BY ScriptStep
<1> QED
  BY <1>1, <1>2, PTL DEF Spec

\* Of the branches of a chain one runs at most, and one when there is an else; a
\* statement runs exactly when all branches around it do, at any depth.
THEOREM BranchesAreExclusive == Spec => []BranchesRunAlone
<1>1. ScriptInv => BranchesRunAlone
  BY DEF ScriptInv, BranchesRunAlone
<1> QED
  BY <1>1, ScriptInvariant, PTL
===============================================================================
