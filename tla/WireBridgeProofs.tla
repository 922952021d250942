-------------------------- MODULE WireBridgeProofs --------------------------
(***************************************************************************)
(* Proofs about WireBridge, for requests and a CMA of every size: what one *)
(* call of execProtocolRaw leaves behind for every sequence of messages,   *)
(* and what it returns for a request that is one batch.                    *)
(***************************************************************************)
EXTENDS WireBridge, SequenceTheorems, WellFoundedInduction, TLAPS

\* The output of the backend since the request: in the CMA, or in the file.
Written == IF sockfiles THEN socketFile ELSE ReadAt(base, sent)

\* Nothing is handed over, nothing is left to read.
NothingLeft ==
    /\ outFile = <<>> /\ cma_wsize = 0
    /\ recv = <<>> /\ errorFlag = FALSE

\* The request that is being served, and where the reply goes.
Current ==
    /\ tick = 0 /\ asked \in Chunks /\ replies = <<>>
    /\ pendingWireLen = Len(asked)
Placed == Current /\ base = 2 + Len(asked) /\ Written \in Seq(Pieces)

\* The request is in the CMA and has not been read; all of it has been.
Asking == /\ Current /\ cma_rsize = Len(asked)
          /\ \A i \in 1 .. Len(asked) : mem[i] = asked[i]
Asked  == tick = 1 /\ tick < MaxTicks /\ cma_rsize = 0 /\ pendingWireLen = 0

\* The messages that have been read, and that those in recv are the others.
Served == Len(asked) - Len(recv)
Unread == /\ Len(recv) <= Len(asked)
          /\ \A i \in 1 .. Len(recv) : recv[i] = asked[Served + i]

\* The backend is at work; it has handed the output over.
AtWork == Placed /\ outFile = <<>> /\ cma_wsize = 0
HandedOver ==
    /\ Placed /\ recv = <<>> /\ errorFlag = FALSE
    /\ IF sockfiles THEN outFile = socketFile /\ cma_wsize = 0
                    ELSE outFile = <<>> /\ cma_wsize = sent

\* Where the loop of execProtocolRaw and the backend are, by label.
LabelInv ==
    /\ jpc = "idle" => NothingLeft
    /\ jpc \in {"before", "one"} => NothingLeft /\ (Asking \/ Asked)
    /\ jpc \in {"serving", "trapped", "resume"} => AtWork /\ Unread
    /\ jpc \in {"serving", "resume"} => errorFlag = FALSE
    /\ jpc = "last" => HandedOver
    /\ jpc = "after" => HandedOver \/ (NothingLeft /\ Asked)
    /\ jpc \in {"one", "serving", "after"} => producedBefore = FALSE

WireInv == TypeOK /\ LoopEndsByItself /\ LabelInv

\* A request is one batch: it ends with its only Sync.
OneBatchEach ==
    \A c \in Chunks : \A i \in 1 .. Len(c) : c[i] = "sync" <=> i = Len(c)

\* How far the output has got, against what the protocol prescribes.
OutInv ==
    LET t == Transcript(asked)
    IN /\ jpc = "serving" => ~t[Served].skip /\ Written = t[Served].out
       /\ jpc = "trapped" => /\ Served > 0 /\ asked[Served] = "err"
                             /\ ~t[Served - 1].skip
                             /\ Written = t[Served - 1].out
       /\ jpc = "resume" => t[Served].skip /\ Written = t[Served].out
       /\ jpc = "last" => Written = Protocol(asked)
       /\ jpc = "after" /\ tick = 0 => Written = Protocol(asked)
       /\ jpc = "idle" \/ tick = 1 => replies = Protocol(asked)
-----------------------------------------------------------------------------
(***************************************************************************)
(* The protocol's reference: the transcript of a sequence of messages.     *)
(***************************************************************************)
\* A set of numbers that is not empty has a least one.
LEMMA LeastNumber ==
    ASSUME NEW T \in SUBSET Nat, T # {}
    PROVE  \E s \in T : \A t \in T : s <= t
<1> DEFINE R == OpToRel(<, Nat)
<1>1. PICK s \in T : \A t \in T : ~(<<t, s>> \in R)
  BY NatLessThanWellFounded, WFMin
<1>2. ASSUME NEW t \in T PROVE s <= t
  <2>1. t \in Nat /\ s \in Nat
    OBVIOUS
  <2>2. t < s => <<t, s>> \in R
    BY <2>1 DEF OpToRel
  <2> HIDE DEF R
  <2>3. ~(t < s)
    BY <1>1, <2>2
  <2> QED BY <2>1, <2>3
<1> QED BY <1>2

\* The function by which Transcript is defined exists, for every length.
LEMMA TranscriptExists ==
    ASSUME NEW ms, NEW n \in Nat
    PROVE  \E f : f = [i \in 0 .. n |->
                         IF i = 0 THEN Begun ELSE Answered(f[i - 1], ms[i])]
<1> DEFINE Is(f, k) == f = [i \in 0 .. k |->
                              IF i = 0 THEN Begun ELSE Answered(f[i - 1], ms[i])]
           T == {k \in Nat : ~\E f : Is(f, k)}
<1>1. SUFFICES ASSUME T # {} PROVE FALSE
  OBVIOUS
<1>2. PICK k \in T : \A t \in T : k <= t
  BY <1>1, LeastNumber
<1>3. k \in Nat /\ ~\E f : Is(f, k)
  OBVIOUS
<1>4. CASE k = 0
  <2> DEFINE g == [i \in 0 .. 0 |-> Begun]
  <2>1. Is(g, 0)
    OBVIOUS
  <2> HIDE DEF Is, g
  <2> QED BY <1>3, <1>4, <2>1
<1>5. CASE k # 0
  <2>1. k - 1 \in Nat /\ k - 1 \notin T
    <3> HIDE DEF T
    <3> QED BY <1>2, <1>3, <1>5
  <2>2. PICK f : Is(f, k - 1)
    BY <2>1
  <2> DEFINE g == [i \in 0 .. k |-> IF i = k THEN Answered(f[k - 1], ms[k]) ELSE f[i]]
  <2>3. \A i \in 0 .. k - 1 : g[i] = f[i]
    BY <1>3
  <2>4. \A i \in 0 .. k : g[i] = IF i = 0 THEN Begun ELSE Answered(g[i - 1], ms[i])
    <3> SUFFICES ASSUME NEW i \in 0 .. k
                 PROVE  g[i] = IF i = 0 THEN Begun ELSE Answered(g[i - 1], ms[i])
      OBVIOUS
    <3>1. CASE i = k
      <4>1. g[k] = Answered(f[k - 1], ms[k]) /\ g[k - 1] = f[k - 1]
        BY <1>3, <2>1, <2>3
      <4> HIDE DEF g
      <4> QED BY <1>5, <3>1, <4>1
    <3>2. CASE i # k
      <4>1. i \in 0 .. k - 1 /\ (i # 0 => i - 1 \in 0 .. k - 1)
        BY <1>3, <3>2
      <4>2. f[i] = IF i = 0 THEN Begun ELSE Answered(f[i - 1], ms[i])
        BY <2>2, <4>1
      <4>3. g[i] = f[i] /\ (i # 0 => g[i - 1] = f[i - 1])
        BY <2>3, <4>1
      <4> HIDE DEF g
      <4> QED BY <4>2, <4>3
    <3> QED BY <3>1, <3>2
  <2>5. Is(g, k)
    <3>1. g = [i \in 0 .. k |-> g[i]]
      OBVIOUS
    <3> HIDE DEF g
    <3> QED BY <2>4, <3>1
  <2> HIDE DEF Is, g
  <2> QED BY <1>3, <2>5
<1> QED BY <1>4, <1>5

\* What the definition of a transcript says.
LEMMA TranscriptIs ==
    ASSUME NEW ms \in Seq(Messages)
    PROVE  /\ Transcript(ms)[0] = Begun
           /\ \A i \in 1 .. Len(ms) :
                 Transcript(ms)[i] = Answered(Transcript(ms)[i - 1], ms[i])
<1> DEFINE t == Transcript(ms)
           n == Len(ms)
<1>1. n \in Nat
  OBVIOUS
<1>2. t = [i \in 0 .. n |-> IF i = 0 THEN Begun ELSE Answered(t[i - 1], ms[i])]
  <2>1. \E f : f = [i \in 0 .. n |->
                      IF i = 0 THEN Begun ELSE Answered(f[i - 1], ms[i])]
    BY <1>1, TranscriptExists
  <2>2. t = CHOOSE f : f = [i \in 0 .. n |->
                              IF i = 0 THEN Begun ELSE Answered(f[i - 1], ms[i])]
    BY DEF Transcript
  <2> HIDE DEF t, n
  <2> QED BY <2>1, <2>2
<1> HIDE DEF t, n
<1>3. t[0] = Begun
  <2>1. 0 \in 0 .. n
    BY <1>1
  <2> QED BY <1>2, <2>1
<1>4. ASSUME NEW i \in 1 .. n PROVE t[i] = Answered(t[i - 1], ms[i])
  <2>1. i \in 0 .. n /\ i # 0
    BY <1>1
  <2> QED BY <1>2, <2>1
<1> QED BY <1>3, <1>4 DEF t, n

\* Its entries say whether messages are skipped and what has been put out.
Entry == [skip : BOOLEAN, out : Seq(Pieces)]

\* One message more.
LEMMA AnsweredType ==
    ASSUME NEW p \in Entry, NEW m \in Messages
    PROVE  Answered(p, m) \in Entry /\ Output(m) \in Seq(Pieces) /\ Len(Output(m)) <= 1
<1>1. "ready" \in Pieces /\ "error" \in Pieces /\ "row" \in Pieces
  BY DEF Pieces
<1>2. p.out \in Seq(Pieces) /\ p.skip \in BOOLEAN
  BY DEF Entry
<1>3. Output(m) \in {<<"row">>, <<"ready">>, <<>>}
  BY DEF Output
<1>4. Output(m) \in Seq(Pieces) /\ Len(Output(m)) <= 1
  <2>1. <<"row">> \in Seq(Pieces) /\ <<"ready">> \in Seq(Pieces) /\ <<>> \in Seq(Pieces)
    BY <1>1
  <2>2. Len(<<"row">>) = 1 /\ Len(<<"ready">>) = 1 /\ Len(<<>>) = 0
    OBVIOUS
  <2>3. ASSUME NEW s \in {<<"row">>, <<"ready">>, <<>>}
        PROVE  s \in Seq(Pieces) /\ Len(s) <= 1
    <3>1. CASE s = <<"row">>
      BY <2>1, <2>2, <3>1
    <3>2. CASE s = <<"ready">>
      BY <2>1, <2>2, <3>2
    <3>3. CASE s = <<>>
      BY <2>1, <2>2, <3>3
    <3> QED BY <3>1, <3>2, <3>3
  <2> QED BY <1>3, <2>3
<1>5. p.out \o Output(m) \in Seq(Pieces)
  BY <1>2, <1>4, ConcatProperties
<1>6. Append(p.out, "ready") \in Seq(Pieces) /\ Append(p.out, "error") \in Seq(Pieces)
  BY <1>1, <1>2, AppendProperties
<1> QED BY <1>4, <1>5, <1>6 DEF Answered, Entry

\* Every entry of a transcript has its type.
LEMMA TranscriptType ==
    ASSUME NEW ms \in Seq(Messages), NEW i \in 0 .. Len(ms)
    PROVE  Transcript(ms)[i] \in Entry
<1> DEFINE t == Transcript(ms)
           T == {k \in 0 .. Len(ms) : t[k] \notin Entry}
<1>1. SUFFICES ASSUME T # {} PROVE FALSE
  OBVIOUS
<1>2. Len(ms) \in Nat /\ T \in SUBSET Nat
  OBVIOUS
<1>3. t[0] = Begun /\ \A j \in 1 .. Len(ms) : t[j] = Answered(t[j - 1], ms[j])
  BY TranscriptIs
<1> HIDE DEF t
<1>4. PICK k \in T : \A j \in T : k <= j
  <2> HIDE DEF T
  <2> QED BY <1>1, <1>2, LeastNumber
<1>5. CASE k = 0
  <2>1. Begun \in Entry
    BY EmptySeq DEF Begun, Entry
  <2> QED BY <1>3, <1>5, <2>1
<1>6. CASE k # 0
  <2>1. k \in 1 .. Len(ms) /\ k - 1 \in 0 .. Len(ms) /\ k - 1 \notin T
    BY <1>2, <1>4, <1>6
  <2>2. t[k - 1] \in Entry /\ ms[k] \in Messages
    BY <2>1, ElementOfSeq
  <2>3. t[k] \in Entry
    BY <1>3, <2>1, <2>2, AnsweredType
  <2> QED BY <2>3
<1> QED BY <1>5, <1>6

\* After an error the rest of a batch adds the answer to its Sync.
LEMMA SkipsToSync ==
    ASSUME NEW ms \in Seq(Messages), NEW n \in 0 .. Len(ms), Transcript(ms)[n].skip,
           \A i \in 1 .. Len(ms) : ms[i] = "sync" <=> i = Len(ms)
    PROVE  Protocol(ms) = Transcript(ms)[n].out \o <<"ready">>
<1> DEFINE t == Transcript(ms)
           T == {k \in n .. Len(ms) - 1 : t[k] # t[n]}
<1>1. t[0] = Begun /\ \A j \in 1 .. Len(ms) : t[j] = Answered(t[j - 1], ms[j])
  BY TranscriptIs
<1>2. Len(ms) \in Nat /\ n \in Nat /\ t[n].skip /\ Protocol(ms) = t[Len(ms)].out
  BY DEF Protocol
<1>3. t[n].out \in Seq(Pieces)
  BY TranscriptType DEF Entry
<1> HIDE DEF t
<1>4. n # Len(ms)
  <2>1. CASE Len(ms) = 0
    BY <1>1, <1>2, <2>1 DEF Begun
  <2>2. CASE Len(ms) # 0
    <3>1. Len(ms) \in 1 .. Len(ms) /\ ms[Len(ms)] = "sync"
      BY <1>2, <2>2
    <3>2. t[Len(ms)] = Answered(t[Len(ms) - 1], "sync")
      BY <1>1, <3>1
    <3>3. t[Len(ms)].skip = FALSE
      BY <3>2 DEF Answered
    <3> QED BY <1>2, <3>3
  <2> QED BY <2>1, <2>2
<1>5. \A k \in n .. Len(ms) - 1 : t[k] = t[n]
  <2>1. SUFFICES ASSUME T # {} PROVE FALSE
    OBVIOUS
  <2>2. T \in SUBSET Nat
    BY <1>2
  <2>3. PICK k \in T : \A j \in T : k <= j
    <3> HIDE DEF T
    <3> QED BY <2>1, <2>2, LeastNumber
  <2>4. k # n /\ k \in n .. Len(ms) - 1 /\ t[k] # t[n]
    OBVIOUS
  <2>5. /\ k \in 1 .. Len(ms) /\ k # Len(ms) /\ k - 1 \in n .. Len(ms) - 1
        /\ k - 1 \notin T
    BY <1>2, <2>3, <2>4
  <2>6. t[k - 1] = t[n] /\ ms[k] # "sync"
    BY <2>5
  <2>7. t[k] = t[n]
    BY <1>1, <1>2, <2>5, <2>6 DEF Answered
  <2> QED BY <2>4, <2>7
<1>6. Len(ms) \in 1 .. Len(ms) /\ Len(ms) - 1 \in n .. Len(ms) - 1
  BY <1>2, <1>4
<1>7. t[Len(ms)].out = Append(t[n].out, "ready")
  <2>1. t[Len(ms)] = Answered(t[n], "sync")
    BY <1>1, <1>5, <1>6
  <2> QED BY <2>1 DEF Answered
<1>8. Append(t[n].out, "ready") = t[n].out \o <<"ready">>
  BY <1>3, AppendIsConcat DEF Pieces
<1> QED BY <1>2, <1>7, <1>8 DEF t
-----------------------------------------------------------------------------
(***************************************************************************)
(* The memory both sides use.                                              *)
(***************************************************************************)
\* Reading cells of the CMA gives their contents, in order.
LEMMA ReadsCells ==
    ASSUME NEW S, NEW a \in Nat, NEW n \in Nat, \A i \in 1 .. n : mem[a + i - 1] \in S
    PROVE  /\ ReadAt(a, n) \in Seq(S) /\ Len(ReadAt(a, n)) = n
           /\ \A i \in 1 .. n : ReadAt(a, n)[i] = mem[a + i - 1]
  BY DEF ReadAt

\* The same, of what is known to be a sequence.
LEMMA ReadLength ==
    ASSUME NEW S, NEW a \in Nat, NEW n \in Nat, ReadAt(a, n) \in Seq(S)
    PROVE  /\ Len(ReadAt(a, n)) = n
           /\ \A i \in 1 .. n : ReadAt(a, n)[i] = mem[a + i - 1] /\ mem[a + i - 1] \in S
<1>1. DOMAIN ReadAt(a, n) = 1 .. n /\ \A i \in 1 .. n : ReadAt(a, n)[i] = mem[a + i - 1]
  BY DEF ReadAt
<1> DEFINE s == ReadAt(a, n)
<1>2. s \in Seq(S) /\ Len(s) \in Nat /\ DOMAIN s = 1 .. Len(s)
  BY LenProperties
<1> HIDE DEF s
<1>3. Len(s) = n
  BY <1>1, <1>2 DEF s
<1>4. \A i \in 1 .. n : s[i] \in S
  BY <1>2, <1>3, ElementOfSeq
<1> QED BY <1>1, <1>3, <1>4 DEF s

\* Nothing is read where there is nothing.
LEMMA ReadsNothing == ASSUME NEW a PROVE ReadAt(a, 0) = <<>>
  BY DEF ReadAt

\* What the backend puts out comes behind what it has put out, in the CMA, in
\* the file, or in the file because the CMA is full.
LEMMA PutBytesWrites ==
    ASSUME TypeOK, Written \in Seq(Pieces), NEW out \in Seq(Pieces), Len(out) <= 1,
           PutBytes(out), UNCHANGED base
    PROVE  /\ Written' = Written \o out /\ Written' \in Seq(Pieces)
           /\ mem' \in [Cells -> Tokens] /\ socketFile' \in Seq(Pieces)
           /\ sockfiles' \in BOOLEAN /\ sent' \in Nat /\ base' + sent' <= CmaSize
<1>t. /\ mem \in [Cells -> Tokens] /\ socketFile \in Seq(Pieces)
      /\ sockfiles \in BOOLEAN /\ sent \in Nat /\ base \in Nat /\ base + sent <= CmaSize
      /\ CmaSize \in Nat
  BY ConstantsAssumption DEF TypeOK
<1>w. Written \o out \in Seq(Pieces)
  BY ConcatProperties
<1>1. CASE out = <<>> /\ UNCHANGED send
  <2>1. Written' = Written /\ UNCHANGED <<mem, socketFile, sockfiles, sent>>
    BY <1>1 DEF send, Written, ReadAt
  <2>2. Written \o out = Written
    BY <1>1, ConcatEmptySeq
  <2> QED BY <1>t, <2>1, <2>2
<1>2. CASE /\ out # <<>> /\ ~sockfiles /\ base + sent < CmaSize
           /\ mem' = [mem EXCEPT ![base + sent] = out[1]]
           /\ sent' = sent + 1
           /\ UNCHANGED <<sockfiles, socketFile>>
  <2>1. Len(out) = 1 /\ out[1] \in Pieces
    <3>1. Len(out) \in Nat /\ Len(out) # 0
      BY <1>2, EmptySeq
    <3>2. Len(out) = 1
      BY <3>1
    <3> QED BY <3>2, ElementOfSeq
  <2>2. base + sent \in Cells /\ Pieces \subseteq Tokens
    BY <1>2, <1>t DEF Cells, Tokens
  <2>3. mem' \in [Cells -> Tokens] /\ mem'[base + sent] = out[1]
    BY <1>2, <1>t, <2>1, <2>2
  <2>4. Written = ReadAt(base, sent) /\ ReadAt(base, sent) \in Seq(Pieces)
    BY <1>2 DEF Written
  <2>5. /\ Len(Written) = sent
        /\ \A i \in 1 .. sent : Written[i] = mem[base + i - 1] /\ mem[base + i - 1] \in Pieces
    BY <1>t, <2>4, ReadLength
  <2>6. \A i \in 1 .. sent : mem'[base + i - 1] = mem[base + i - 1]
    <3> SUFFICES ASSUME NEW i \in 1 .. sent PROVE mem'[base + i - 1] = mem[base + i - 1]
      OBVIOUS
    <3>1. base + i - 1 \in Cells /\ base + i - 1 # base + sent
      BY <1>t DEF Cells
    <3> QED BY <1>2, <1>t, <3>1
  <2> DEFINE n == sent + 1
             u == [i \in 1 .. n |-> mem'[base + i - 1]]
             w == Written
  <2>7. \A i \in 1 .. n : mem'[base + i - 1] = IF i <= sent THEN w[i] ELSE out[i - sent]
    <3> SUFFICES ASSUME NEW i \in 1 .. n
                 PROVE  mem'[base + i - 1] = IF i <= sent THEN w[i] ELSE out[i - sent]
      OBVIOUS
    <3>1. CASE i <= sent
      <4>1. i \in 1 .. sent
        BY <1>t, <3>1
      <4> QED BY <2>5, <2>6, <3>1, <4>1
    <3>2. CASE ~(i <= sent)
      <4>1. base + i - 1 = base + sent /\ i - sent = 1
        BY <1>t, <3>2
      <4> QED BY <2>3, <3>2, <4>1
    <3> QED BY <3>1, <3>2
  <2>8. Written' = u
    BY <1>2 DEF Written, ReadAt
  <2>9. w \in Seq(Pieces) /\ Len(w) = sent /\ w \o out \in Seq(Pieces)
    BY <1>w, <2>5
  <2> HIDE DEF w
  <2>10. /\ Len(w \o out) = n
         /\ \A i \in 1 .. n : (w \o out)[i] = IF i <= sent THEN w[i] ELSE out[i - sent]
    <3>1. /\ Len(w \o out) = Len(w) + Len(out)
          /\ \A i \in 1 .. Len(w) + Len(out) :
                (w \o out)[i] = IF i <= Len(w) THEN w[i] ELSE out[i - Len(w)]
      BY <2>9, ConcatProperties
    <3> QED BY <2>1, <2>9, <3>1
  <2>11. \A i \in 1 .. n : u[i] = (w \o out)[i] /\ u[i] \in Pieces
    <3>1. \A i \in 1 .. n : u[i] = (w \o out)[i]
      BY <2>7, <2>10
    <3> HIDE DEF u
    <3>2. \A i \in 1 .. n : (w \o out)[i] \in Pieces
      BY <2>9, <2>10, ElementOfSeq
    <3> QED BY <3>1, <3>2
  <2>12. n \in Nat /\ u \in Seq(Pieces) /\ Len(u) = n
    <3>1. n \in Nat
      BY <1>t
    <3>2. \A i \in 1 .. n : u[i] \in Pieces
      BY <2>11
    <3> HIDE DEF n
    <3>3. u = [i \in 1 .. n |-> u[i]]
      OBVIOUS
    <3> HIDE DEF u
    <3>4. u \in [1 .. n -> Pieces]
      BY <3>2, <3>3
    <3> QED BY <3>1, <3>4
  <2> HIDE DEF u, n
  <2>13. u = w \o out
    BY <2>9, <2>10, <2>11, <2>12, SeqEqual
  <2>14. sent' \in Nat /\ base' + sent' <= CmaSize
    BY <1>2, <1>t
  <2> QED BY <1>2, <1>t, <1>w, <2>3, <2>8, <2>13, <2>14 DEF w
<1>3. CASE /\ out # <<>> /\ ~sockfiles /\ base + sent >= CmaSize
           /\ socketFile' = Buffered \o out
           /\ sockfiles' = TRUE
           /\ UNCHANGED <<mem, sent>>
  <2>1. Written = Buffered /\ Written' = socketFile'
    BY <1>3 DEF Written, Buffered
  <2> QED BY <1>3, <1>t, <1>w, <2>1
<1>4. CASE /\ out # <<>> /\ sockfiles
           /\ socketFile' = socketFile \o out
           /\ UNCHANGED <<mem, sockfiles, sent>>
  <2>1. Written = socketFile /\ Written' = socketFile'
    BY <1>4 DEF Written
  <2> QED BY <1>4, <1>t, <1>w, <2>1
<1> QED BY <1>1, <1>2, <1>3, <1>4 DEF PutBytes

\* Collecting what has been handed over takes all of it, from the address and
\* of the length the backend wrote it, and leaves nothing.
LEMMA CollectsAll ==
    ASSUME TypeOK, HandedOver, CollectReply, UNCHANGED <<send, base>>
    PROVE  /\ Reply = Written /\ replies' = Written
           /\ outFile' = <<>> /\ cma_wsize' = 0
           /\ \/ Reply # <<>> /\ cma_rsize' = 0 /\ pendingWireLen' = 0
              \/ Reply = <<>> /\ UNCHANGED <<cma_rsize, pendingWireLen>>
<1>1. /\ replies = <<>> /\ pendingWireLen = Len(asked) /\ base = 2 + Len(asked)
      /\ Written \in Seq(Pieces) /\ Len(asked) \in Nat
  BY DEF HandedOver, Placed, Current, TypeOK
<1>2. Reply = Written
  <2>1. CASE sockfiles
    BY <2>1 DEF HandedOver, Reply, Written
  <2>2. CASE ~sockfiles
    <3>1. ReplyAddr = base
      BY <1>1 DEF ReplyAddr, bufferAddr
    <3> QED BY <2>2, <3>1 DEF HandedOver, Reply, Written
  <2> QED BY <2>1, <2>2
<1>3. CASE Reply # <<>>
  <2>1. replies' = replies \o Written
    BY <1>2, <1>3 DEF CollectReply
  <2>2. replies' = Written
    BY <1>1, <2>1, ConcatEmptySeq
  <2>3. cma_rsize' = 0 /\ cma_wsize' = 0 /\ pendingWireLen' = 0
    BY <1>3 DEF CollectReply, Taken, InteractiveWrite
  <2>4. outFile' = <<>>
    BY <1>3 DEF CollectReply, HandedOver
  <2> QED BY <1>2, <1>3, <2>2, <2>3, <2>4
<1>4. CASE Reply = <<>>
  <2>1. UNCHANGED collect
    BY <1>4 DEF CollectReply
  <2>2. outFile = <<>> /\ cma_wsize = 0
    <3>1. CASE sockfiles
      BY <1>2, <1>4, <3>1 DEF HandedOver, Written
    <3>2. CASE ~sockfiles
      <4>1. ReadAt(base, sent) \in Seq(Pieces) /\ ReadAt(base, sent) = <<>>
        BY <1>1, <1>2, <1>4, <3>2 DEF Written
      <4>2. sent = 0
        <5>1. Len(ReadAt(base, sent)) = sent
          BY <4>1, ReadLength DEF TypeOK
        <5> QED BY <4>1, <5>1, EmptySeq
      <4> QED BY <3>2, <4>2 DEF HandedOver
    <3> QED BY <3>1, <3>2
  <2> QED BY <1>1, <1>2, <1>4, <2>1, <2>2 DEF collect
<1> QED BY <1>3, <1>4

\* Where nothing has been handed over there is nothing to collect.
LEMMA CollectsNothing ==
    ASSUME NothingLeft, CollectReply
    PROVE  Reply = <<>> /\ UNCHANGED collect
<1>1. Reply = <<>>
  BY ReadsNothing DEF NothingLeft, Reply
<1> QED BY <1>1 DEF CollectReply
-----------------------------------------------------------------------------
(***************************************************************************)
(* One call after the other.                                               *)
(***************************************************************************)
\* The output stays what it is where nothing is put out.
LEMMA WrittenLeft == ASSUME UNCHANGED <<send, base>> PROVE Written' = Written
  BY DEF Written, ReadAt, send

\* A request is a sequence of messages, not empty, that leaves room behind it.
LEMMA Requests ==
    ASSUME NEW c \in Chunks
    PROVE  c \in Seq(Messages) /\ Len(c) \in Nat \ {0} /\ 2 + Len(c) <= CmaSize
<1>1. c \in Seq(Messages) /\ c # <<>> /\ 2 + Len(c) <= CmaSize
  BY ConstantsAssumption
<1> QED BY <1>1, EmptySeq

\* What is left of the messages when the first one is read.
LEMMA ReadsOne ==
    ASSUME TypeOK, Unread, recv # <<>>, recv' = Tail(recv), UNCHANGED asked
    PROVE  /\ recv' \in Seq(Messages) /\ Unread'
           /\ Served \in 0 .. Len(asked) - 1 /\ Served' = Served + 1
           /\ Head(recv) = asked[Served + 1] /\ Head(recv) \in Messages
<1>1. /\ recv \in Seq(Messages) /\ Len(recv) \in Nat \ {0} /\ Len(asked) \in Nat
      /\ asked \in Seq(Messages) /\ Len(recv) <= Len(asked)
      /\ \A i \in 1 .. Len(recv) : recv[i] = asked[Served + i]
  BY EmptySeq DEF TypeOK, Unread
<1>2. /\ recv' \in Seq(Messages) /\ Len(recv') = Len(recv) - 1
      /\ \A i \in 1 .. Len(recv') : recv'[i] = recv[i + 1]
      /\ Head(recv) \in Messages /\ Head(recv) = recv[1]
  BY <1>1, HeadTailProperties
<1>3. Served \in 0 .. Len(asked) - 1 /\ Served' = Served + 1
  BY <1>1, <1>2 DEF Served
<1>4. ASSUME NEW i \in 1 .. Len(recv') PROVE recv'[i] = asked'[Served' + i]
  <2>1. i + 1 \in 1 .. Len(recv) /\ Served + (i + 1) = Served' + i
    BY <1>1, <1>2, <1>3
  <2> QED BY <1>1, <1>2, <2>1
<1>5. Head(recv) = asked[Served + 1]
  BY <1>1, <1>2
<1>6. Len(recv') <= Len(asked')
  BY <1>1, <1>2
<1> QED BY <1>2, <1>3, <1>4, <1>5, <1>6 DEF Unread

\* The invariant holds when the constructor has returned.
LEMMA WireInit == Init => WireInv
<1> SUFFICES ASSUME Init PROVE WireInv OBVIOUS
<1>1. mem \in [Cells -> Tokens]
  BY DEF Init, Tokens
<1>2. /\ replies \in Seq(Pieces) /\ outFile \in Seq(Pieces) /\ socketFile \in Seq(Pieces)
      /\ asked \in Seq(Messages) /\ recv \in Seq(Messages)
  BY EmptySeq DEF Init
<1>3. base \in Nat /\ sent \in Nat /\ base + sent <= CmaSize /\ tick \in 0 .. MaxTicks
  BY ConstantsAssumption DEF Init
<1>4. TypeOK
  BY <1>1, <1>2, <1>3 DEF Init, TypeOK
<1>5. LoopEndsByItself /\ LabelInv
  BY DEF Init, LoopEndsByItself, LabelInv, NothingLeft
<1> QED BY <1>4, <1>5 DEF WireInv

\* The steps of execProtocolRaw keep the invariant.
LEMMA CallerStep ==
    ASSUME WireInv,
           \/ \E c \in Chunks : WireSendCma(c)
           \/ CollectBefore \/ CollectAfter \/ CollectLast
    PROVE  WireInv'
<1>t. TypeOK /\ LoopEndsByItself /\ LabelInv /\ MaxTicks \in Nat \ {0} /\ CmaSize \in Nat
  BY ConstantsAssumption DEF WireInv
<1>1. ASSUME NEW c \in Chunks, WireSendCma(c) PROVE WireInv'
  <2>1. c \in Seq(Messages) /\ Len(c) \in Nat \ {0} /\ 2 + Len(c) <= CmaSize
    BY Requests
  <2>2. /\ jpc' = "before" /\ cma_rsize' = Len(c) /\ cma_wsize' = 0
        /\ pendingWireLen' = Len(c) /\ asked' = c /\ replies' = <<>> /\ tick' = 0
        /\ UNCHANGED <<producedBefore, outFile, sockfiles, sent, socketFile, recv, base,
                       errorFlag>>
    BY <1>1 DEF WireSendCma, InteractiveWrite
  <2>3. mem' \in [Cells -> Tokens] /\ \A i \in 1 .. Len(c) : mem'[i] = c[i]
    <3>1. mem' = [a \in Cells |-> IF a - bufferAddr \in 0 .. Len(c) - 1
                                    THEN c[a - bufferAddr + 1] ELSE mem[a]]
      BY <1>1 DEF WireSendCma
    <3>2. ASSUME NEW a \in Cells, a - bufferAddr \in 0 .. Len(c) - 1
          PROVE  c[a - bufferAddr + 1] \in Tokens
      <4>1. a - bufferAddr + 1 \in 1 .. Len(c)
        BY <2>1, <3>2 DEF Cells, bufferAddr
      <4>2. c[a - bufferAddr + 1] \in Messages
        BY <2>1, <4>1, ElementOfSeq
      <4> QED BY <4>2 DEF Tokens
    <3>3. mem' \in [Cells -> Tokens]
      BY <1>t, <3>1, <3>2 DEF TypeOK
    <3>4. ASSUME NEW i \in 1 .. Len(c) PROVE mem'[i] = c[i]
      <4>1. i \in Cells /\ i - bufferAddr \in 0 .. Len(c) - 1 /\ i - bufferAddr + 1 = i
        BY <1>t, <2>1 DEF Cells, bufferAddr
      <4> QED BY <3>1, <4>1
    <3> QED BY <3>3, <3>4
  <2>4. TypeOK'
    <3>1. tick' \in 0 .. MaxTicks /\ replies' \in Seq(Pieces)
      BY <1>t, <2>2, EmptySeq
    <3> QED BY <1>t, <2>1, <2>2, <2>3, <3>1 DEF TypeOK
  <2>5. NothingLeft' /\ Asking'
    <3>1. NothingLeft
      BY <1>1, <1>t DEF WireSendCma, LabelInv
    <3> QED BY <2>2, <2>3, <3>1 DEF NothingLeft, Asking, Current
  <2> QED BY <2>2, <2>4, <2>5 DEF WireInv, LoopEndsByItself, LabelInv
<1>2. CASE CollectBefore
  <2>1. /\ jpc = "before" /\ jpc' = "one" /\ NothingLeft /\ (Asking \/ Asked)
        /\ producedBefore' = (Reply # <<>>) /\ CollectReply
        /\ UNCHANGED <<tick, asked, send, recv, base, errorFlag>>
    BY <1>2, <1>t DEF CollectBefore, LabelInv
  <2>2. Reply = <<>> /\ UNCHANGED collect
    BY <2>1, CollectsNothing
  <2>3. producedBefore' = FALSE
    BY <2>1, <2>2
  <2>4. TypeOK'
    BY <1>t, <2>1, <2>2, <2>3 DEF TypeOK, collect, send
  <2>5. NothingLeft' /\ (Asking' \/ Asked')
    BY <2>1, <2>2 DEF NothingLeft, Asking, Asked, Current, collect, send
  <2> QED BY <1>t, <2>1, <2>3, <2>4, <2>5 DEF WireInv, LoopEndsByItself, LabelInv
<1>3. CASE CollectAfter
  <2>1. /\ jpc = "after" /\ tick' = tick + 1 /\ CollectReply
        /\ jpc' = IF (producedBefore \/ Reply # <<>>) /\ tick + 1 < MaxTicks
                    THEN "before" ELSE "idle"
        /\ producedBefore = FALSE
        /\ UNCHANGED <<producedBefore, asked, send, recv, base, errorFlag>>
    BY <1>3, <1>t DEF CollectAfter, LabelInv
  <2>2. CASE HandedOver
    <3>1. /\ tick = 0 /\ Written \in Seq(Pieces) /\ recv = <<>> /\ errorFlag = FALSE
      BY <2>2 DEF HandedOver, Placed, Current
    <3>2. /\ replies' = Written /\ outFile' = <<>> /\ cma_wsize' = 0
          /\ \/ Reply # <<>> /\ cma_rsize' = 0 /\ pendingWireLen' = 0
             \/ Reply = <<>> /\ UNCHANGED <<cma_rsize, pendingWireLen>>
      BY <1>t, <2>1, <2>2, CollectsAll
    <3>3. tick' = 1 /\ tick' \in 0 .. MaxTicks
      BY <1>t, <2>1, <3>1
    <3>4. /\ replies' \in Seq(Pieces) /\ outFile' \in Seq(Pieces) /\ cma_wsize' \in Nat
          /\ cma_rsize' \in Nat \cup {-1} /\ pendingWireLen' \in Nat
      BY <1>t, <3>1, <3>2, EmptySeq DEF TypeOK
    <3>5. TypeOK'
      BY <1>t, <2>1, <3>3, <3>4 DEF TypeOK, send
    <3>6. NothingLeft'
      BY <2>1, <3>1, <3>2 DEF NothingLeft
    <3>7. jpc' = "before" => Asked'
      BY <2>1, <3>1, <3>2, <3>3 DEF Asked
    <3>8. jpc' \in {"before", "idle"}
      BY <2>1
    <3> QED
      BY <3>3, <3>5, <3>6, <3>7, <3>8 DEF WireInv, LoopEndsByItself, LabelInv
  <2>3. CASE NothingLeft /\ Asked
    <3>1. Reply = <<>> /\ UNCHANGED collect
      BY <2>1, <2>3, CollectsNothing
    <3>2. jpc' = "idle" /\ tick' = 2
      BY <2>1, <2>3, <3>1 DEF Asked
    <3>3. tick' \in 0 .. MaxTicks
      BY <1>t, <2>3, <3>2 DEF Asked
    <3>4. TypeOK'
      BY <1>t, <2>1, <3>1, <3>2, <3>3 DEF TypeOK, collect, send
    <3>5. NothingLeft'
      BY <2>1, <2>3, <3>1 DEF NothingLeft, collect
    <3> QED BY <3>2, <3>4, <3>5 DEF WireInv, LoopEndsByItself, LabelInv
  <2> QED BY <1>t, <2>1, <2>2, <2>3 DEF LabelInv
<1>4. CASE CollectLast
  <2>1. /\ jpc' = "idle" /\ HandedOver /\ CollectReply
        /\ UNCHANGED <<caller, send, recv, base, errorFlag>>
    BY <1>4, <1>t DEF CollectLast, LabelInv
  <2>2. Written \in Seq(Pieces) /\ recv = <<>> /\ errorFlag = FALSE
    BY <2>1 DEF HandedOver, Placed
  <2>3. /\ replies' = Written /\ outFile' = <<>> /\ cma_wsize' = 0
        /\ \/ Reply # <<>> /\ cma_rsize' = 0 /\ pendingWireLen' = 0
           \/ Reply = <<>> /\ UNCHANGED <<cma_rsize, pendingWireLen>>
    BY <1>t, <2>1, CollectsAll
  <2>4. /\ replies' \in Seq(Pieces) /\ outFile' \in Seq(Pieces) /\ cma_wsize' \in Nat
        /\ cma_rsize' \in Nat \cup {-1} /\ pendingWireLen' \in Nat
    BY <1>t, <2>2, <2>3, EmptySeq DEF TypeOK
  <2>5. TypeOK'
    BY <1>t, <2>1, <2>4 DEF TypeOK, caller, send
  <2>6. NothingLeft'
    BY <2>1, <2>2, <2>3 DEF NothingLeft
  <2> QED BY <1>t, <2>1, <2>5, <2>6 DEF WireInv, LoopEndsByItself, LabelInv, caller
<1> QED BY <1>1, <1>2, <1>3, <1>4

\* The steps of the backend keep the invariant.
LEMMA BackendStep ==
    ASSUME WireInv,
           \/ StartMsgRead \/ NothingToRead \/ Serve \/ ErrFinish \/ OtherTrap
           \/ WireFlush \/ ClearError \/ ResumeOnError
    PROVE  WireInv'
<1>t. TypeOK /\ LoopEndsByItself /\ LabelInv /\ MaxTicks \in Nat \ {0} /\ CmaSize \in Nat
  BY ConstantsAssumption DEF WireInv
<1>1. CASE StartMsgRead
  <2>1. /\ jpc = "one" /\ jpc' = "serving" /\ cma_rsize > 0
        /\ recv' = ReadAt(bufferAddr, cma_rsize)
        /\ base' = 2 + cma_rsize /\ sent' = 0
        /\ sockfiles' = FALSE /\ socketFile' = <<>>
        /\ UNCHANGED <<caller, collect, mem, errorFlag>>
        /\ NothingLeft /\ producedBefore = FALSE
    BY <1>1, <1>t DEF StartMsgRead, LabelInv
  <2>2. Asking
    BY <1>1, <1>t, <2>1 DEF LabelInv, Asked
  <2>3. /\ asked \in Seq(Messages) /\ Len(asked) \in Nat \ {0} /\ 2 + Len(asked) <= CmaSize
        /\ cma_rsize = Len(asked)
    BY <2>2, Requests DEF Asking, Current
  <2>4. recv' = asked
    <3>1. \A i \in 1 .. Len(asked) : mem[bufferAddr + i - 1] = asked[i]
      BY <2>2, <2>3 DEF Asking, bufferAddr
    <3>2. \A i \in 1 .. Len(asked) : asked[i] \in Messages
      BY <2>3, ElementOfSeq
    <3> DEFINE r == ReadAt(bufferAddr, Len(asked))
    <3>3. \A i \in 1 .. Len(asked) : mem[bufferAddr + i - 1] \in Messages
      BY <3>1, <3>2
    <3>4. /\ r \in Seq(Messages) /\ Len(r) = Len(asked)
          /\ \A i \in 1 .. Len(asked) : r[i] = mem[bufferAddr + i - 1]
      <4>1. bufferAddr \in Nat /\ Len(asked) \in Nat
        BY <2>3 DEF bufferAddr
      <4> QED BY <3>3, <4>1, ReadsCells
    <3> HIDE DEF r
    <3>5. \A i \in 1 .. Len(r) : r[i] = asked[i]
      BY <3>1, <3>4
    <3>6. r = asked
      BY <2>3, <3>4, <3>5, SeqEqual
    <3> QED BY <2>1, <2>3, <3>6 DEF r
  <2>5. Unread' /\ recv' \in Seq(Messages)
    <3>1. UNCHANGED asked
      BY <2>1 DEF caller
    <3>2. Served' = 0
      BY <2>3, <2>4, <3>1 DEF Served
    <3> QED BY <2>3, <2>4, <3>1, <3>2 DEF Unread
  <2>6. Written' = <<>>
    BY <2>1 DEF Written, ReadAt
  <2>7. AtWork'
    BY <2>1, <2>2, <2>3, <2>6, EmptySeq
       DEF AtWork, Placed, Current, Asking, NothingLeft, caller, collect
  <2>8. TypeOK'
    <3>1. /\ socketFile' \in Seq(Pieces) /\ base' \in Nat /\ sent' \in Nat
          /\ base' + sent' <= CmaSize /\ sockfiles' \in BOOLEAN
      <4>1. <<>> \in Seq(Pieces)
        BY EmptySeq
      <4>2. base' \in Nat /\ sent' \in Nat /\ base' + sent' <= CmaSize
        BY <1>t, <2>1, <2>3
      <4> QED BY <2>1, <4>1, <4>2
    <3> QED BY <1>t, <2>1, <2>5, <3>1 DEF TypeOK, caller, collect
  <2> QED
    BY <1>t, <2>1, <2>5, <2>7, <2>8
       DEF WireInv, LoopEndsByItself, LabelInv, NothingLeft, caller
<1>2. CASE NothingToRead
  <2>1. /\ jpc = "one" /\ jpc' = "after" /\ cma_rsize = 0
        /\ UNCHANGED <<caller, collect, send, recv, base, errorFlag>>
        /\ NothingLeft /\ (Asking \/ Asked) /\ producedBefore = FALSE
    BY <1>2, <1>t DEF NothingToRead, LabelInv
  <2>2. Asked
    BY <2>1, Requests DEF Asking, Current
  <2>3. NothingLeft' /\ Asked'
    BY <2>1, <2>2 DEF NothingLeft, Asked, caller, collect
  <2>4. TypeOK'
    BY <1>t, <2>1 DEF TypeOK, caller, collect, send
  <2> QED
    BY <1>t, <2>1, <2>3, <2>4 DEF WireInv, LoopEndsByItself, LabelInv, caller
<1>3. CASE Serve
  <2>1. /\ jpc = "serving" /\ recv # <<>> /\ PutBytes(Output(Head(recv)))
        /\ recv' = Tail(recv) /\ UNCHANGED <<jpc, caller, collect, base, errorFlag>>
        /\ AtWork /\ Unread /\ errorFlag = FALSE /\ producedBefore = FALSE
    BY <1>3, <1>t DEF Serve, LabelInv
  <2>2. recv' \in Seq(Messages) /\ Unread' /\ Head(recv) \in Messages
    BY <1>t, <2>1, ReadsOne DEF caller
  <2>3. Output(Head(recv)) \in Seq(Pieces) /\ Len(Output(Head(recv))) <= 1
    <3>1. Begun \in Entry
      BY EmptySeq DEF Begun, Entry
    <3> QED BY <2>2, <3>1, AnsweredType
  <2>4. /\ Written' \in Seq(Pieces) /\ mem' \in [Cells -> Tokens]
        /\ socketFile' \in Seq(Pieces) /\ sockfiles' \in BOOLEAN
        /\ sent' \in Nat /\ base' + sent' <= CmaSize
    BY <1>t, <2>1, <2>3, PutBytesWrites DEF AtWork, Placed
  <2>5. TypeOK'
    BY <1>t, <2>1, <2>2, <2>4 DEF TypeOK, caller, collect
  <2>6. AtWork'
    BY <2>1, <2>4 DEF AtWork, Placed, Current, caller, collect
  <2> QED
    BY <1>t, <2>1, <2>2, <2>5, <2>6 DEF WireInv, LoopEndsByItself, LabelInv, caller
<1>4. CASE ErrFinish
  <2>1. /\ jpc = "serving" /\ jpc' = "trapped" /\ recv # <<>> /\ recv' = Tail(recv)
        /\ errorFlag' = TRUE /\ UNCHANGED <<caller, collect, send, base>>
        /\ AtWork /\ Unread
    BY <1>4, <1>t DEF ErrFinish, LabelInv
  <2>2. recv' \in Seq(Messages) /\ Unread'
    BY <1>t, <2>1, ReadsOne DEF caller
  <2>3. TypeOK'
    BY <1>t, <2>1, <2>2 DEF TypeOK, caller, collect, send
  <2>4. AtWork'
    BY <2>1, WrittenLeft DEF AtWork, Placed, Current, caller, collect
  <2> QED
    BY <1>t, <2>1, <2>2, <2>3, <2>4 DEF WireInv, LoopEndsByItself, LabelInv, caller
<1>5. CASE OtherTrap
  <2>1. jpc' = "dead" /\ UNCHANGED <<caller, collect, send, recv, base, errorFlag>>
    BY <1>5 DEF OtherTrap
  <2>2. TypeOK'
    BY <1>t, <2>1 DEF TypeOK, caller, collect, send
  <2> QED BY <1>t, <2>1, <2>2 DEF WireInv, LoopEndsByItself, LabelInv, caller
<1>6. CASE WireFlush
  <2>1. /\ jpc = "serving" /\ jpc' = "after" /\ recv = <<>>
        /\ UNCHANGED <<caller, replies, pendingWireLen, cma_rsize, recv, base, errorFlag>>
        /\ UNCHANGED send /\ Flush
        /\ AtWork /\ errorFlag = FALSE /\ producedBefore = FALSE
    BY <1>6, <1>t DEF WireFlush, LabelInv
  <2>2. IF sockfiles' THEN outFile' = socketFile' /\ cma_wsize' = 0
                      ELSE outFile' = <<>> /\ cma_wsize' = sent'
    BY <2>1 DEF Flush, AtWork
  <2>3. HandedOver'
    BY <2>1, <2>2, WrittenLeft DEF HandedOver, AtWork, Placed, Current, caller
  <2>4. TypeOK'
    <3>1. UNCHANGED <<mem, sockfiles, sent, socketFile>>
      BY <2>1 DEF send
    <3>2. outFile' \in Seq(Pieces) /\ cma_wsize' \in Nat
      <4>1. /\ <<>> \in Seq(Pieces) /\ socketFile' \in Seq(Pieces) /\ sent' \in Nat
        BY <1>t, <3>1, EmptySeq DEF TypeOK
      <4>2. CASE sockfiles'
        BY <2>2, <4>1, <4>2
      <4>3. CASE ~sockfiles'
        BY <2>2, <4>1, <4>3
      <4> QED BY <4>2, <4>3
    <3> QED BY <1>t, <2>1, <3>1, <3>2 DEF TypeOK, caller
  <2> QED
    BY <1>t, <2>1, <2>3, <2>4 DEF WireInv, LoopEndsByItself, LabelInv, caller
<1>7. CASE ClearError
  <2>1. /\ jpc = "trapped" /\ jpc' = "resume" /\ errorFlag' = FALSE
        /\ PutBytes(<<"error">>) /\ cma_rsize' = -1 /\ cma_wsize' = 0
        /\ UNCHANGED <<caller, replies, pendingWireLen, outFile, recv, base>>
        /\ AtWork /\ Unread
    BY <1>7, <1>t DEF ClearError, InteractiveWrite, LabelInv
  <2>2. /\ Written' \in Seq(Pieces) /\ mem' \in [Cells -> Tokens]
        /\ socketFile' \in Seq(Pieces) /\ sockfiles' \in BOOLEAN
        /\ sent' \in Nat /\ base' + sent' <= CmaSize
    <3>1. <<"error">> \in Seq(Pieces) /\ Len(<<"error">>) <= 1
      BY DEF Pieces
    <3> QED BY <1>t, <2>1, <3>1, PutBytesWrites DEF AtWork, Placed
  <2>3. TypeOK'
    BY <1>t, <2>1, <2>2 DEF TypeOK, caller
  <2>4. AtWork' /\ Unread'
    BY <2>1, <2>2 DEF AtWork, Placed, Current, Unread, Served, caller
  <2> QED
    BY <1>t, <2>1, <2>3, <2>4 DEF WireInv, LoopEndsByItself, LabelInv, caller
<1>8. CASE ResumeOnError
  <2>1. /\ jpc = "resume" /\ jpc' = "last" /\ recv' = <<>>
        /\ PutBytes(<<"ready">>) /\ Flush
        /\ UNCHANGED <<caller, replies, pendingWireLen, cma_rsize, base, errorFlag>>
        /\ AtWork /\ errorFlag = FALSE
    BY <1>8, <1>t DEF ResumeOnError, Drained, LabelInv
  <2>2. /\ Written' \in Seq(Pieces) /\ mem' \in [Cells -> Tokens]
        /\ socketFile' \in Seq(Pieces) /\ sockfiles' \in BOOLEAN
        /\ sent' \in Nat /\ base' + sent' <= CmaSize
    <3>1. <<"ready">> \in Seq(Pieces) /\ Len(<<"ready">>) <= 1
      BY DEF Pieces
    <3> QED BY <1>t, <2>1, <3>1, PutBytesWrites DEF AtWork, Placed
  <2>3. IF sockfiles' THEN outFile' = socketFile' /\ cma_wsize' = 0
                      ELSE outFile' = <<>> /\ cma_wsize' = sent'
    BY <2>1 DEF Flush, AtWork
  <2>4. outFile' \in Seq(Pieces) /\ cma_wsize' \in Nat /\ recv' \in Seq(Messages)
    <3>1. <<>> \in Seq(Pieces) /\ <<>> \in Seq(Messages)
      BY EmptySeq
    <3>2. CASE sockfiles'
      BY <2>1, <2>2, <2>3, <3>1, <3>2
    <3>3. CASE ~sockfiles'
      BY <2>1, <2>2, <2>3, <3>1, <3>3
    <3> QED BY <3>2, <3>3
  <2>5. TypeOK'
    BY <1>t, <2>1, <2>2, <2>4 DEF TypeOK, caller
  <2>6. HandedOver'
    BY <2>1, <2>2, <2>3 DEF HandedOver, AtWork, Placed, Current, caller
  <2> QED
    BY <1>t, <2>1, <2>5, <2>6 DEF WireInv, LoopEndsByItself, LabelInv, caller
<1> QED BY <1>1, <1>2, <1>3, <1>4, <1>5, <1>6, <1>7, <1>8

\* Every step keeps the invariant.
LEMMA WireStep == WireInv /\ [Next]_vars => WireInv'
<1> SUFFICES ASSUME WireInv, [Next]_vars PROVE WireInv' OBVIOUS
<1>1. CASE UNCHANGED vars
  <2>1. UNCHANGED <<jpc, tick, producedBefore, asked, replies, pendingWireLen, cma_rsize,
                    cma_wsize, outFile, mem, sockfiles, sent, socketFile, recv, base,
                    errorFlag>>
    BY <1>1 DEF vars, caller, collect, send
  <2>2. Written' = Written
    BY <2>1, WrittenLeft DEF send
  <2>3. TypeOK' /\ LoopEndsByItself'
    BY <2>1 DEF WireInv, TypeOK, LoopEndsByItself
  <2>4. LabelInv'
    BY <2>1, <2>2
       DEF WireInv, LabelInv, NothingLeft, Asking, Asked, Current, Placed, AtWork,
           HandedOver, Unread, Served
  <2> QED BY <2>3, <2>4 DEF WireInv
<1> QED BY <1>1, CallerStep, BackendStep DEF Next, Dead

\* Hence it holds in every reachable state.
LEMMA WireInvariance == Spec => []WireInv
  BY WireInit, WireStep, PTL DEF Spec

\* Every variable keeps its type: the output never runs over the end of the
\* CMA, and what is collected there is output, never a message or a cell that
\* was not written.
THEOREM WireTypeCorrect == Spec => []TypeOK
<1>1. WireInv => TypeOK
  BY DEF WireInv
<1> QED BY <1>1, WireInvariance, PTL

\* Whatever a request holds, and whether it failed or not, nothing of it is
\* left for the next call: no reply in the CMA or the file, no message, no flag.
THEOREM WireCleanBetweenCalls == Spec => []CleanBetweenCalls
<1>1. WireInv => CleanBetweenCalls
  BY DEF WireInv, LabelInv, NothingLeft, CleanBetweenCalls
<1> QED BY <1>1, WireInvariance, PTL

\* The loop of execProtocolRaw ends by itself after two ticks at most.
THEOREM WireLoopEnds == Spec => []LoopEndsByItself
<1>1. WireInv => LoopEndsByItself
  BY DEF WireInv
<1> QED BY <1>1, WireInvariance, PTL
-----------------------------------------------------------------------------
(***************************************************************************)
(* What a call returns, when a request is one batch.                       *)
(***************************************************************************)
\* How an entry of a transcript follows from the one before.
LEMMA Answers ==
    ASSUME NEW p \in Entry
    PROVE  /\ Answered(p, "sync").out = p.out \o <<"ready">>
           /\ Answered(p, "sync").skip = FALSE
           /\ ~p.skip => /\ Answered(p, "err").out = p.out \o <<"error">>
                         /\ Answered(p, "err").skip = TRUE
           /\ \A m \in {"ok", "mute"} :
                 ~p.skip => /\ Answered(p, m).out = p.out \o Output(m)
                            /\ Answered(p, m).skip = FALSE
<1>1. p.out \in Seq(Pieces) /\ "ready" \in Pieces /\ "error" \in Pieces
  BY DEF Entry, Pieces
<1>2. /\ Append(p.out, "ready") = p.out \o <<"ready">>
      /\ Append(p.out, "error") = p.out \o <<"error">>
  BY <1>1, AppendIsConcat
<1>3. Answered(p, "sync") = [skip |-> FALSE, out |-> Append(p.out, "ready")]
  BY DEF Answered
<1>4. ~p.skip => Answered(p, "err") = [skip |-> TRUE, out |-> Append(p.out, "error")]
  BY DEF Answered
<1>5. \A m \in {"ok", "mute"} :
         ~p.skip => Answered(p, m) = [skip |-> FALSE, out |-> p.out \o Output(m)]
  BY DEF Answered
<1>6. Answered(p, "sync").out = p.out \o <<"ready">> /\ Answered(p, "sync").skip = FALSE
  BY <1>2, <1>3
<1>7. ~p.skip => /\ Answered(p, "err").out = p.out \o <<"error">>
                 /\ Answered(p, "err").skip = TRUE
  BY <1>2, <1>4
<1>8. \A m \in {"ok", "mute"} :
         ~p.skip => /\ Answered(p, m).out = p.out \o Output(m)
                    /\ Answered(p, m).skip = FALSE
  <2> SUFFICES ASSUME NEW m \in {"ok", "mute"}, ~p.skip
               PROVE  Answered(p, m).out = p.out \o Output(m) /\ Answered(p, m).skip = FALSE
    OBVIOUS
  <2>1. Answered(p, m) = [skip |-> FALSE, out |-> p.out \o Output(m)]
    BY <1>5
  <2> QED BY <2>1
<1> QED BY <1>6, <1>7, <1>8

\* A message that raises no error, in a session that skips nothing, adds its
\* output and skips nothing.
LEMMA AnswersPlain ==
    ASSUME NEW p \in Entry, ~p.skip, NEW m \in Messages, m # "err"
    PROVE  Answered(p, m).out = p.out \o Output(m) /\ Answered(p, m).skip = FALSE
<1>1. CASE m = "sync"
  <2>1. Output("sync") = <<"ready">>
    BY DEF Output
  <2> QED BY <1>1, <2>1, Answers
<1>2. CASE m \in {"ok", "mute"}
  BY <1>2, Answers
<1> QED BY <1>1, <1>2 DEF Messages

\* Nothing has been asked before the first request, and nothing answered.
LEMMA OutInit == Init => OutInv
<1> SUFFICES ASSUME Init PROVE OutInv OBVIOUS
<1>1. asked \in Seq(Messages) /\ Len(asked) = 0 /\ replies = <<>> /\ jpc = "idle"
  BY EmptySeq DEF Init
<1>2. Protocol(asked) = <<>>
  <2>1. Transcript(asked)[0] = Begun
    BY <1>1, TranscriptIs
  <2>2. Begun.out = <<>>
    BY DEF Begun
  <2> QED BY <1>1, <2>1, <2>2 DEF Protocol
<1> QED BY <1>1, <1>2 DEF OutInv

\* Every step keeps the output where the protocol has it.
LEMMA OutStep ==
    ASSUME OneBatchEach, WireInv, OutInv, [Next]_vars
    PROVE  OutInv'
<1> DEFINE t == Transcript(asked)
<1>t. TypeOK /\ LabelInv /\ asked \in Seq(Messages) /\ Len(asked) \in Nat
  BY DEF WireInv, TypeOK
<1>a. \A i \in 0 .. Len(asked) : t[i] \in Entry
  BY <1>t, TranscriptType
<1>b. t[0] = Begun /\ \A i \in 1 .. Len(asked) : t[i] = Answered(t[i - 1], asked[i])
  BY <1>t, TranscriptIs
<1>c. Protocol(asked) = t[Len(asked)].out
  BY DEF Protocol
<1>o. /\ jpc = "serving" => ~t[Served].skip /\ Written = t[Served].out
      /\ jpc = "trapped" => /\ Served > 0 /\ asked[Served] = "err"
                            /\ ~t[Served - 1].skip /\ Written = t[Served - 1].out
      /\ jpc = "resume" => t[Served].skip /\ Written = t[Served].out
      /\ jpc = "last" => Written = Protocol(asked)
      /\ jpc = "after" /\ tick = 0 => Written = Protocol(asked)
      /\ jpc = "idle" \/ tick = 1 => replies = Protocol(asked)
  BY DEF OutInv
<1>p. ASSUME UNCHANGED asked PROVE Transcript(asked)' = t /\ Protocol(asked)' = Protocol(asked)
  BY <1>p
<1>1. ASSUME NEW c \in Chunks, WireSendCma(c) PROVE OutInv'
  BY <1>1 DEF WireSendCma, OutInv
<1>2. CASE CollectBefore
  <2>1. /\ jpc' = "one" /\ UNCHANGED <<tick, asked>> /\ NothingLeft /\ CollectReply
    BY <1>2, <1>t DEF CollectBefore, LabelInv
  <2>2. UNCHANGED replies
    BY <2>1, CollectsNothing DEF collect
  <2> QED BY <1>o, <1>p, <2>1, <2>2 DEF OutInv
<1>3. CASE CollectAfter
  <2>1. /\ jpc = "after" /\ jpc' \in {"before", "idle"} /\ CollectReply
        /\ UNCHANGED <<asked, send, base>>
    BY <1>3 DEF CollectAfter
  <2>2. replies' = Protocol(asked)
    <3>1. CASE HandedOver
      <4>1. replies' = Written /\ tick = 0
        BY <1>t, <2>1, <3>1, CollectsAll DEF HandedOver, Placed, Current
      <4> QED BY <1>o, <2>1, <4>1
    <3>2. CASE NothingLeft /\ Asked
      <4>1. UNCHANGED replies /\ tick = 1
        BY <2>1, <3>2, CollectsNothing DEF collect, Asked
      <4> QED BY <1>o, <4>1
    <3> QED BY <1>t, <2>1, <3>1, <3>2 DEF LabelInv
  <2> QED BY <1>p, <2>1, <2>2 DEF OutInv
<1>4. CASE CollectLast
  <2>1. /\ jpc = "last" /\ jpc' = "idle" /\ HandedOver /\ CollectReply
        /\ UNCHANGED <<asked, send, base>>
    BY <1>4, <1>t DEF CollectLast, LabelInv, caller
  <2>2. replies' = Protocol(asked)
    BY <1>o, <1>t, <2>1, CollectsAll
  <2> QED BY <1>p, <2>1, <2>2 DEF OutInv
<1>5. CASE StartMsgRead
  <2>1. WireInv' /\ jpc' = "serving" /\ jpc = "one" /\ UNCHANGED asked
    BY <1>5, BackendStep DEF StartMsgRead, caller
  <2>2. recv' = ReadAt(bufferAddr, cma_rsize) /\ cma_rsize > 0 /\ cma_rsize = Len(asked)
    BY <1>5, <1>t, <2>1 DEF StartMsgRead, LabelInv, Asking, Asked
  <2>3. Len(recv') = Len(asked)
    <3>1. ReadAt(bufferAddr, Len(asked)) \in Seq(Messages)
      BY <2>1, <2>2 DEF WireInv, TypeOK
    <3>2. bufferAddr \in Nat
      BY DEF bufferAddr
    <3>3. Len(ReadAt(bufferAddr, Len(asked))) = Len(asked)
      BY <1>t, <3>1, <3>2, ReadLength
    <3> QED BY <2>2, <3>3
  <2>4. Served' = 0
    BY <1>t, <2>1, <2>3 DEF Served
  <2>5. Written' = <<>>
    BY <1>5 DEF StartMsgRead, Written, ReadAt
  <2>6. ~t[0].skip /\ t[0].out = <<>>
    BY <1>b DEF Begun
  <2>7. tick' = 0
    BY <2>1 DEF WireInv, LabelInv, AtWork, Placed, Current
  <2> HIDE DEF t
  <2> QED BY <1>p, <2>1, <2>4, <2>5, <2>6, <2>7 DEF OutInv
<1>6. CASE NothingToRead
  <2>1. /\ jpc = "one" /\ jpc' = "after" /\ cma_rsize = 0 /\ (Asking \/ Asked)
        /\ UNCHANGED <<tick, asked, replies>>
    BY <1>6, <1>t DEF NothingToRead, LabelInv, caller, collect
  <2>2. tick = 1
    BY <2>1, Requests DEF Asking, Asked, Current
  <2> QED BY <1>o, <1>p, <2>1, <2>2 DEF OutInv
<1>7. CASE Serve
  <2>1. /\ jpc = "serving" /\ recv # <<>> /\ PutBytes(Output(Head(recv)))
        /\ ~Raises(Head(recv)) /\ recv' = Tail(recv) /\ UNCHANGED <<jpc, base, tick, asked>>
        /\ AtWork /\ Unread
    BY <1>7, <1>t DEF Serve, LabelInv, caller
  <2>2. /\ Served \in 0 .. Len(asked) - 1 /\ Served' = Served + 1
        /\ Head(recv) = asked[Served + 1] /\ Head(recv) \in Messages
    BY <1>t, <2>1, ReadsOne
  <2>3. Served \in 0 .. Len(asked) /\ Served + 1 \in 1 .. Len(asked) /\ Served + 1 - 1 = Served
    BY <1>t, <2>2
  <2>4. t[Served] \in Entry /\ ~t[Served].skip /\ Written = t[Served].out
    BY <1>a, <1>o, <2>1, <2>3
  <2>5. Head(recv) # "err"
    BY <2>1 DEF Raises, Sigsetjmp
  <2>6. Output(Head(recv)) \in Seq(Pieces) /\ Len(Output(Head(recv))) <= 1
    BY <2>2, <2>4, AnsweredType
  <2>7. Written' = Written \o Output(Head(recv))
    BY <1>t, <2>1, <2>6, PutBytesWrites DEF AtWork, Placed
  <2>8. t[Served + 1] = Answered(t[Served], Head(recv))
    BY <1>b, <2>2, <2>3
  <2>9. ~t[Served + 1].skip /\ Written' = t[Served + 1].out
    BY <2>2, <2>4, <2>5, <2>7, <2>8, AnswersPlain
  <2>10. tick' = 0
    BY <2>1 DEF AtWork, Placed, Current
  <2> HIDE DEF t
  <2> QED BY <1>p, <2>1, <2>2, <2>9, <2>10 DEF OutInv
<1>8. CASE ErrFinish
  <2>1. /\ jpc = "serving" /\ jpc' = "trapped" /\ recv # <<>> /\ Raises(Head(recv))
        /\ recv' = Tail(recv) /\ UNCHANGED <<send, base, tick, asked>> /\ AtWork /\ Unread
    BY <1>8, <1>t DEF ErrFinish, LabelInv, caller
  <2>2. /\ Served \in 0 .. Len(asked) - 1 /\ Served' = Served + 1
        /\ Head(recv) = asked[Served + 1]
    BY <1>t, <2>1, ReadsOne
  <2>3. Served' > 0 /\ Served' - 1 = Served
    BY <2>2
  <2>4. asked[Served + 1] = "err" /\ Written' = Written /\ tick' = 0
    BY <2>1, <2>2, WrittenLeft DEF Raises, AtWork, Placed, Current
  <2> HIDE DEF t
  <2> QED BY <1>o, <1>p, <2>1, <2>2, <2>3, <2>4 DEF OutInv
<1>9. CASE OtherTrap
  <2>1. jpc' = "dead" /\ tick' = 0
    BY <1>9, <1>t DEF OtherTrap, LabelInv, AtWork, Placed, Current, caller
  <2> QED BY <2>1 DEF OutInv
<1>10. CASE WireFlush
  <2>1. /\ jpc = "serving" /\ jpc' = "after" /\ recv = <<>>
        /\ UNCHANGED <<send, base, tick, asked>> /\ AtWork
    BY <1>10, <1>t DEF WireFlush, LabelInv, caller
  <2>2. Served = Len(asked)
    BY <1>t, <2>1, EmptySeq DEF Served
  <2>3. Written' = Protocol(asked) /\ tick' = 0
    BY <1>c, <1>o, <2>1, <2>2, WrittenLeft DEF AtWork, Placed, Current
  <2> QED BY <1>p, <2>1, <2>3 DEF OutInv
<1>11. CASE ClearError
  <2>1. /\ jpc = "trapped" /\ jpc' = "resume" /\ PutBytes(<<"error">>)
        /\ UNCHANGED <<recv, base, tick, asked>> /\ AtWork /\ Unread
    BY <1>11, <1>t DEF ClearError, LabelInv, caller
  <2>2. Served \in 1 .. Len(asked) /\ Served - 1 \in 0 .. Len(asked) /\ Served' = Served
    <3>1. Served > 0 /\ Len(recv) \in Nat
      BY <1>o, <1>t, <2>1 DEF TypeOK
    <3> QED BY <1>t, <2>1, <3>1 DEF Served, Unread
  <2>3. /\ t[Served - 1] \in Entry /\ ~t[Served - 1].skip /\ Written = t[Served - 1].out
        /\ t[Served] = Answered(t[Served - 1], "err")
    BY <1>a, <1>b, <1>o, <2>1, <2>2
  <2>4. Written' = Written \o <<"error">>
    <3>1. <<"error">> \in Seq(Pieces) /\ Len(<<"error">>) <= 1
      BY DEF Pieces
    <3> QED BY <1>t, <2>1, <3>1, PutBytesWrites DEF AtWork, Placed
  <2>5. t[Served].skip /\ Written' = t[Served].out
    BY <2>3, <2>4, Answers
  <2>6. tick' = 0
    BY <2>1 DEF AtWork, Placed, Current
  <2> HIDE DEF t
  <2> QED BY <1>p, <2>1, <2>2, <2>5, <2>6 DEF OutInv
<1>12. CASE ResumeOnError
  <2>1. /\ jpc = "resume" /\ jpc' = "last" /\ PutBytes(<<"ready">>)
        /\ UNCHANGED <<base, tick, asked>> /\ AtWork /\ Unread
    BY <1>12, <1>t DEF ResumeOnError, LabelInv, caller
  <2>2. Served \in 0 .. Len(asked)
    <3>1. Len(recv) \in Nat
      BY <1>t DEF TypeOK
    <3> QED BY <1>t, <2>1, <3>1 DEF Served, Unread
  <2>3. asked \in Chunks /\ tick' = 0
    BY <2>1 DEF AtWork, Placed, Current
  <2>4. Protocol(asked) = t[Served].out \o <<"ready">>
    BY <1>o, <1>t, <2>1, <2>2, <2>3, SkipsToSync DEF OneBatchEach
  <2>5. Written' = Written \o <<"ready">>
    <3>1. <<"ready">> \in Seq(Pieces) /\ Len(<<"ready">>) <= 1
      BY DEF Pieces
    <3> QED BY <1>t, <2>1, <3>1, PutBytesWrites DEF AtWork, Placed
  <2>6. Written' = Protocol(asked)
    BY <1>o, <2>1, <2>4, <2>5
  <2> QED BY <1>p, <2>1, <2>3, <2>6 DEF OutInv
<1>13. CASE UNCHANGED vars
  <2>1. UNCHANGED <<jpc, tick, asked, replies, recv>> /\ Written' = Written
    BY <1>13, WrittenLeft DEF vars, caller, collect
  <2>2. Served' = Served
    BY <2>1 DEF Served
  <2> HIDE DEF t
  <2> QED BY <1>o, <1>p, <2>1, <2>2 DEF OutInv
<1> QED
  BY <1>1, <1>2, <1>3, <1>4, <1>5, <1>6, <1>7, <1>8, <1>9, <1>10, <1>11, <1>12, <1>13
     DEF Next, Dead

\* If every request is one batch, execProtocolRaw returns exactly what the
\* protocol prescribes for it, however long the request and its answer are,
\* wherever the CMA overflows into the file and wherever an error is raised.
THEOREM WireRepliesFollowProtocol ==
    ASSUME OneBatchEach
    PROVE  Spec => []RepliesFollowProtocol
<1>1. OutInv => RepliesFollowProtocol
  BY DEF OutInv, RepliesFollowProtocol
<1>2. WireInv /\ OutInv /\ [Next]_vars => OutInv'
  BY OutStep
<1> QED BY <1>1, <1>2, OutInit, WireInvariance, PTL DEF Spec
=============================================================================
