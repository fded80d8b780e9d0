------------------------ MODULE TextFunctionsProofs -------------------------
(***************************************************************************)
(* Proofs about the pure functions, for inputs of any length.              *)
(*                                                                         *)
(* What a loop of the code computes is a recursive function in the model,  *)
(* and a recursive function is a CHOOSE: the first thing to prove of each  *)
(* is that the function it chooses exists.  FoldExists does that for every *)
(* loop over a sequence, by an induction that WFMin (a well-founded        *)
(* relation has minimal elements) and the order on Nat make first-order.   *)
(***************************************************************************)
EXTENDS TextFunctions, FiniteSetTheorems, SequenceTheorems, WellFoundedInduction, TLAPS

----------------------------------------------------------------------------
(* Induction.                                                              *)

NatLess == OpToRel(<, Nat)

(* A nonempty set of naturals has a least element.                         *)
LEMMA LeastElement ==
    ASSUME NEW T \in SUBSET Nat, T # {}
    PROVE  \E x \in T : \A y \in T : x <= y
  <1>1. IsWellFoundedOn(NatLess, Nat)
    BY NatLessThanWellFounded DEF NatLess
  <1>2. PICK x \in T : \A y \in T : ~ (<<y, x>> \in NatLess)
    BY <1>1, WFMin
  <1>3. ASSUME NEW y \in T PROVE x <= y
    <2>1. x \in Nat /\ y \in Nat /\ <<y, x>> \notin NatLess
      BY <1>2
    <2>2. NatLess = {p \in Nat \X Nat : p[1] < p[2]}
      BY DEF NatLess, OpToRel
    <2>3. <<y, x>> \in Nat \X Nat /\ <<y, x>>[1] = y /\ <<y, x>>[2] = x
      BY <2>1
    <2>4. ~(y < x)
      BY <2>1, <2>2, <2>3
    <2>5. QED
      BY <2>1, <2>4
  <1>4. QED
    BY <1>3

(* Induction up to N.                                                      *)
LEMMA UpTo ==
    ASSUME NEW N \in Nat, NEW T, 0 \in T, \A i \in 1 .. N : i - 1 \in T => i \in T
    PROVE  \A i \in 0 .. N : i \in T
  <1> DEFINE Bad == (0 .. N) \ T
  <1> SUFFICES ASSUME Bad # {} PROVE FALSE
    OBVIOUS
  <1>1. PICK x \in Bad : \A y \in Bad : x <= y
    <2>1. Bad \in SUBSET Nat
      OBVIOUS
    <2> HIDE DEF Bad
    <2>2. QED
      BY <2>1, LeastElement
  <1>2. x \in 1 .. N
    BY <1>1
  <1>3. x - 1 \in 0 .. N /\ ~(x <= x - 1)
    BY <1>2
  <1>4. x - 1 \in T
    BY <1>1, <1>3
  <1>5. QED
    BY <1>1, <1>2, <1>4

(* The k-th step of a loop of N steps is D[k], a function on the states S. *)
Steps(S, N) == [1 .. N -> [S -> S]]
IsFold(g, base, D, N) ==
    g = [k \in 0 .. N |-> IF k = 0 THEN base ELSE D[k][g[k - 1]]]

(* A loop runs: there is a function that gives its state after each step.  *)
LEMMA FoldExists ==
    ASSUME NEW S, NEW base \in S, NEW N \in Nat, NEW D, D \in Steps(S, N)
    PROVE  \E g : IsFold(g, base, D, N) /\ \A k \in 0 .. N : g[k] \in S
  <1> DEFINE P(n) == \E g \in [0 .. n -> S] :
                        g[0] = base /\ \A i \in 1 .. n : g[i] = D[i][g[i - 1]]
             T == {n \in 0 .. N : P(n)}
  <1>1. 0 \in T
    <2> DEFINE h == [i \in 0 .. 0 |-> base]
    <2>1. h \in [0 .. 0 -> S] /\ h[0] = base /\ 1 .. 0 = {}
      OBVIOUS
    <2>2. P(0)
      <3> HIDE DEF h
      <3>1. QED
        BY <2>1
    <2>3. QED
      BY <2>2
  <1>2. ASSUME NEW n \in 1 .. N, n - 1 \in T PROVE n \in T
    <2>1. PICK g \in [0 .. n - 1 -> S] :
             g[0] = base /\ \A i \in 1 .. n - 1 : g[i] = D[i][g[i - 1]]
      BY <1>2
    <2> DEFINE h == [i \in 0 .. n |-> IF i = n THEN D[n][g[n - 1]] ELSE g[i]]
    <2>2. D[n][g[n - 1]] \in S
      <3>1. g[n - 1] \in S /\ D[n] \in [S -> S]
        BY <2>1 DEF Steps
      <3>2. QED
        BY <3>1
    <2>3. h \in [0 .. n -> S]
      BY <2>2
    <2>4. h[0] = base
      BY <2>1
    <2>5. ASSUME NEW i \in 1 .. n PROVE h[i] = D[i][h[i - 1]]
      <3>1. i \in 0 .. n /\ i - 1 \in 0 .. n /\ i - 1 # n
        OBVIOUS
      <3>2. h[i - 1] = g[i - 1]
        BY <3>1
      <3>3. CASE i = n
        BY <3>2, <3>3
      <3>4. CASE i # n
        <4>1. i \in 1 .. n - 1 /\ h[i] = g[i]
          BY <3>4
        <4>2. QED
          BY <2>1, <3>2, <4>1
      <3>5. QED
        BY <3>3, <3>4
    <2>6. P(n)
      <3> HIDE DEF h
      <3>1. QED
        BY <2>3, <2>4, <2>5
    <2>7. QED
      BY <2>6
  <1>3. N \in T
    <2> HIDE DEF T
    <2>1. QED
      BY <1>1, <1>2, UpTo
  <1>4. PICK g \in [0 .. N -> S] : g[0] = base /\ \A i \in 1 .. N : g[i] = D[i][g[i - 1]]
    BY <1>3
  <1>5. g = [k \in 0 .. N |-> IF k = 0 THEN base ELSE D[k][g[k - 1]]]
    <2>1. \A k \in 0 .. N : g[k] = IF k = 0 THEN base ELSE D[k][g[k - 1]]
      BY <1>4
    <2>2. QED
      BY <2>1
  <1>6. QED
    BY <1>5 DEF IsFold

----------------------------------------------------------------------------
(* Media.                                                                  *)

(* Read adds up the parts until there are too many bytes.                  *)
LEMMA ReadLoop ==
    ASSUME NEW parts \in Seq(Nat), NEW max \in Nat
    PROVE  \E read \in [0 .. Len(parts) -> Nat] :
              /\ Read(parts, max) = read[Len(parts)]
              /\ read[0] = 0
              /\ \A k \in 1 .. Len(parts) :
                    read[k] = IF read[k - 1] > max THEN read[k - 1]
                              ELSE read[k - 1] + parts[k]
  <1> DEFINE N == Len(parts)
             Def(read) == [k \in 0 .. N |->
                              IF k = 0 THEN 0
                              ELSE IF read[k - 1] > max THEN read[k - 1]
                              ELSE read[k - 1] + parts[k]]
             f == CHOOSE read : read = Def(read)
             D == [k \in 1 .. N |-> [n \in Nat |-> IF n > max THEN n ELSE n + parts[k]]]
  <1>1. N \in Nat /\ \A k \in 1 .. N : parts[k] \in Nat
    OBVIOUS
  <1>2. D \in Steps(Nat, N)
    BY <1>1 DEF Steps
  <1>3. PICK g : IsFold(g, 0, D, N) /\ \A k \in 0 .. N : g[k] \in Nat
    <2> HIDE DEF D, N
    <2>1. QED
      BY <1>1, <1>2, FoldExists
  <1>4. g = Def(g)
    <2>1. \A k \in 0 .. N : k # 0 => k - 1 \in 0 .. N /\ k \in 1 .. N
      BY <1>1
    <2>2. \A k \in 0 .. N : (IF k = 0 THEN 0 ELSE D[k][g[k - 1]]) = Def(g)[k]
      BY <1>3, <2>1
    <2>3. QED
      BY <1>3, <2>2 DEF IsFold
  <1>5. f = Def(f)
    <2> HIDE DEF Def
    <2>1. QED
      BY <1>4
  <1>6. Read(parts, max) = f[N]
    BY DEF Read
  <1>7. /\ f = [k \in 0 .. N |-> f[k]] /\ f[0] = 0
        /\ \A k \in 1 .. N : f[k] = IF f[k - 1] > max THEN f[k - 1] ELSE f[k - 1] + parts[k]
    <2>1. 0 \in 0 .. N /\ \A k \in 1 .. N : k \in 0 .. N /\ k # 0
      BY <1>1
    <2> HIDE DEF f
    <2>2. f = [k \in 0 .. N |-> f[k]] /\ \A k \in 0 .. N : f[k] = Def(f)[k]
      BY <1>5
    <2>3. QED
      BY <2>1, <2>2
  <1>8. \A k \in 0 .. N : f[k] \in Nat
    <2> DEFINE T == {k \in 0 .. N : f[k] \in Nat}
    <2> HIDE DEF f
    <2>1. 0 \in T /\ \A k \in 1 .. N : k - 1 \in T => k \in T
      BY <1>1, <1>7
    <2> HIDE DEF T
    <2>2. \A k \in 0 .. N : k \in T
      BY <1>1, <2>1, UpTo
    <2>3. QED
      BY <2>2 DEF T
  <1>9. QED
    <2> HIDE DEF f
    <2>1. f \in [0 .. N -> Nat]
      BY <1>7, <1>8
    <2>2. QED
      BY <1>6, <1>7, <2>1

(* Total adds up all the parts.                                            *)
LEMMA TotalLoop ==
    ASSUME NEW parts \in Seq(Nat)
    PROVE  \E total \in [0 .. Len(parts) -> Nat] :
              /\ Total(parts) = total[Len(parts)]
              /\ total[0] = 0
              /\ \A k \in 1 .. Len(parts) : total[k] = total[k - 1] + parts[k]
  <1> DEFINE N == Len(parts)
             Def(total) == [k \in 0 .. N |-> IF k = 0 THEN 0 ELSE total[k - 1] + parts[k]]
             f == CHOOSE total : total = Def(total)
             D == [k \in 1 .. N |-> [n \in Nat |-> n + parts[k]]]
  <1>1. N \in Nat /\ \A k \in 1 .. N : parts[k] \in Nat
    OBVIOUS
  <1>2. D \in Steps(Nat, N)
    BY <1>1 DEF Steps
  <1>3. PICK g : IsFold(g, 0, D, N) /\ \A k \in 0 .. N : g[k] \in Nat
    <2> HIDE DEF D, N
    <2>1. QED
      BY <1>1, <1>2, FoldExists
  <1>4. g = Def(g)
    <2>1. \A k \in 0 .. N : k # 0 => k - 1 \in 0 .. N /\ k \in 1 .. N
      BY <1>1
    <2>2. \A k \in 0 .. N : (IF k = 0 THEN 0 ELSE D[k][g[k - 1]]) = Def(g)[k]
      BY <1>3, <2>1
    <2>3. QED
      BY <1>3, <2>2 DEF IsFold
  <1>5. f = Def(f)
    <2> HIDE DEF Def
    <2>1. QED
      BY <1>4
  <1>6. Total(parts) = f[N]
    BY DEF Total
  <1>7. /\ f = [k \in 0 .. N |-> f[k]] /\ f[0] = 0
        /\ \A k \in 1 .. N : f[k] = f[k - 1] + parts[k]
    <2>1. 0 \in 0 .. N /\ \A k \in 1 .. N : k \in 0 .. N /\ k # 0
      BY <1>1
    <2> HIDE DEF f
    <2>2. f = [k \in 0 .. N |-> f[k]] /\ \A k \in 0 .. N : f[k] = Def(f)[k]
      BY <1>5
    <2>3. QED
      BY <2>1, <2>2
  <1>8. \A k \in 0 .. N : f[k] \in Nat
    <2> DEFINE T == {k \in 0 .. N : f[k] \in Nat}
    <2> HIDE DEF f
    <2>1. 0 \in T
      BY <1>1, <1>7
    <2>2. ASSUME NEW k \in 1 .. N, k - 1 \in T PROVE k \in T
      <3>1. f[k] = f[k - 1] + parts[k] /\ f[k - 1] \in Nat /\ parts[k] \in Nat
        BY <1>1, <1>7, <2>2
      <3>2. k \in 0 .. N /\ f[k] \in Nat
        BY <1>1, <3>1
      <3>3. QED
        BY <3>2
    <2> HIDE DEF T
    <2>3. \A k \in 0 .. N : k \in T
      BY <1>1, <2>1, <2>2, UpTo
    <2>4. QED
      BY <2>3 DEF T
  <1>9. QED
    <2> HIDE DEF f
    <2>1. f \in [0 .. N -> Nat]
      BY <1>7, <1>8
    <2>2. QED
      BY <1>6, <1>7, <2>1

(* What was read without going beyond the cap is everything there was.     *)
LEMMA WithinCapIsWhole ==
    ASSUME NEW parts \in Seq(Nat), NEW max \in Nat, ~(Read(parts, max) > max)
    PROVE  Read(parts, max) = Total(parts) /\ Read(parts, max) \in Nat
  <1> DEFINE N == Len(parts)
  <1>1. PICK read \in [0 .. N -> Nat] :
           /\ Read(parts, max) = read[N]
           /\ read[0] = 0
           /\ \A k \in 1 .. N : read[k] = IF read[k - 1] > max THEN read[k - 1]
                                           ELSE read[k - 1] + parts[k]
    BY ReadLoop
  <1>2. PICK total \in [0 .. N -> Nat] :
           /\ Total(parts) = total[N]
           /\ total[0] = 0
           /\ \A k \in 1 .. N : total[k] = total[k - 1] + parts[k]
    BY TotalLoop
  <1> DEFINE T == {k \in 0 .. N : read[k] = total[k] \/ read[k] > max}
  <1>3. N \in Nat /\ N \in 0 .. N
    OBVIOUS
  <1>4. 0 \in T /\ \A k \in 1 .. N : k - 1 \in T => k \in T
    BY <1>1, <1>2, <1>3
  <1>5. N \in T
    <2> HIDE DEF T
    <2>1. QED
      BY <1>3, <1>4, UpTo
  <1>6. QED
    BY <1>1, <1>2, <1>3, <1>5

----------------------------------------------------------------------------
(* A behaviour is one job and its result.                                  *)

ResultOf(j) ==
    CASE j.of = "chunk"    -> ChunkMessage(j.text, j.max)
      [] j.of = "markdown" -> MarkdownToSignal(j.text)
      [] j.of = "envelope" -> ParseEnvelope(j.envelope, j.settings)
      [] j.of = "audio"    -> InboundAudio(j.refs, j.max)
      [] j.of = "voice"    -> VoiceFile(j.download, j.payload, j.max)

Jobs == ChunkJobs \cup MarkdownJobs \cup EnvelopeJobs \cup AudioJobs \cup VoiceJobs

IInv == job \in Jobs /\ (result = << >> \/ result = <<ResultOf(job)>>)

(* The inductive invariant from which the theorems below follow.           *)
THEOREM ResultInvariance == Spec => []IInv
  <1>1. Init => IInv
    BY DEF Init, IInv, Jobs
  <1>2. IInv /\ [Next]_vars => IInv'
    <2> SUFFICES ASSUME IInv, Next PROVE IInv'
      BY DEF IInv, vars
    <2>1. job' = job /\ result' = <<ResultOf(job)>>
      BY DEF Next, Chunk, Convert, Parse, FetchAudio, FetchVoice, Step, ResultOf
    <2>2. QED
      BY <2>1 DEF IInv
  <1>3. QED
    BY <1>1, <1>2, PTL DEF Spec

(* A result is what the function of its job gives.                         *)
LEMMA OutOf ==
    ASSUME IInv, NEW of \in {"chunk", "audio", "voice"}, Done(of)
    PROVE  /\ job.of = of /\ Out = ResultOf(job)
           /\ of = "chunk" => job \in ChunkJobs
           /\ of = "audio" => job \in AudioJobs
           /\ of = "voice" => job \in VoiceJobs
  BY JobAssumption DEF IInv, Jobs, Done, Out

(* The least of a nonempty set of naturals.                                *)
LEMMA MinIsLeast ==
    ASSUME NEW T \in SUBSET Nat, T # {}
    PROVE  Min(T) \in T /\ \A y \in T : Min(T) <= y
  BY LeastElement DEF Min

(* Whatever a voice note is sent from is whole and within the cap.         *)
THEOREM WholeFile == Spec => []FileIsWhole
  <1>1. IInv => FileIsWhole
    <2> SUFFICES ASSUME IInv, Done("voice"), Out # Nothing
                 PROVE  \/ /\ job.download # Nothing /\ ~job.download.breaks
                           /\ Out = Total(job.download.parts) /\ Out <= job.max
                        \/ /\ job.payload # Nothing /\ job.payload.valid
                           /\ Out = job.payload.bytes /\ Out <= job.max
      BY DEF FileIsWhole
    <2> DEFINE d == job.download
               p == job.payload
               max == job.max
    <2>1. /\ d \in Response \cup {Nothing} /\ p \in Payload \cup {Nothing} /\ max \in Nat
          /\ Out = VoiceFile(d, p, max)
      BY OutOf, JobAssumption DEF ResultOf
    <2>2. CASE d # Nothing /\ Download(d, max) # Nothing
      <3>1. Out = Read(d.parts, max) /\ ~(Read(d.parts, max) > max) /\ ~d.breaks
        BY <2>1, <2>2 DEF VoiceFile, Download
      <3>2. d.parts \in Seq(Nat)
        BY <2>1, <2>2 DEF Response
      <3>3. QED
        BY <2>1, <2>2, <3>1, <3>2, WithinCapIsWhole
    <2>3. CASE ~(d # Nothing /\ Download(d, max) # Nothing)
      <3>1. p # Nothing /\ Out = Decode(p, max) /\ Decode(p, max) # Nothing
        BY <2>1, <2>3 DEF VoiceFile
      <3>2. p.valid /\ p.bytes \in Nat /\ Out = p.bytes /\ ~(p.bytes > max)
        BY <2>1, <3>1 DEF Decode, Payload
      <3>3. QED
        BY <2>1, <3>1, <3>2
    <2>4. QED
      BY <2>2, <2>3
  <1>2. QED
    BY <1>1, ResultInvariance, PTL

(* What is relayed is the first attachment that counts as audio, whole,    *)
(* within the cap and of no format known as unsupported, and supported     *)
(* audio within the cap is relayed.                                        *)
THEOREM AudioCapped == Spec => []AudioWithinCap
  <1>1. IInv => AudioWithinCap
    <2> DEFINE refs == job.refs
               max == job.max
               audio == {k \in DOMAIN refs : IsAudio(refs[k])}
               Chosen(k) == IsAudio(refs[k]) /\ \A l \in 1 .. k - 1 : ~IsAudio(refs[l])
    <2> SUFFICES ASSUME IInv, Done("audio")
                 PROVE  /\ Out # Nothing =>
                              \E k \in DOMAIN refs : /\ Chosen(k) /\ ~KnownUnsupported(refs[k])
                                                     /\ Out = refs[k].bytes /\ Out \in 1 .. max
                        /\ /\ refs # << >>
                           /\ refs[1].type = "audio" /\ refs[1].bytes \in 1 .. max
                           /\ refs[1].declared \in {Nothing, refs[1].bytes}
                           => Out = refs[1].bytes
      BY DEF AudioWithinCap
    <2>1. refs \in Seq(Ref) /\ max \in Nat /\ Out = InboundAudio(refs, max)
      BY OutOf, JobAssumption DEF ResultOf
    <2>2. audio \in SUBSET Nat /\ \A k \in audio : refs[k] \in Ref /\ k >= 1
      BY <2>1
    <2>3. audio # {} => Min(audio) \in audio /\ \A k \in audio : Min(audio) <= k
      <3> HIDE DEF audio
      <3>1. QED
        BY <2>2, MinIsLeast
    <2>4. FirstAudio(refs) = IF audio = {} THEN Nothing ELSE refs[Min(audio)]
      BY DEF FirstAudio
    <2>5. ASSUME Out # Nothing
          PROVE  \E k \in DOMAIN refs : /\ Chosen(k) /\ ~KnownUnsupported(refs[k])
                                        /\ Out = refs[k].bytes /\ Out \in 1 .. max
      <3> DEFINE ref == FirstAudio(refs)
                 k == Min(audio)
      <3>1. ref # Nothing /\ Out = Fetch(ref, max)
        BY <2>1, <2>5 DEF InboundAudio
      <3>2. audio # {} /\ ref = refs[k] /\ k \in audio /\ \A l \in audio : k <= l
        BY <2>3, <2>4, <3>1
      <3>3. ref \in Ref /\ k \in DOMAIN refs /\ k \in Nat
        BY <2>2, <3>2
      <3>4. Supported(ref) /\ Out = ref.bytes /\ ref.bytes # 0 /\ ~(ref.bytes > max)
        BY <2>5, <3>1 DEF Fetch
      <3>5. Out \in 1 .. max
        BY <2>1, <3>3, <3>4 DEF Ref
      <3>6. ~KnownUnsupported(ref)
        BY <3>4 DEF Supported, KnownUnsupported
      <3>7. Chosen(k)
        <4>1. IsAudio(refs[k])
          BY <3>2
        <4>2. ASSUME NEW l \in 1 .. k - 1, IsAudio(refs[l]) PROVE FALSE
          <5>1. l \in DOMAIN refs /\ l \in Nat /\ l < k
            <6>1. DOMAIN refs = 1 .. Len(refs) /\ Len(refs) \in Nat
              BY <2>1
            <6> HIDE DEF k
            <6>2. QED
              BY <3>3, <6>1
          <5>2. l \in audio
            BY <4>2, <5>1
          <5> HIDE DEF k
          <5>3. QED
            BY <3>2, <3>3, <5>1, <5>2
        <4>3. QED
          BY <4>1, <4>2
      <3> HIDE DEF k, audio
      <3>8. QED
        BY <3>2, <3>3, <3>4, <3>5, <3>6, <3>7
    <2>6. ASSUME refs # << >>, refs[1].type = "audio", refs[1].bytes \in 1 .. max,
                 refs[1].declared \in {Nothing, refs[1].bytes}
          PROVE  Out = refs[1].bytes
      <3>1. 1 \in audio
        BY <2>1, <2>6 DEF IsAudio
      <3>2. Min(audio) = 1
        BY <2>2, <2>3, <3>1
      <3>3. FirstAudio(refs) = refs[1] /\ refs[1] \in Ref
        BY <2>2, <2>4, <3>1, <3>2
      <3>4. refs[1] # Nothing
        BY <3>3, NothingAssumption
      <3>5. Fetch(refs[1], max) = refs[1].bytes
        BY <2>1, <2>6 DEF Fetch, Supported
      <3>6. QED
        BY <2>1, <3>3, <3>4, <3>5 DEF InboundAudio
    <2>7. QED
      BY <2>5, <2>6
  <1>2. QED
    BY <1>1, ResultInvariance, PTL

----------------------------------------------------------------------------
(* Sequences of characters.                                                *)

(* The greatest of a nonempty, bounded set of naturals.                    *)
LEMMA MaxIsGreatest ==
    ASSUME NEW T \in SUBSET Nat, T # {}, NEW b \in Nat, \A y \in T : y <= b
    PROVE  Max(T) \in T /\ \A y \in T : y <= Max(T)
  <1> DEFINE R == {b - y : y \in T}
  <1>1. R \in SUBSET Nat /\ R # {}
    <2>1. \A y \in T : b - y \in Nat
      <3>1. \A y \in T : y \in Nat /\ y <= b
        OBVIOUS
      <3>2. QED
        BY <3>1
    <2>2. QED
      BY <2>1
  <1>2. PICK r \in R : \A q \in R : r <= q
    <2> HIDE DEF R
    <2>1. QED
      BY <1>1, LeastElement
  <1>3. PICK x \in T : r = b - x
    OBVIOUS
  <1>4. ASSUME NEW y \in T PROVE x >= y
    <2>1. b - y \in R /\ x \in Nat /\ y \in Nat
      OBVIOUS
    <2>2. b - x <= b - y
      BY <1>2, <1>3, <2>1
    <2>3. QED
      BY <2>1, <2>2
  <1>5. \E m \in T : \A y \in T : m >= y
    BY <1>4
  <1>6. Max(T) \in T /\ \A y \in T : Max(T) >= y
    BY <1>5 DEF Max
  <1>7. QED
    BY <1>6

(* A function on 1 .. n is a sequence.                                     *)
LEMMA FunctionIsSeq ==
    ASSUME NEW A, NEW n \in Nat, NEW f \in [1 .. n -> A]
    PROVE  f \in Seq(A) /\ Len(f) = n
  OBVIOUS

(* The elements of S up to the one of rank k.                              *)
Below(S, i) == {j \in S : j <= i}

(* Every rank up to the number of elements is that of an element.          *)
LEMMA RankExists ==
    ASSUME NEW S \in SUBSET Nat, IsFiniteSet(S), NEW k \in 1 .. Cardinality(S)
    PROVE  \E i \in S : Cardinality(Below(S, i)) = k
  <1> DEFINE N == Cardinality(S)
             First(D, n) == /\ D \in SUBSET S /\ Cardinality(D) = n
                            /\ \A a \in D, b \in S : b <= a => b \in D
                            /\ n # 0 => \E i \in S : D = Below(S, i)
             T == {n \in 0 .. N : \E D \in SUBSET S : First(D, n)}
  <1>1. N \in Nat
    BY FS_CardinalityType
  <1>2. 0 \in T
    <2>1. First({}, 0)
      BY FS_EmptySet
    <2> HIDE DEF First
    <2>2. QED
      BY <1>1, <2>1
  <1>3. ASSUME NEW n \in 1 .. N, n - 1 \in T PROVE n \in T
    <2>1. PICK D \in SUBSET S : First(D, n - 1)
      BY <1>3
    <2>2. IsFiniteSet(D) /\ D # S
      <3>1. D \in SUBSET S /\ Cardinality(D) = n - 1 /\ n - 1 # N
        BY <1>1, <2>1
      <3>2. QED
        BY <3>1, FS_Subset
    <2>3. PICK m \in S \ D : \A j \in S \ D : m <= j
      <3>1. S \ D \in SUBSET Nat /\ S \ D # {}
        BY <2>1, <2>2
      <3>2. QED
        BY <3>1, LeastElement
    <2> DEFINE E == D \cup {m}
    <2>4. E = Below(S, m)
      <3>1. ASSUME NEW j \in D PROVE j <= m
        <4>1. j \in Nat /\ m \in Nat /\ ~(m <= j)
          BY <2>1, <2>3
        <4>2. QED
          BY <4>1
      <3>2. ASSUME NEW j \in S, j <= m PROVE j \in E
        <4>1. SUFFICES ASSUME j \notin D PROVE j = m
          OBVIOUS
        <4>2. j \in Nat /\ m \in Nat /\ m <= j
          BY <2>3, <4>1
        <4>3. QED
          BY <3>2, <4>2
      <3>3. m <= m /\ D \subseteq S /\ m \in S
        OBVIOUS
      <3>4. QED
        BY <3>1, <3>2, <3>3 DEF Below
    <2>5. Cardinality(E) = n
      <3>1. Cardinality(E) = Cardinality(D) + 1
        BY <2>2, <2>3, FS_AddElement
      <3>2. Cardinality(D) = n - 1
        BY <2>1
      <3>3. QED
        BY <3>1, <3>2
    <2>6. \A a \in E, b \in S : b <= a => b \in E
      <3> HIDE DEF E
      <3>1. SUFFICES ASSUME NEW a \in E, NEW b \in S, b <= a PROVE b \in E
        OBVIOUS
      <3>2. a \in Nat /\ b \in Nat /\ m \in Nat /\ a <= m
        BY <2>4 DEF Below
      <3>3. b <= m
        BY <3>1, <3>2
      <3>4. QED
        BY <2>4, <3>3 DEF Below
    <2>7. First(E, n)
      <3> HIDE DEF E
      <3>1. E \in SUBSET S
        BY <2>4 DEF Below
      <3>2. QED
        BY <2>4, <2>5, <2>6, <3>1
    <2>8. QED
      <3> HIDE DEF First, E
      <3>1. E \in SUBSET S
        BY <2>4 DEF Below
      <3>2. QED
        BY <2>7, <3>1
  <1>4. k \in T
    <2> HIDE DEF T
    <2>1. QED
      BY <1>1, <1>2, <1>3, UpTo
  <1>5. QED
    BY <1>4

(* Ascending lists a finite set: each entry is the element of its rank.    *)
LEMMA AscendingIn ==
    ASSUME NEW S \in SUBSET Nat, IsFiniteSet(S)
    PROVE  /\ Ascending(S) \in [1 .. Cardinality(S) -> S]
           /\ Cardinality(S) \in Nat
           /\ \A k \in 1 .. Cardinality(S) : Cardinality(Below(S, Ascending(S)[k])) = k
  <1>1. Cardinality(S) \in Nat
    BY FS_CardinalityType
  <1>2. ASSUME NEW k \in 1 .. Cardinality(S)
        PROVE  Ascending(S)[k] \in S /\ Cardinality(Below(S, Ascending(S)[k])) = k
    BY RankExists DEF Ascending, Below
  <1>3. Ascending(S) = [k \in 1 .. Cardinality(S) |-> Ascending(S)[k]]
    <2> DEFINE e(k) == CHOOSE i \in S : Cardinality({j \in S : j <= i}) = k
    <2>1. Ascending(S) = [k \in 1 .. Cardinality(S) |-> e(k)]
      BY DEF Ascending
    <2> HIDE DEF e
    <2>2. QED
      BY <2>1
  <1>4. QED
    BY <1>1, <1>2, <1>3

----------------------------------------------------------------------------
(* What is taken out of a sequence is a sequence of its elements.          *)

LEMMA AscendingOf ==
    ASSUME NEW n \in Nat, NEW S \in SUBSET (1 .. n)
    PROVE  /\ S \in SUBSET Nat /\ IsFiniteSet(S)
           /\ Ascending(S) \in Seq(S) /\ Len(Ascending(S)) = Cardinality(S)
           /\ \A k \in 1 .. Len(Ascending(S)) : Ascending(S)[k] \in S
  <1>1. S \in SUBSET Nat /\ IsFiniteSet(S)
    <2>1. IsFiniteSet(1 .. n)
      BY FS_Interval
    <2>2. IsFiniteSet(S)
      BY <2>1, FS_Subset
    <2>3. QED
      BY <2>2
  <1>2. Ascending(S) \in Seq(S) /\ Len(Ascending(S)) = Cardinality(S)
    BY <1>1, AscendingIn, FunctionIsSeq
  <1>3. QED
    BY <1>1, <1>2, ElementOfSeq

(* The entries and the length of a part of a sequence.                     *)
LEMMA SubSeqOf ==
    ASSUME NEW A, NEW t \in Seq(A), NEW m \in Nat \ {0}, NEW n \in Nat, n <= Len(t)
    PROVE  /\ SubSeq(t, m, n) \in Seq(A)
           /\ Len(SubSeq(t, m, n)) = IF m <= n THEN n - m + 1 ELSE 0
           /\ \A i \in 1 .. n - m + 1 : SubSeq(t, m, n)[i] = t[m + i - 1]
  <1>1. Len(t) \in Nat
    OBVIOUS
  <1>2. ASSUME NEW i \in m .. n PROVE t[i] \in A
    <2>1. i \in 1 .. Len(t)
      BY <1>1
    <2>2. QED
      BY <2>1, ElementOfSeq
  <1>3. QED
    BY <1>2, SubSeqProperties

(* Picking positions of a sequence gives a sequence over the same set.     *)
LEMMA PickedTyped ==
    ASSUME NEW A, NEW t \in Seq(A), NEW S \in SUBSET DOMAIN t
    PROVE  /\ Picked(t, S) \in Seq(A)
           /\ \A k \in DOMAIN Picked(t, S) : \E i \in S : Picked(t, S)[k] = t[i]
  <1> DEFINE at == Ascending(S)
  <1>1. Len(t) \in Nat /\ S \in SUBSET (1 .. Len(t))
    OBVIOUS
  <1>2. Len(at) \in Nat /\ DOMAIN at = 1 .. Len(at) /\ \A k \in 1 .. Len(at) : at[k] \in S
    <2>1. at \in Seq(S) /\ \A k \in 1 .. Len(at) : at[k] \in S
      BY <1>1, AscendingOf
    <2> HIDE DEF at
    <2>2. QED
      BY <2>1
  <1>3. Picked(t, S) = [k \in 1 .. Len(at) |-> t[at[k]]]
    BY <1>2 DEF Picked
  <1> HIDE DEF at
  <1>4. \A k \in 1 .. Len(at) : t[at[k]] \in A
    BY <1>2
  <1>5. Picked(t, S) \in [1 .. Len(at) -> A]
    BY <1>3, <1>4
  <1>6. QED
    BY <1>2, <1>3, <1>5, FunctionIsSeq

(* Stripping a text gives a text.                                          *)
LEMMA StripTyped ==
    ASSUME NEW t \in Seq(Char)
    PROVE  Strip(t) \in Seq(Char)
  <1> DEFINE keep == {i \in DOMAIN t : t[i].kind \notin Whitespace}
  <1>1. keep \in SUBSET Nat /\ Len(t) \in Nat /\ \A i \in keep : i \in 1 .. Len(t)
    OBVIOUS
  <1>2. Strip(t) = IF keep = {} THEN << >> ELSE SubSeq(t, Min(keep), Max(keep))
    BY DEF Strip
  <1> HIDE DEF keep
  <1>3. ASSUME keep # {} PROVE SubSeq(t, Min(keep), Max(keep)) \in Seq(Char)
    <2>1. \A i \in keep : i <= Len(t)
      BY <1>1
    <2>4. Min(keep) \in keep /\ Max(keep) \in keep
      BY <1>1, <1>3, <2>1, MinIsLeast, MaxIsGreatest
    <2>2. Min(keep) \in 1 .. Len(t) /\ Max(keep) \in 1 .. Len(t)
      BY <1>1, <2>4
    <2> DEFINE m == Min(keep)
               n == Max(keep)
    <2> HIDE DEF m, n
    <2>3. m \in Nat \ {0} /\ n \in Nat /\ n <= Len(t)
      BY <1>1, <2>2 DEF m, n
    <2>5. SubSeq(t, m, n) \in Seq(Char)
      BY <2>3, SubSeqOf
    <2>6. QED
      BY <2>5 DEF m, n
  <1>4. QED
    BY <1>2, <1>3

(* The last position of the run of S that i is in.                         *)
LastOfRun(S, i) == Max({j \in S : i .. j \subseteq S})

(* The run from an element ends at an element, as late as possible.        *)
LEMMA LastOfRunIn ==
    ASSUME NEW n \in Nat, NEW S \in SUBSET (1 .. n), NEW i \in S
    PROVE  /\ LastOfRun(S, i) \in S /\ i .. LastOfRun(S, i) \subseteq S
           /\ i <= LastOfRun(S, i)
           /\ \A j \in S : i .. j \subseteq S => j <= LastOfRun(S, i)
  <1> DEFINE T == {j \in S : i .. j \subseteq S}
  <1>1. i \in T /\ T \in SUBSET Nat /\ \A j \in T : j <= n
    <2>1. i .. i = {i} /\ \A j \in S : j \in Nat /\ j <= n
      OBVIOUS
    <2>2. QED
      BY <2>1
  <1>2. Max(T) \in T /\ \A j \in T : j <= Max(T)
    <2> HIDE DEF T
    <2>1. QED
      BY <1>1, MaxIsGreatest
  <1>3. QED
    BY <1>1, <1>2 DEF LastOfRun

(* Cutting a sequence into runs gives a sequence of sequences.             *)
LEMMA RunsTyped ==
    ASSUME NEW A, NEW t \in Seq(A), NEW S \in SUBSET DOMAIN t
    PROVE  Runs(t, S) \in Seq(Seq(A))
  <1> DEFINE F == {i \in S : i - 1 \notin S}
             firsts == Ascending(F)
  <1>1. Len(t) \in Nat /\ S \in SUBSET (1 .. Len(t)) /\ F \in SUBSET (1 .. Len(t)) /\ F \subseteq S
    OBVIOUS
  <1>2. Len(firsts) \in Nat /\ DOMAIN firsts = 1 .. Len(firsts)
        /\ \A k \in 1 .. Len(firsts) : firsts[k] \in S
    <2> HIDE DEF F
    <2>1. /\ firsts \in Seq(F)
          /\ \A k \in 1 .. Len(firsts) : firsts[k] \in F
      BY <1>1, AscendingOf
    <2> HIDE DEF firsts
    <2>2. QED
      BY <1>1, <2>1
  <1>3. Runs(t, S) = [k \in 1 .. Len(firsts) |-> SubSeq(t, firsts[k], LastOfRun(S, firsts[k]))]
    BY <1>2 DEF Runs, LastOfRun
  <1> HIDE DEF firsts
  <1>4. ASSUME NEW k \in 1 .. Len(firsts)
        PROVE  SubSeq(t, firsts[k], LastOfRun(S, firsts[k])) \in Seq(A)
    <2>1. firsts[k] \in S /\ LastOfRun(S, firsts[k]) \in S
      BY <1>1, <1>2, LastOfRunIn
    <2>2. /\ firsts[k] \in Nat \ {0} /\ LastOfRun(S, firsts[k]) \in Nat
          /\ LastOfRun(S, firsts[k]) <= Len(t)
      BY <1>1, <2>1
    <2>3. QED
      BY <2>2, SubSeqOf
  <1>5. Runs(t, S) \in [1 .. Len(firsts) -> Seq(A)]
    BY <1>3, <1>4
  <1>6. QED
    BY <1>2, <1>5, FunctionIsSeq

(* FlattenSeq adds one sequence after the other.                           *)
IsFlattening(flat, seqs) ==
    /\ flat[0] = << >>
    /\ \A k \in 1 .. Len(seqs) : flat[k] = flat[k - 1] \o seqs[k]

(* FlattenSeq is the loop that appends each sequence to those before it.   *)
LEMMA FlattenLoop ==
    ASSUME NEW A, NEW seqs \in Seq(Seq(A))
    PROVE  \E flat \in [0 .. Len(seqs) -> Seq(A)] :
              IsFlattening(flat, seqs) /\ FlattenSeq(seqs) = flat[Len(seqs)]
  <1> DEFINE N == Len(seqs)
             Def(flatten) == [i \in 1 .. N |->
                                 IF i = 1 THEN seqs[i] ELSE flatten[i - 1] \o seqs[i]]
             f == CHOOSE flatten : flatten = Def(flatten)
             D == [k \in 1 .. N |-> [x \in Seq(A) |-> x \o seqs[k]]]
  <1>1. N \in Nat /\ \A k \in 1 .. N : seqs[k] \in Seq(A)
    OBVIOUS
  <1>2. D \in Steps(Seq(A), N)
    BY <1>1 DEF Steps
  <1>3. PICK g : IsFold(g, << >>, D, N) /\ \A k \in 0 .. N : g[k] \in Seq(A)
    <2>1. << >> \in Seq(A)
      OBVIOUS
    <2> HIDE DEF D, N
    <2>2. QED
      BY <1>1, <1>2, <2>1, FoldExists
  <1>4. g[0] = << >> /\ \A k \in 1 .. N : g[k] = g[k - 1] \o seqs[k]
    <2>1. 0 \in 0 .. N /\ \A k \in 1 .. N : k \in 0 .. N /\ k - 1 \in 0 .. N /\ k # 0
      BY <1>1
    <2>2. \A k \in 0 .. N : g[k] = IF k = 0 THEN << >> ELSE D[k][g[k - 1]]
      BY <1>3 DEF IsFold
    <2>3. QED
      BY <1>3, <2>1, <2>2
  <1> DEFINE h == [i \in 1 .. N |-> g[i]]
  <1>5. h = Def(h)
    <2>1. ASSUME NEW i \in 1 .. N PROVE g[i] = Def(h)[i]
      <3>1. CASE i = 1
        <4>1. seqs[i] \in Seq(A) /\ i - 1 = 0
          BY <1>1, <3>1
        <4>2. g[i] = << >> \o seqs[i]
          BY <1>4, <4>1
        <4>3. g[i] = seqs[i]
          BY <4>1, <4>2, ConcatEmptySeq
        <4>4. QED
          BY <3>1, <4>3
      <3>2. CASE i # 1
        <4>1. i - 1 \in 1 .. N
          BY <1>1, <3>2
        <4>2. h[i - 1] = g[i - 1]
          BY <4>1
        <4>3. Def(h)[i] = h[i - 1] \o seqs[i]
          <5> HIDE DEF h
          <5>1. QED
            BY <3>2
        <4>4. QED
          BY <1>4, <4>2, <4>3
      <3>3. QED
        BY <3>1, <3>2
    <2>2. QED
      BY <2>1
  <1>6. f = Def(f)
    <2> HIDE DEF Def, h
    <2>1. QED
      BY <1>5
  <1>7. FlattenSeq(seqs) = IF N = 0 THEN seqs ELSE f[N]
    BY DEF FlattenSeq
  <1> DEFINE flat == [k \in 0 .. N |-> IF k = 0 THEN << >> ELSE f[k]]
  <1>8. IsFlattening(flat, seqs)
    <2> HIDE DEF f
    <2>1. flat[0] = << >>
      BY <1>1
    <2>2. ASSUME NEW k \in 1 .. N PROVE flat[k] = flat[k - 1] \o seqs[k]
      <3>1. k \in 0 .. N /\ k - 1 \in 0 .. N /\ k # 0 /\ seqs[k] \in Seq(A)
        BY <1>1
      <3>2. flat[k] = f[k] /\ f[k] = IF k = 1 THEN seqs[k] ELSE f[k - 1] \o seqs[k]
        BY <1>6, <3>1
      <3>3. CASE k = 1
        <4>1. flat[k] = seqs[k] /\ flat[k - 1] = << >>
          BY <2>1, <3>2, <3>3
        <4>2. QED
          BY <3>1, <4>1, ConcatEmptySeq
      <3>4. CASE k # 1
        <4>1. f[k] = f[k - 1] \o seqs[k]
          BY <3>2, <3>4
        <4>2. k - 1 # 0
          BY <3>4
        <4>3. flat[k - 1] = f[k - 1]
          BY <3>1, <4>2
        <4>4. QED
          BY <3>2, <4>1, <4>3
      <3>5. QED
        BY <3>3, <3>4
    <2>3. QED
      BY <2>1, <2>2 DEF IsFlattening
  <1>9. \A k \in 0 .. N : flat[k] \in Seq(A)
    <2> DEFINE T == {k \in 0 .. N : flat[k] \in Seq(A)}
    <2> HIDE DEF flat
    <2>1. 0 \in T
      <3>1. flat[0] = << >> /\ << >> \in Seq(A) /\ 0 \in 0 .. N
        BY <1>1, <1>8 DEF IsFlattening
      <3>2. QED
        BY <3>1
    <2>2. ASSUME NEW k \in 1 .. N, k - 1 \in T PROVE k \in T
      <3>1. flat[k] = flat[k - 1] \o seqs[k] /\ flat[k - 1] \in Seq(A) /\ seqs[k] \in Seq(A)
        BY <1>1, <1>8, <2>2 DEF IsFlattening
      <3>2. k \in 0 .. N /\ flat[k] \in Seq(A)
        BY <1>1, <3>1
      <3>3. QED
        BY <3>2
    <2> HIDE DEF T
    <2>3. \A k \in 0 .. N : k \in T
      BY <1>1, <2>1, <2>2, UpTo
    <2>4. QED
      BY <2>3 DEF T
  <1>10. FlattenSeq(seqs) = flat[N]
    <2> HIDE DEF f
    <2>1. CASE N = 0
      BY <1>7, <2>1
    <2>2. CASE N # 0
      BY <1>1, <1>7, <2>2
    <2>3. QED
      BY <2>1, <2>2
  <1>11. QED
    <2>1. flat = [k \in 0 .. N |-> flat[k]]
      OBVIOUS
    <2> HIDE DEF flat
    <2>2. flat \in [0 .. N -> Seq(A)]
      BY <1>9, <2>1
    <2>3. QED
      BY <1>8, <1>10, <2>2

(* Flattening sequences over a set gives a sequence over that set.         *)
LEMMA FlattenTyped ==
    ASSUME NEW A, NEW seqs \in Seq(Seq(A))
    PROVE  FlattenSeq(seqs) \in Seq(A)
  <1>1. Len(seqs) \in Nat /\ Len(seqs) \in 0 .. Len(seqs)
    OBVIOUS
  <1>2. QED
    BY <1>1, FlattenLoop

----------------------------------------------------------------------------
(* The segments of a reply.                                                *)

Segment == [text : Seq(Char), blank : BOOLEAN]

(* The words of a text are texts.                                          *)
LEMMA WordsTyped ==
    ASSUME NEW t \in Seq(Char)
    PROVE  Words(t) \in Seq(Seq(Char))
  BY RunsTyped DEF Words

(* Dropping empty parts leaves a sequence of texts.                        *)
LEMMA NonEmptyTyped ==
    ASSUME NEW parts \in Seq(Seq(Char))
    PROVE  NonEmpty(parts) \in Seq(Seq(Char))
  BY PickedTyped DEF NonEmpty

Stripped(parts) == [k \in DOMAIN parts |-> Strip(parts[k])]

(* Stripping each part keeps their number.                                 *)
LEMMA StrippedTyped ==
    ASSUME NEW parts \in Seq(Seq(Char))
    PROVE  Stripped(parts) \in Seq(Seq(Char)) /\ Len(Stripped(parts)) = Len(parts)
  <1>1. Len(parts) \in Nat /\ DOMAIN parts = 1 .. Len(parts)
        /\ \A k \in 1 .. Len(parts) : parts[k] \in Seq(Char)
    OBVIOUS
  <1>2. \A k \in DOMAIN parts : Strip(parts[k]) \in Seq(Char)
    BY <1>1, StripTyped
  <1>3. Stripped(parts) \in [1 .. Len(parts) -> Seq(Char)]
    BY <1>1, <1>2 DEF Stripped
  <1>4. QED
    BY <1>1, <1>3, FunctionIsSeq

(* The paragraphs of a text are texts.                                     *)
LEMMA ParagraphsTyped ==
    ASSUME NEW t \in Seq(Char)
    PROVE  Paragraphs(t) \in Seq(Seq(Char))
  <1> DEFINE newline(i) == i \in DOMAIN t /\ t[i].kind = "newline"
             cut == {i \in DOMAIN t : newline(i) /\ (newline(i - 1) \/ newline(i + 1))}
             parts == Runs(t, DOMAIN t \ cut)
  <1>1. parts \in Seq(Seq(Char))
    <2> HIDE DEF cut
    <2>1. QED
      BY RunsTyped
  <1>2. Paragraphs(t) = NonEmpty(Stripped(parts))
    BY DEF Paragraphs, Stripped
  <1>3. QED
    BY <1>1, <1>2, StrippedTyped, NonEmptyTyped

(* The places where sentences begin, and where the k-th of them ends.      *)
SentenceStarts(p) ==
    Ascending({i \in DOMAIN p : p[i].kind # "dot" /\ (i = 1 \/ p[i - 1].kind = "dot")})
SentenceEnd(p, k) ==
    IF k = Len(SentenceStarts(p)) THEN Len(p) ELSE SentenceStarts(p)[k + 1] - 1
RawSentences(p) ==
    [k \in DOMAIN SentenceStarts(p) |-> SubSeq(p, SentenceStarts(p)[k], SentenceEnd(p, k))]

(* Sentences begin and end within their paragraph.                         *)
LEMMA SentenceBounds ==
    ASSUME NEW p \in Seq(Char)
    PROVE  /\ Len(SentenceStarts(p)) \in Nat
           /\ DOMAIN SentenceStarts(p) = 1 .. Len(SentenceStarts(p))
           /\ \A k \in 1 .. Len(SentenceStarts(p)) :
                 SentenceStarts(p)[k] \in 1 .. Len(p) /\ SentenceEnd(p, k) \in 0 .. Len(p)
  <1> DEFINE S == {i \in DOMAIN p : p[i].kind # "dot" /\ (i = 1 \/ p[i - 1].kind = "dot")}
             firsts == Ascending(S)
  <1>1. Len(p) \in Nat /\ S \in SUBSET (1 .. Len(p))
    OBVIOUS
  <1>2. firsts \in Seq(S) /\ \A k \in 1 .. Len(firsts) : firsts[k] \in S
    <2> HIDE DEF S
    <2>1. QED
      BY <1>1, AscendingOf
  <1>3. SentenceStarts(p) = firsts
    BY DEF SentenceStarts
  <1> HIDE DEF S, firsts
  <1>4. Len(firsts) \in Nat /\ DOMAIN firsts = 1 .. Len(firsts)
    BY <1>2
  <1>5. \A k \in 1 .. Len(firsts) : firsts[k] \in 1 .. Len(p)
    BY <1>1, <1>2
  <1>6. ASSUME NEW k \in 1 .. Len(firsts), k # Len(firsts)
        PROVE  firsts[k + 1] - 1 \in 0 .. Len(p)
    <2> DEFINE N == Len(firsts)
    <2>1. k + 1 \in 1 .. N
      <3>1. N \in Nat /\ k \in 1 .. N /\ k # N
        BY <1>4, <1>6
      <3> HIDE DEF N
      <3>2. QED
        BY <3>1
    <2>2. firsts[k + 1] \in 1 .. Len(p)
      BY <1>5, <2>1
    <2>3. QED
      BY <1>1, <2>2
  <1>7. ASSUME NEW k \in 1 .. Len(firsts) PROVE SentenceEnd(p, k) \in 0 .. Len(p)
    <2>1. SentenceEnd(p, k) = IF k = Len(firsts) THEN Len(p) ELSE firsts[k + 1] - 1
      BY <1>3 DEF SentenceEnd
    <2>2. Len(p) \in 0 .. Len(p)
      BY <1>1
    <2>3. QED
      BY <1>6, <2>1, <2>2
  <1>8. QED
    BY <1>3, <1>4, <1>5, <1>7

(* The sentences, before they are stripped, are texts.                     *)
LEMMA RawSentencesTyped ==
    ASSUME NEW p \in Seq(Char)
    PROVE  RawSentences(p) \in Seq(Seq(Char))
  <1>1. ASSUME NEW k \in 1 .. Len(SentenceStarts(p))
        PROVE  SubSeq(p, SentenceStarts(p)[k], SentenceEnd(p, k)) \in Seq(Char)
    <2> DEFINE m == SentenceStarts(p)[k]
               n == SentenceEnd(p, k)
    <2>1. m \in 1 .. Len(p) /\ n \in 0 .. Len(p) /\ Len(p) \in Nat
      BY SentenceBounds
    <2> HIDE DEF m, n
    <2>2. m \in Nat \ {0} /\ n \in Nat /\ n <= Len(p)
      BY <2>1
    <2>3. SubSeq(p, m, n) \in Seq(Char)
      BY <2>2, SubSeqOf
    <2>4. QED
      BY <2>3 DEF m, n
  <1>2. RawSentences(p) \in [1 .. Len(SentenceStarts(p)) -> Seq(Char)]
    BY <1>1, SentenceBounds DEF RawSentences
  <1>3. QED
    BY <1>2, SentenceBounds, FunctionIsSeq

(* The sentences of a paragraph are its stripped, nonempty raw sentences.  *)
LEMMA SentencesTyped ==
    ASSUME NEW p \in Seq(Char)
    PROVE  /\ Sentences(p) = NonEmpty(Stripped(RawSentences(p)))
           /\ Sentences(p) \in Seq(Seq(Char))
  <1>1. Sentences(p) = NonEmpty(Stripped(RawSentences(p)))
    BY DEF Sentences, RawSentences, SentenceStarts, SentenceEnd, Stripped
  <1>2. QED
    BY <1>1, RawSentencesTyped, StrippedTyped, NonEmptyTyped

(* _expand_paragraph returns segments.                                     *)
LEMMA ExpandTyped ==
    ASSUME NEW p \in Seq(Char), NEW max
    PROVE  Expand(p, max) \in Seq(Segment)
  <1> DEFINE segments(parts) == [k \in DOMAIN parts |-> [text |-> parts[k], blank |-> k = 1]]
  <1>1. ASSUME NEW parts \in Seq(Seq(Char)) PROVE segments(parts) \in Seq(Segment)
    <2>1. Len(parts) \in Nat /\ DOMAIN parts = 1 .. Len(parts)
          /\ \A k \in 1 .. Len(parts) : parts[k] \in Seq(Char)
      OBVIOUS
    <2>2. segments(parts) \in [1 .. Len(parts) -> Segment]
      BY <2>1 DEF Segment
    <2> HIDE DEF segments
    <2>3. QED
      BY <2>1, <2>2, FunctionIsSeq
  <1>2. <<p>> \in Seq(Seq(Char))
    OBVIOUS
  <1>3. \E parts \in Seq(Seq(Char)) : Expand(p, max) = segments(parts)
    <2> HIDE DEF segments
    <2>1. Expand(p, max) \in {segments(<<p>>), segments(Sentences(p)), segments(Words(p))}
      BY DEF Expand, segments
    <2>2. QED
      BY <1>2, <2>1, SentencesTyped, WordsTyped
  <1>4. QED
    BY <1>1, <1>3

(* The segments of a reply, over all paragraphs, are segments.             *)
LEMMA SegmentsTyped ==
    ASSUME NEW t \in Seq(Char), NEW max
    PROVE  Segments(t, max) \in Seq(Segment)
  <1> DEFINE paragraphs == Paragraphs(Strip(t))
             expanded == [k \in DOMAIN paragraphs |-> Expand(paragraphs[k], max)]
  <1>1. paragraphs \in Seq(Seq(Char))
    BY StripTyped, ParagraphsTyped
  <1>2. Segments(t, max) = FlattenSeq(expanded)
    BY DEF Segments
  <1> HIDE DEF paragraphs
  <1>3. Len(paragraphs) \in Nat /\ DOMAIN paragraphs = 1 .. Len(paragraphs)
        /\ \A k \in 1 .. Len(paragraphs) : paragraphs[k] \in Seq(Char)
    BY <1>1
  <1>4. \A k \in DOMAIN paragraphs : Expand(paragraphs[k], max) \in Seq(Segment)
    BY <1>3, ExpandTyped
  <1>5. expanded \in [1 .. Len(paragraphs) -> Seq(Segment)]
    BY <1>3, <1>4
  <1> HIDE DEF expanded
  <1>6. expanded \in Seq(Seq(Segment))
    BY <1>3, <1>5, FunctionIsSeq
  <1>7. QED
    BY <1>2, <1>6, FlattenTyped

----------------------------------------------------------------------------
(* Packing the segments into messages.                                     *)

(* The messages that are finished are neither empty nor too long, and what *)
(* may still grow is not too long.                                         *)
Message(max) == {c \in Seq(Char) : Len(c) \in 1 .. max}
Packing(max) == {out \in [chunks : Seq(Message(max)), current : Seq(Char)] :
                    Len(out.current) <= max}

(* Flushing the current text adds a message that fits, or nothing.         *)
LEMMA FlushedFits ==
    ASSUME NEW max \in Nat, NEW out \in Packing(max)
    PROVE  Flushed(out.chunks, out.current) \in Seq(Message(max))
  <1>1. out.chunks \in Seq(Message(max)) /\ out.current \in Seq(Char) /\ Len(out.current) <= max
    BY DEF Packing
  <1>2. CASE out.current = << >>
    BY <1>1, <1>2 DEF Flushed
  <1>3. CASE out.current # << >>
    <2>1. Len(out.current) \in 1 .. max
      BY <1>1, <1>3, EmptySeq
    <2>2. out.current \in Message(max)
      BY <1>1, <2>1 DEF Message
    <2>3. Append(out.chunks, out.current) \in Seq(Message(max))
      BY <1>1, <2>2
    <2>4. QED
      BY <1>3, <2>3 DEF Flushed
  <1>4. QED
    BY <1>2, <1>3

(* A cut word: whole pieces of the limit's length, and less than that.     *)
LEMMA PiecesFit ==
    ASSUME NEW max \in Nat \ {0}, NEW w \in Seq(Char)
    PROVE  /\ FullPieces(w, max) \in Seq(Message(max))
           /\ LeftOver(w, max) \in Seq(Char) /\ Len(LeftOver(w, max)) <= max
  <1> DEFINE L == Len(w)
             n == L \div max
  <1>1. L \in Nat /\ n \in Nat /\ n * max <= L /\ L < n * max + max
    <2>1. L \in Nat
      OBVIOUS
    <2> HIDE DEF L
    <2>2. n \in Nat /\ n * max <= L /\ L < n * max + max
      BY <2>1
    <2>3. QED
      BY <2>1, <2>2
  <1>2. FullPieces(w, max) = [k \in 1 .. n |-> SubSeq(w, (k - 1) * max + 1, k * max)]
    BY DEF FullPieces
  <1>3. LeftOver(w, max) = SubSeq(w, n * max + 1, L)
    BY DEF LeftOver
  <1> HIDE DEF n
  <1>4. ASSUME NEW k \in 1 .. n
        PROVE  SubSeq(w, (k - 1) * max + 1, k * max) \in Message(max)
    <2> DEFINE from == (k - 1) * max + 1
               to == k * max
    <2>1. from \in Nat \ {0} /\ to \in Nat /\ to - from + 1 = max /\ from <= to
      <3>1. (k - 1) * max \in Nat /\ k * max = (k - 1) * max + max
        BY <1>1
      <3>2. QED
        BY <3>1
    <2>2. to <= L
      <3>1. n * max = k * max + (n - k) * max /\ (n - k) * max \in Nat /\ k * max \in Nat
            /\ n * max \in Nat
        BY <1>1
      <3>2. QED
        BY <1>1, <3>1
    <2> HIDE DEF from, to
    <2>3. SubSeq(w, from, to) \in Seq(Char) /\ Len(SubSeq(w, from, to)) = max
      BY <2>1, <2>2, SubSeqOf
    <2>4. SubSeq(w, from, to) \in Message(max)
      BY <2>3 DEF Message
    <2>5. QED
      BY <2>4 DEF from, to
  <1>5. FullPieces(w, max) \in Seq(Message(max))
    <2>1. FullPieces(w, max) \in [1 .. n -> Message(max)]
      BY <1>2, <1>4
    <2>2. QED
      BY <1>1, <2>1, FunctionIsSeq
  <1>6. LeftOver(w, max) \in Seq(Char) /\ Len(LeftOver(w, max)) <= max
    <2> DEFINE from == n * max + 1
    <2>1. from \in Nat \ {0} /\ from <= L + 1 /\ L - from + 1 < max
      <3>1. n * max \in Nat
        BY <1>1
      <3>2. QED
        BY <1>1, <3>1
    <2> HIDE DEF from
    <2>2. SubSeq(w, from, L) \in Seq(Char)
          /\ Len(SubSeq(w, from, L)) = IF from <= L THEN L - from + 1 ELSE 0
      BY <1>1, <2>1, SubSeqOf
    <2>3. QED
      BY <1>1, <1>3, <2>1, <2>2 DEF from
  <1>7. QED
    BY <1>5, <1>6

(* An inserted character is a text of length one.                          *)
LEMMA InsertedTyped ==
    ASSUME NEW kind \in Kind
    PROVE  Inserted(kind) \in Seq(Char) /\ Len(Inserted(kind)) = 1
  <1>1. [kind |-> kind, at |-> 0] \in Char
    BY DEF Char
  <1>2. QED
    BY <1>1 DEF Inserted

(* Packing a word leaves messages that fit.                                *)
LEMMA AddWordFits ==
    ASSUME NEW max \in Nat \ {0}, NEW out \in Packing(max), NEW word \in Seq(Char)
    PROVE  AddWord(out, word, max) \in Packing(max)
  <1> DEFINE candidate == IF out.current = << >> THEN word
                          ELSE out.current \o Inserted("space") \o word
             flushed == Flushed(out.chunks, out.current)
  <1>1. out.chunks \in Seq(Message(max)) /\ out.current \in Seq(Char)
    BY DEF Packing
  <1>2. candidate \in Seq(Char)
    <2>1. "space" \in Kind
      BY DEF Kind
    <2>2. Inserted("space") \in Seq(Char)
      BY <2>1, InsertedTyped
    <2>3. QED
      BY <1>1, <2>2
  <1>3. flushed \in Seq(Message(max))
    BY FlushedFits
  <1>4. FullPieces(word, max) \in Seq(Message(max)) /\ LeftOver(word, max) \in Seq(Char)
        /\ Len(LeftOver(word, max)) <= max
    BY PiecesFit
  <1>5. flushed \o FullPieces(word, max) \in Seq(Message(max))
    BY <1>3, <1>4
  <1>6. AddWord(out, word, max) =
           IF Len(candidate) <= max THEN [chunks |-> out.chunks, current |-> candidate]
           ELSE IF Len(word) <= max THEN [chunks |-> flushed, current |-> word]
           ELSE [chunks |-> flushed \o FullPieces(word, max), current |-> LeftOver(word, max)]
    BY DEF AddWord
  <1> HIDE DEF candidate, flushed
  <1>7. QED
    BY <1>1, <1>2, <1>3, <1>4, <1>5, <1>6 DEF Packing

(* What is packed word by word is a function of the words packed so far.   *)
LEMMA SplitLoop ==
    ASSUME NEW max \in Nat \ {0}, NEW t \in Seq(Char), NEW chunks \in Seq(Message(max))
    PROVE  \E split \in [0 .. Len(Words(t)) -> Packing(max)] :
              /\ SplitOversized(t, max, chunks) = split[Len(Words(t))]
              /\ split[0] = [chunks |-> chunks, current |-> << >>]
              /\ \A k \in 1 .. Len(Words(t)) : split[k] = AddWord(split[k - 1], Words(t)[k], max)
  <1> DEFINE words == Words(t)
             N == Len(words)
             base == [chunks |-> chunks, current |-> << >>]
             Def(split) == [k \in 0 .. N |-> IF k = 0 THEN base
                                             ELSE AddWord(split[k - 1], words[k], max)]
             f == CHOOSE split : split = Def(split)
             D == [k \in 1 .. N |-> [out \in Packing(max) |-> AddWord(out, words[k], max)]]
  <1>1. N \in Nat /\ \A k \in 1 .. N : words[k] \in Seq(Char)
    <2>1. words \in Seq(Seq(Char))
      BY WordsTyped
    <2> HIDE DEF words
    <2>2. QED
      BY <2>1
  <1>2. D \in Steps(Packing(max), N)
    <2>1. \A k \in 1 .. N, out \in Packing(max) : AddWord(out, words[k], max) \in Packing(max)
      BY <1>1, AddWordFits
    <2> HIDE DEF N, words
    <2>2. QED
      BY <2>1 DEF Steps
  <1>3. base \in Packing(max)
    <2>1. << >> \in Seq(Char) /\ Len(<< >>) <= max
      BY EmptySeq
    <2>2. QED
      BY <2>1 DEF Packing
  <1>4. PICK g : IsFold(g, base, D, N) /\ \A k \in 0 .. N : g[k] \in Packing(max)
    <2> HIDE DEF D, N, base
    <2>1. QED
      BY <1>1, <1>2, <1>3, FoldExists
  <1>5. g = Def(g)
    <2> HIDE DEF base, words, N
    <2>1. \A k \in 0 .. N : k # 0 => k - 1 \in 0 .. N /\ k \in 1 .. N
      BY <1>1
    <2>2. \A k \in 1 .. N : g[k - 1] \in Packing(max)
                            => D[k][g[k - 1]] = AddWord(g[k - 1], words[k], max)
      OBVIOUS
    <2> HIDE DEF D
    <2>3. \A k \in 0 .. N : (IF k = 0 THEN base ELSE D[k][g[k - 1]]) = Def(g)[k]
      BY <1>4, <2>1, <2>2
    <2>4. QED
      BY <1>4, <2>3 DEF IsFold
  <1>6. f = Def(f)
    <2> HIDE DEF Def
    <2>1. QED
      BY <1>5
  <1>7. SplitOversized(t, max, chunks) = f[N]
    BY DEF SplitOversized
  <1>8. /\ f = [k \in 0 .. N |-> f[k]] /\ f[0] = base
        /\ \A k \in 1 .. N : f[k] = AddWord(f[k - 1], words[k], max)
    <2>1. 0 \in 0 .. N /\ \A k \in 1 .. N : k \in 0 .. N /\ k # 0
      BY <1>1
    <2> HIDE DEF f, base, words, N
    <2>2. f = [k \in 0 .. N |-> f[k]] /\ \A k \in 0 .. N : f[k] = Def(f)[k]
      BY <1>6
    <2>3. QED
      BY <2>1, <2>2
  <1>9. \A k \in 0 .. N : f[k] \in Packing(max)
    <2> DEFINE T == {k \in 0 .. N : f[k] \in Packing(max)}
    <2> HIDE DEF f, base, words, N
    <2>1. 0 \in T
      BY <1>1, <1>3, <1>8
    <2>2. ASSUME NEW k \in 1 .. N, k - 1 \in T PROVE k \in T
      <3>1. f[k - 1] \in Packing(max) /\ words[k] \in Seq(Char) /\ k \in 0 .. N
        BY <1>1, <2>2
      <3>2. AddWord(f[k - 1], words[k], max) \in Packing(max)
        BY <3>1, AddWordFits
      <3>3. QED
        BY <1>8, <3>1, <3>2
    <2> HIDE DEF T
    <2>3. \A k \in 0 .. N : k \in T
      BY <1>1, <2>1, <2>2, UpTo
    <2>4. QED
      BY <2>3 DEF T
  <1>10. QED
    <2>1. f \in [0 .. N -> Packing(max)]
      <3> HIDE DEF f
      <3>1. QED
        BY <1>8, <1>9
    <2> HIDE DEF f
    <2>2. QED
      BY <1>7, <1>8, <2>1

(* _split_oversized_segment leaves messages that fit.                      *)
LEMMA SplitFits ==
    ASSUME NEW max \in Nat \ {0}, NEW t \in Seq(Char), NEW chunks \in Seq(Message(max))
    PROVE  SplitOversized(t, max, chunks) \in Packing(max)
  <1>1. Len(Words(t)) \in Nat
    <2>1. Words(t) \in Seq(Seq(Char))
      BY WordsTyped
    <2>2. QED
      BY <2>1
  <1>2. Len(Words(t)) \in 0 .. Len(Words(t))
    BY <1>1
  <1>3. PICK split \in [0 .. Len(Words(t)) -> Packing(max)] :
           SplitOversized(t, max, chunks) = split[Len(Words(t))]
    BY SplitLoop
  <1>4. QED
    BY <1>2, <1>3

(* What joins two segments is a text.                                      *)
LEMMA JoinerTyped ==
    ASSUME NEW s \in Segment
    PROVE  Joiner(s) \in Seq(Char)
  <1>1. Inserted("newline") \in Seq(Char) /\ Inserted("space") \in Seq(Char)
    <2>1. "newline" \in Kind /\ "space" \in Kind
      BY DEF Kind
    <2>2. QED
      BY <2>1, InsertedTyped
  <1>2. QED
    BY <1>1 DEF Joiner

(* Packing a segment leaves messages that fit, its joiner counted.         *)
LEMMA AddSegmentFits ==
    ASSUME NEW max \in Nat \ {0}, NEW out \in Packing(max), NEW s \in Segment
    PROVE  AddSegment(out, s, max) \in Packing(max)
  <1> DEFINE flushed == Flushed(out.chunks, out.current)
             grown == IF out.current = << >> THEN s.text ELSE out.current \o Joiner(s) \o s.text
  <1>1. out.chunks \in Seq(Message(max)) /\ out.current \in Seq(Char) /\ s.text \in Seq(Char)
    BY DEF Packing, Segment
  <1>2. flushed \in Seq(Message(max))
    BY FlushedFits
  <1>3. AddSegment(out, s, max) =
           IF Fits(out.current, s, max) THEN [chunks |-> out.chunks, current |-> grown]
           ELSE IF Len(s.text) <= max THEN [chunks |-> flushed, current |-> s.text]
           ELSE SplitOversized(s.text, max, flushed)
    BY DEF AddSegment
  <1>4. grown \in Seq(Char) /\ (Fits(out.current, s, max) => Len(grown) <= max)
    <2>1. Joiner(s) \in Seq(Char)
      BY JoinerTyped
    <2>2. CASE out.current = << >>
      BY <1>1, <2>2, EmptySeq DEF Fits
    <2>3. CASE out.current # << >>
      <3>1. /\ out.current \o Joiner(s) \in Seq(Char)
            /\ Len(out.current \o Joiner(s)) = Len(out.current) + Len(Joiner(s))
        BY <1>1, <2>1, ConcatProperties
      <3>2. /\ grown \in Seq(Char)
            /\ Len(grown) = Len(out.current) + Len(Joiner(s)) + Len(s.text)
        BY <1>1, <2>3, <3>1, ConcatProperties
      <3>3. Len(out.current) \in Nat /\ Len(Joiner(s)) \in Nat /\ Len(s.text) \in Nat
        BY <1>1, <2>1
      <3>4. Fits(out.current, s, max) =>
               Len(out.current) + Len(s.text) + Len(Joiner(s)) <= max
        BY <2>3 DEF Fits
      <3> DEFINE a == Len(out.current)
                 b == Len(Joiner(s))
                 c == Len(s.text)
      <3>5. a \in Nat /\ b \in Nat /\ c \in Nat /\ Len(grown) = a + b + c
        BY <3>2, <3>3
      <3>6. Fits(out.current, s, max) => a + c + b <= max
        BY <3>4
      <3> HIDE DEF grown, a, b, c
      <3>7. Fits(out.current, s, max) => Len(grown) <= max
        BY <3>5, <3>6
      <3>8. QED
        BY <3>2, <3>7
    <2>4. QED
      BY <2>2, <2>3
  <1> HIDE DEF grown, flushed
  <1>5. CASE Fits(out.current, s, max)
    BY <1>1, <1>3, <1>4, <1>5 DEF Packing
  <1>6. CASE ~Fits(out.current, s, max) /\ Len(s.text) <= max
    BY <1>1, <1>2, <1>3, <1>6 DEF Packing
  <1>7. CASE ~Fits(out.current, s, max) /\ ~(Len(s.text) <= max)
    BY <1>1, <1>2, <1>3, <1>7, SplitFits
  <1>8. QED
    BY <1>5, <1>6, <1>7

(* What is packed segment by segment is a function of those packed so far. *)
LEMMA PackedLoop ==
    ASSUME NEW max \in Nat \ {0}, NEW segments \in Seq(Segment)
    PROVE  \E packed \in [0 .. Len(segments) -> Packing(max)] :
              /\ Packed(segments, max) = packed[Len(segments)]
              /\ packed[0] = [chunks |-> << >>, current |-> << >>]
              /\ \A k \in 1 .. Len(segments) :
                    packed[k] = AddSegment(packed[k - 1], segments[k], max)
  <1> DEFINE N == Len(segments)
             base == [chunks |-> << >>, current |-> << >>]
             Def(packed) == [k \in 0 .. N |-> IF k = 0 THEN base
                                              ELSE AddSegment(packed[k - 1], segments[k], max)]
             f == CHOOSE packed : packed = Def(packed)
             D == [k \in 1 .. N |-> [out \in Packing(max) |-> AddSegment(out, segments[k], max)]]
  <1>1. N \in Nat /\ \A k \in 1 .. N : segments[k] \in Segment
    OBVIOUS
  <1>2. D \in Steps(Packing(max), N)
    <2>1. \A k \in 1 .. N, out \in Packing(max) :
             AddSegment(out, segments[k], max) \in Packing(max)
      BY <1>1, AddSegmentFits
    <2> HIDE DEF N
    <2>2. QED
      BY <2>1 DEF Steps
  <1>3. base \in Packing(max)
    <2>1. << >> \in Seq(Char) /\ Len(<< >>) <= max /\ << >> \in Seq(Message(max))
      BY EmptySeq
    <2>2. QED
      BY <2>1 DEF Packing
  <1>4. PICK g : IsFold(g, base, D, N) /\ \A k \in 0 .. N : g[k] \in Packing(max)
    <2> HIDE DEF D, N, base
    <2>1. QED
      BY <1>1, <1>2, <1>3, FoldExists
  <1>5. g = Def(g)
    <2> HIDE DEF base, N
    <2>1. \A k \in 0 .. N : k # 0 => k - 1 \in 0 .. N /\ k \in 1 .. N
      BY <1>1
    <2>2. \A k \in 1 .. N : g[k - 1] \in Packing(max)
                            => D[k][g[k - 1]] = AddSegment(g[k - 1], segments[k], max)
      OBVIOUS
    <2> HIDE DEF D
    <2>3. \A k \in 0 .. N : (IF k = 0 THEN base ELSE D[k][g[k - 1]]) = Def(g)[k]
      BY <1>4, <2>1, <2>2
    <2>4. QED
      BY <1>4, <2>3 DEF IsFold
  <1>6. f = Def(f)
    <2> HIDE DEF Def
    <2>1. QED
      BY <1>5
  <1>7. Packed(segments, max) = f[N]
    BY DEF Packed
  <1>8. /\ f = [k \in 0 .. N |-> f[k]] /\ f[0] = base
        /\ \A k \in 1 .. N : f[k] = AddSegment(f[k - 1], segments[k], max)
    <2>1. 0 \in 0 .. N /\ \A k \in 1 .. N : k \in 0 .. N /\ k # 0
      BY <1>1
    <2> HIDE DEF f, base, N
    <2>2. f = [k \in 0 .. N |-> f[k]] /\ \A k \in 0 .. N : f[k] = Def(f)[k]
      BY <1>6
    <2>3. QED
      BY <2>1, <2>2
  <1>9. \A k \in 0 .. N : f[k] \in Packing(max)
    <2> DEFINE T == {k \in 0 .. N : f[k] \in Packing(max)}
    <2> HIDE DEF f, base, N
    <2>1. 0 \in T
      BY <1>1, <1>3, <1>8
    <2>2. ASSUME NEW k \in 1 .. N, k - 1 \in T PROVE k \in T
      <3>1. f[k - 1] \in Packing(max) /\ segments[k] \in Segment /\ k \in 0 .. N
        BY <1>1, <2>2
      <3>2. AddSegment(f[k - 1], segments[k], max) \in Packing(max)
        BY <3>1, AddSegmentFits
      <3>3. QED
        BY <1>8, <3>1, <3>2
    <2> HIDE DEF T
    <2>3. \A k \in 0 .. N : k \in T
      BY <1>1, <2>1, <2>2, UpTo
    <2>4. QED
      BY <2>3 DEF T
  <1>10. QED
    <2>1. f \in [0 .. N -> Packing(max)]
      <3> HIDE DEF f
      <3>1. QED
        BY <1>8, <1>9
    <2> HIDE DEF f
    <2>2. QED
      BY <1>7, <1>8, <2>1

(* What chunk_message returns are messages.                                *)
LEMMA ChunkMessageFits ==
    ASSUME NEW t \in Seq(Char), NEW max \in Nat \ {0}
    PROVE  ChunkMessage(t, max) \in Seq(Message(max))
  <1> DEFINE segments == Segments(t, max)
             N == Len(segments)
  <1>1. segments \in Seq(Segment)
    BY SegmentsTyped
  <1> HIDE DEF segments
  <1>2. N \in 0 .. N
    BY <1>1
  <1>3. PICK packed \in [0 .. N -> Packing(max)] : Packed(segments, max) = packed[N]
    BY <1>1, PackedLoop
  <1>4. Packed(segments, max) \in Packing(max)
    BY <1>2, <1>3
  <1>5. QED
    BY <1>4, FlushedFits DEF ChunkMessage, segments


(* No message is empty or longer than the limit, for a reply of any length *)
(* and any limit: chunk_message cuts, joins and flushes within it.         *)
THEOREM ChunksBounded == Spec => []ChunksFit
  <1>1. IInv => ChunksFit
    <2> SUFFICES ASSUME IInv, Done("chunk")
                 PROVE  \A k \in DOMAIN Out : Len(Out[k]) \in 1 .. job.max
      BY DEF ChunksFit
    <2>1. job.text \in Seq(Char) /\ job.max \in Nat \ {0} /\ Out = ChunkMessage(job.text, job.max)
      BY OutOf, JobAssumption DEF ResultOf
    <2>2. Out \in Seq(Message(job.max))
      BY <2>1, ChunkMessageFits
    <2>3. \A k \in DOMAIN Out : Out[k] \in Message(job.max)
      BY <2>2
    <2>4. QED
      BY <2>3 DEF Message
  <1>2. QED
    BY <1>1, ResultInvariance, PTL

----------------------------------------------------------------------------
(* The letters of a text, and where they are.                              *)

(* The rank of an element among S: the elements up to it.                  *)
Rank(S, i) == Cardinality(Below(S, i))

(* A greater element has a greater rank.                                   *)
LEMMA RankGrows ==
    ASSUME NEW S \in SUBSET Nat, IsFiniteSet(S), NEW i \in S, NEW j \in Nat, i < j
    PROVE  /\ Rank(S, i) \in 1 .. Cardinality(S) /\ Cardinality(S) \in Nat
           /\ j \in S => Rank(S, i) < Rank(S, j)
  <1>1. Below(S, i) \in SUBSET S /\ i \in Below(S, i)
    BY DEF Below
  <1>2. IsFiniteSet(Below(S, i)) /\ Cardinality(Below(S, i)) <= Cardinality(S)
    BY <1>1, FS_Subset
  <1>3. Cardinality(Below(S, i)) \in Nat /\ Cardinality(S) \in Nat
    BY <1>2, FS_CardinalityType
  <1>4. Cardinality(Below(S, i)) # 0
    BY <1>1, <1>2, FS_EmptySet
  <1>5. ASSUME j \in S PROVE Rank(S, i) < Rank(S, j)
    <2>1. Below(S, i) \in SUBSET Below(S, j) /\ j \in Below(S, j) /\ j \notin Below(S, i)
          /\ Below(S, j) \in SUBSET S
      <3>1. \A a \in S : a \in Nat
        OBVIOUS
      <3>2. \A a \in S : a <= i => a <= j
        BY <3>1
      <3>3. j <= j /\ ~(j <= i)
        BY <3>1
      <3>4. QED
        BY <1>5, <3>2, <3>3 DEF Below
    <2>2. IsFiniteSet(Below(S, j))
      BY <2>1, FS_Subset
    <2>3. Cardinality(Below(S, j)) \in Nat
      BY <2>2, FS_CardinalityType
    <2>4. /\ Cardinality(Below(S, i)) <= Cardinality(Below(S, j))
          /\ Cardinality(Below(S, i)) # Cardinality(Below(S, j))
      BY <2>1, <2>2, FS_Subset
    <2>5. QED
      BY <1>3, <2>3, <2>4 DEF Rank
  <1>6. QED
    BY <1>2, <1>3, <1>4, <1>5 DEF Rank

(* Ascending puts every element at its rank.                               *)
LEMMA AscendingAtRank ==
    ASSUME NEW S \in SUBSET Nat, IsFiniteSet(S), NEW i \in S
    PROVE  Rank(S, i) \in 1 .. Cardinality(S) /\ Ascending(S)[Rank(S, i)] = i
  <1>1. i \in Nat /\ i + 1 \in Nat /\ i < i + 1
    OBVIOUS
  <1>2. Rank(S, i) \in 1 .. Cardinality(S)
    BY <1>1, RankGrows
  <1> DEFINE a == Ascending(S)[Rank(S, i)]
  <1>3. a \in S /\ Rank(S, a) = Rank(S, i)
    BY <1>2, AscendingIn DEF Rank
  <1> HIDE DEF a
  <1>4. a \in Nat
    BY <1>3
  <1>5. ~(a < i)
    <2> SUFFICES ASSUME a < i PROVE FALSE
      OBVIOUS
    <2>1. Rank(S, a) < Rank(S, i)
      BY <1>1, <1>3, RankGrows
    <2>2. Rank(S, i) \in Nat
      BY <1>2
    <2>3. QED
      BY <1>3, <2>1, <2>2
  <1>6. ~(i < a)
    <2> SUFFICES ASSUME i < a PROVE FALSE
      OBVIOUS
    <2>1. Rank(S, i) < Rank(S, a)
      BY <1>3, <1>4, RankGrows
    <2>2. Rank(S, i) \in Nat
      BY <1>2
    <2>3. QED
      BY <1>3, <2>1, <2>2
  <1>7. a = i
    BY <1>1, <1>4, <1>5, <1>6
  <1>8. QED
    BY <1>2, <1>7 DEF a

(* Nothing of S lies between two neighbours in Ascending.                  *)
LEMMA AscendingGrows ==
    ASSUME NEW S \in SUBSET Nat, IsFiniteSet(S),
           NEW k \in 1 .. Cardinality(S), NEW i \in S
    PROVE  /\ Ascending(S)[k] \in S
           /\ i < Ascending(S)[k] => \E m \in 1 .. Cardinality(S) : m < k /\ i = Ascending(S)[m]
           /\ Ascending(S)[k] < i => k + 1 \in 1 .. Cardinality(S) /\ Ascending(S)[k + 1] <= i
           /\ k + 1 \in 1 .. Cardinality(S) => Ascending(S)[k] < Ascending(S)[k + 1]
  <1> DEFINE n == Cardinality(S)
             asc == Ascending(S)
  <1>1. n \in Nat /\ \A m \in 1 .. n : asc[m] \in S /\ Rank(S, asc[m]) = m
    BY AscendingIn DEF Rank
  <1>2. \A j \in S : Rank(S, j) \in 1 .. n /\ asc[Rank(S, j)] = j
    BY AscendingAtRank
  <1>3. \A a, b \in S : a < b => Rank(S, a) < Rank(S, b)
    BY RankGrows
  <1> HIDE DEF n, asc
  <1>4. asc[k] \in S /\ Rank(S, asc[k]) = k /\ k \in 1 .. n
    BY <1>1 DEF n
  <1>5. ASSUME i < asc[k] PROVE \E m \in 1 .. n : m < k /\ i = asc[m]
    BY <1>2, <1>3, <1>4, <1>5
  <1>6. ASSUME asc[k] < i PROVE k + 1 \in 1 .. n /\ asc[k + 1] <= i
    <2>1. k < Rank(S, i) /\ Rank(S, i) \in 1 .. n
      BY <1>2, <1>3, <1>4, <1>6
    <2>2. k + 1 \in 1 .. n
      BY <1>1, <1>4, <2>1
    <2>3. asc[k + 1] \in S /\ Rank(S, asc[k + 1]) = k + 1
      BY <1>1, <2>2
    <2>4. ~(i < asc[k + 1])
      <3> SUFFICES ASSUME i < asc[k + 1] PROVE FALSE
        OBVIOUS
      <3>1. Rank(S, i) < k + 1
        BY <1>3, <2>3
      <3>2. QED
        BY <1>4, <2>1, <3>1
    <2>5. i \in Nat /\ asc[k + 1] \in Nat
      BY <2>3
    <2>6. QED
      BY <2>2, <2>4, <2>5
  <1>7. ASSUME k + 1 \in 1 .. n PROVE asc[k] < asc[k + 1]
    <2>1. asc[k + 1] \in S /\ Rank(S, asc[k + 1]) = k + 1
      BY <1>1, <1>7
    <2>2. asc[k] # asc[k + 1]
      BY <1>4, <2>1
    <2>3. ~(asc[k + 1] < asc[k])
      <3> SUFFICES ASSUME asc[k + 1] < asc[k] PROVE FALSE
        OBVIOUS
      <3>1. k + 1 < k
        BY <1>3, <1>4, <2>1
      <3>2. QED
        BY <1>4, <3>1
    <2>4. asc[k] \in Nat /\ asc[k + 1] \in Nat
      BY <1>4, <2>1
    <2>5. QED
      BY <2>2, <2>3, <2>4
  <1>8. QED
    BY <1>4, <1>5, <1>6, <1>7 DEF n, asc

(* As many elements, further up.                                           *)
LEMMA ShiftedSize ==
    ASSUME NEW T \in SUBSET Nat, IsFiniteSet(T), NEW n \in Nat
    PROVE  /\ IsFiniteSet({j + n : j \in T})
           /\ Cardinality({j + n : j \in T}) = Cardinality(T)
  <1> DEFINE U == {j + n : j \in T}
             f == [j \in T |-> j + n]
  <1>1. f \in [T -> U] /\ \A u \in U : \E j \in T : f[j] = u
    OBVIOUS
  <1>2. \A a, b \in T : f[a] = f[b] => a = b
    <2>1. \A a \in T : a \in Nat /\ f[a] = a + n
      OBVIOUS
    <2> HIDE DEF f
    <2>2. QED
      BY <2>1
  <1> HIDE DEF f
  <1>3. f \in Bijection(T, U)
    <2>1. DOMAIN f = T
      BY <1>1
    <2>2. IsInjective(f)
      BY <1>2, <2>1 DEF IsInjective
    <2>3. QED
      BY <1>1, <2>2 DEF Bijection, Injection, Surjection
  <1>4. QED
    BY <1>3, FS_Bijection DEF ExistsBijection

(* The elements of T, moved up by m.                                       *)
Above(T, m) == {j + m : j \in T}

(* The ranks in a set that goes on above m with a set moved up by m.       *)
LEMMA JoinedRanks ==
    ASSUME NEW m \in Nat, NEW n \in Nat, NEW S \in SUBSET (1 .. m), NEW T \in SUBSET (1 .. n)
    PROVE  /\ Cardinality(S \cup Above(T, m)) = Cardinality(S) + Cardinality(T)
           /\ \A i \in S : Rank(S \cup Above(T, m), i) = Rank(S, i)
           /\ \A j \in T : Rank(S \cup Above(T, m), j + m) = Cardinality(S) + Rank(T, j)
  <1> DEFINE Up(W) == {j + m : j \in W}
             U == S \cup Above(T, m)
  <1>1. /\ S \in SUBSET Nat /\ T \in SUBSET Nat /\ IsFiniteSet(S) /\ IsFiniteSet(T)
        /\ \A i \in S : i <= m
    <2>1. IsFiniteSet(S) /\ IsFiniteSet(T)
      BY AscendingOf
    <2>2. QED
      BY <2>1
  <1>2. Cardinality(S) \in Nat /\ Cardinality(T) \in Nat
    BY <1>1, FS_CardinalityType
  <1>3. ASSUME NEW W \in SUBSET T
        PROVE  IsFiniteSet(S \cup Up(W)) /\ Cardinality(S \cup Up(W)) = Cardinality(S) + Cardinality(W)
    <2>1. W \in SUBSET Nat /\ IsFiniteSet(W)
      BY <1>1, FS_Subset
    <2>2. IsFiniteSet(Up(W)) /\ Cardinality(Up(W)) = Cardinality(W)
      BY <2>1, ShiftedSize
    <2>3. S \cap Up(W) = {}
      <3>1. \A j \in W : ~(j + m <= m)
        <4>1. \A j \in W : j >= 1 /\ j \in Nat
          OBVIOUS
        <4>2. QED
          BY <4>1
      <3>2. QED
        BY <1>1, <3>1
    <2>4. Cardinality(S \cup Up(W)) = Cardinality(S) + Cardinality(Up(W)) - 0
      <3> HIDE DEF Up
      <3>1. Cardinality(S \cap Up(W)) = 0
        BY <2>3, FS_EmptySet
      <3>2. QED
        BY <1>1, <2>2, <3>1, FS_Union
    <2>5. IsFiniteSet(S \cup Up(W))
      <3> HIDE DEF Up
      <3>1. QED
        BY <1>1, <2>2, FS_Union
    <2>6. Cardinality(W) \in Nat
      BY <2>1, FS_CardinalityType
    <2>7. QED
      BY <1>2, <2>2, <2>4, <2>5, <2>6
  <1>4. U = S \cup Up(T)
    BY DEF Above
  <1>5. ASSUME NEW i \in S PROVE Rank(U, i) = Rank(S, i)
    <2>1. \A j \in T : ~(j + m <= i)
      <3>1. \A j \in T : j >= 1 /\ j \in Nat
        OBVIOUS
      <3>2. i \in Nat /\ i <= m
        OBVIOUS
      <3>3. QED
        BY <3>1, <3>2
    <2>2. Below(U, i) = Below(S, i)
      BY <1>4, <2>1 DEF Below
    <2>3. QED
      BY <2>2 DEF Rank
  <1>6. ASSUME NEW j \in T PROVE Rank(U, j + m) = Cardinality(S) + Rank(T, j)
    <2>1. Below(T, j) \in SUBSET T
      BY DEF Below
    <2>2. Below(U, j + m) = S \cup Up(Below(T, j))
      <3>1. \A i \in S : i <= j + m
        <4>1. j \in Nat /\ \A i \in S : i \in Nat /\ i <= m
          OBVIOUS
        <4>2. QED
          BY <4>1
      <3>2. \A a \in T : a + m <= j + m <=> a <= j
        BY <1>1
      <3>3. QED
        BY <1>4, <3>1, <3>2 DEF Below
    <2> HIDE DEF Up
    <2>3. QED
      BY <1>3, <2>1, <2>2 DEF Rank
  <1>7. Cardinality(U) = Cardinality(S) + Cardinality(T)
    BY <1>3, <1>4
  <1>8. QED
    BY <1>5, <1>6, <1>7

----------------------------------------------------------------------------
(* The letters of a text, by where they were in the input.                 *)

LetterAt(t) == {i \in DOMAIN t : t[i].kind \in {"letter"}}
Letters(t) == Places(t, {"letter"})

(* The letters of a text, listed by their ranks.                           *)
LEMMA LettersAre ==
    ASSUME NEW t \in Seq(Char)
    PROVE  /\ LetterAt(t) \in SUBSET (1 .. Len(t)) /\ Len(t) \in Nat
           /\ Cardinality(LetterAt(t)) \in Nat
           /\ Letters(t) \in Seq(Nat) /\ Len(Letters(t)) = Cardinality(LetterAt(t))
           /\ \A i \in LetterAt(t) :
                 /\ Rank(LetterAt(t), i) \in 1 .. Cardinality(LetterAt(t))
                 /\ Letters(t)[Rank(LetterAt(t), i)] = t[i].at
  <1> DEFINE S == LetterAt(t)
             n == Cardinality(S)
             asc == Ascending(S)
  <1>1. S \in SUBSET (1 .. Len(t)) /\ Len(t) \in Nat
    BY DEF LetterAt
  <1>2. S \in SUBSET Nat /\ IsFiniteSet(S)
    BY <1>1, AscendingOf
  <1>3. n \in Nat /\ asc \in [1 .. n -> S]
    BY <1>2, AscendingIn
  <1>4. Letters(t) = [k \in DOMAIN Picked(t, S) |-> Picked(t, S)[k].at]
    BY DEF Letters, Places, LetterAt
  <1>5. Picked(t, S) = [k \in DOMAIN asc |-> t[asc[k]]]
    BY DEF Picked
  <1>6. ASSUME NEW i \in S PROVE Rank(S, i) \in 1 .. n /\ asc[Rank(S, i)] = i
    BY <1>2, AscendingAtRank
  <1> HIDE DEF S, n, asc
  <1>7. Letters(t) = [k \in 1 .. n |-> t[asc[k]].at]
    BY <1>3, <1>4, <1>5
  <1>8. \A k \in 1 .. n : t[asc[k]].at \in Nat
    <2>1. \A k \in 1 .. n : t[asc[k]] \in Char
      <3>1. \A k \in 1 .. n : asc[k] \in 1 .. Len(t)
        BY <1>1, <1>3
      <3>2. \A i \in 1 .. Len(t) : t[i] \in Char
        OBVIOUS
      <3>3. QED
        BY <3>1, <3>2
    <2>2. QED
      BY <2>1 DEF Char
  <1>9. Letters(t) \in [1 .. n -> Nat]
    BY <1>7, <1>8
  <1>10. Letters(t) \in Seq(Nat) /\ Len(Letters(t)) = n
    BY <1>3, <1>9, FunctionIsSeq
  <1>11. \A i \in S : Rank(S, i) \in 1 .. n /\ Letters(t)[Rank(S, i)] = t[i].at
    BY <1>6, <1>7
  <1>12. QED
    BY <1>1, <1>3, <1>10, <1>11 DEF S, n

(* The letters of one text after the other.                                *)
LEMMA LettersJoin ==
    ASSUME NEW s \in Seq(Char), NEW t \in Seq(Char)
    PROVE  Letters(s \o t) = Letters(s) \o Letters(t)
  <1> DEFINE m == Len(s)
             n == Len(t)
             S == LetterAt(s)
             T == LetterAt(t)
             U == LetterAt(s \o t)
             cs == Cardinality(S)
             ct == Cardinality(T)
  <1>1. s \o t \in Seq(Char) /\ Len(s \o t) = m + n /\ m \in Nat /\ n \in Nat
        /\ \A i \in 1 .. m + n : (s \o t)[i] = IF i <= m THEN s[i] ELSE t[i - m]
    BY ConcatProperties
  <1>2. /\ S \in SUBSET (1 .. m) /\ T \in SUBSET (1 .. n) /\ U \in SUBSET (1 .. m + n)
        /\ cs \in Nat /\ ct \in Nat
    BY <1>1, LettersAre
  <1>3. U = S \cup Above(T, m)
    <2>1. \A i \in 1 .. m : i \in U <=> i \in S
      <3>1. \A i \in 1 .. m : i \in 1 .. m + n /\ (s \o t)[i] = s[i]
        BY <1>1
      <3>2. DOMAIN (s \o t) = 1 .. m + n /\ DOMAIN s = 1 .. m
        BY <1>1
      <3>3. QED
        BY <3>1, <3>2 DEF LetterAt
    <2>2. \A j \in 1 .. n : j + m \in U <=> j \in T
      <3>1. \A j \in 1 .. n : j + m \in 1 .. m + n /\ (s \o t)[j + m] = t[j]
        <4>1. \A j \in 1 .. n : j + m \in 1 .. m + n /\ ~(j + m <= m) /\ (j + m) - m = j
          BY <1>1
        <4>2. QED
          BY <1>1, <4>1
      <3>2. DOMAIN (s \o t) = 1 .. m + n /\ DOMAIN t = 1 .. n
        BY <1>1
      <3>3. QED
        BY <3>1, <3>2 DEF LetterAt
    <2>3. \A i \in 1 .. m + n : i \in 1 .. m \/ \E j \in 1 .. n : i = j + m
      <3>1. ASSUME NEW i \in 1 .. m + n, i \notin 1 .. m PROVE i - m \in 1 .. n /\ i = (i - m) + m
        BY <1>1, <3>1
      <3>2. QED
        BY <3>1
    <2>4. \A i \in 1 .. m : i \in 1 .. m + n
      BY <1>1
    <2> HIDE DEF S, T, U, m, n
    <2>5. QED
      BY <1>2, <2>1, <2>2, <2>3, <2>4 DEF Above
  <1>4. /\ Cardinality(U) = cs + ct
        /\ \A i \in S : Rank(U, i) = Rank(S, i)
        /\ \A j \in T : Rank(U, j + m) = cs + Rank(T, j)
    <2>1. S \in SUBSET (1 .. m) /\ T \in SUBSET (1 .. n) /\ m \in Nat /\ n \in Nat
      BY <1>1, <1>2
    <2> HIDE DEF m, n, S, T, U
    <2>2. /\ Cardinality(S \cup Above(T, m)) = Cardinality(S) + Cardinality(T)
          /\ \A i \in S : Rank(S \cup Above(T, m), i) = Rank(S, i)
          /\ \A j \in T : Rank(S \cup Above(T, m), j + m) = Cardinality(S) + Rank(T, j)
      BY <2>1, JoinedRanks
    <2>3. QED
      BY <1>3, <2>2
  <1>5. /\ Letters(s) \in Seq(Nat) /\ Len(Letters(s)) = cs
        /\ Letters(t) \in Seq(Nat) /\ Len(Letters(t)) = ct
        /\ Letters(s \o t) \in Seq(Nat) /\ Len(Letters(s \o t)) = cs + ct
    BY <1>1, <1>4, LettersAre
  <1>6. /\ Letters(s) \o Letters(t) \in Seq(Nat) /\ Len(Letters(s) \o Letters(t)) = cs + ct
        /\ \A k \in 1 .. cs + ct : (Letters(s) \o Letters(t))[k] =
              IF k <= cs THEN Letters(s)[k] ELSE Letters(t)[k - cs]
    <2> DEFINE ls == Letters(s)
               lt == Letters(t)
    <2>1. ls \in Seq(Nat) /\ lt \in Seq(Nat) /\ Len(ls) = cs /\ Len(lt) = ct
      BY <1>5
    <2> HIDE DEF ls, lt, cs, ct
    <2>2. /\ ls \o lt \in Seq(Nat) /\ Len(ls \o lt) = Len(ls) + Len(lt)
          /\ \A k \in 1 .. Len(ls) + Len(lt) : (ls \o lt)[k] =
                IF k <= Len(ls) THEN ls[k] ELSE lt[k - Len(ls)]
      BY <2>1, ConcatProperties
    <2>3. QED
      BY <2>1, <2>2 DEF ls, lt
  <1>7. ASSUME NEW k \in 1 .. cs + ct
        PROVE  Letters(s \o t)[k] = (Letters(s) \o Letters(t))[k]
    <2>1. CASE k <= cs
      <3>1. PICK i \in S : Rank(S, i) = k
        <4>1. k \in 1 .. Cardinality(S)
          BY <1>2, <2>1
        <4>2. S \in SUBSET (1 .. m) /\ m \in Nat
          BY <1>1, <1>2
        <4> HIDE DEF S, m
        <4>3. S \in SUBSET Nat /\ IsFiniteSet(S)
          BY <4>2, AscendingOf
        <4>4. QED
          BY <4>1, <4>3, RankExists DEF Rank
      <3>2. Letters(s)[k] = s[i].at
        BY <3>1, LettersAre
      <3>3. i \in U /\ Rank(U, i) = k
        BY <1>3, <1>4, <3>1
      <3>4. Letters(s \o t)[k] = (s \o t)[i].at
        BY <1>1, <3>3, LettersAre
      <3>5. (s \o t)[i] = s[i]
        <4>1. i \in 1 .. m
          BY <1>2
        <4>2. i \in 1 .. m + n /\ i <= m
          BY <1>1, <4>1
        <4>3. QED
          BY <1>1, <4>2
      <3>6. QED
        BY <1>6, <2>1, <3>2, <3>4, <3>5
    <2>2. CASE ~(k <= cs)
      <3>0. k - cs \in 1 .. ct /\ cs + (k - cs) = k
        BY <1>2, <2>2
      <3>1. PICK j \in T : Rank(T, j) = k - cs
        <4>1. k - cs \in 1 .. Cardinality(T)
          BY <1>2, <3>0
        <4>2. T \in SUBSET (1 .. n) /\ n \in Nat
          BY <1>1, <1>2
        <4> HIDE DEF T, n
        <4>3. T \in SUBSET Nat /\ IsFiniteSet(T)
          BY <4>2, AscendingOf
        <4>4. QED
          BY <4>1, <4>3, RankExists DEF Rank
      <3>2. Letters(t)[k - cs] = t[j].at
        BY <3>1, LettersAre
      <3>3. j + m \in U /\ Rank(U, j + m) = k
        BY <1>3, <1>4, <3>0, <3>1 DEF Above
      <3>4. Letters(s \o t)[k] = (s \o t)[j + m].at
        BY <1>1, <3>3, LettersAre
      <3>5. (s \o t)[j + m] = t[j]
        <4>1. j \in 1 .. n
          BY <1>2
        <4>2. j + m \in 1 .. m + n /\ ~(j + m <= m) /\ (j + m) - m = j
          BY <1>1, <4>1
        <4>3. QED
          BY <1>1, <4>2
      <3>6. QED
        BY <1>6, <2>2, <3>2, <3>4, <3>5
    <2>3. QED
      BY <2>1, <2>2
  <1>8. QED
    BY <1>5, <1>6, <1>7, SeqEqual

(* A text without letters has an empty list of them.                       *)
LEMMA NoLetters ==
    ASSUME NEW t \in Seq(Char), LetterAt(t) = {}
    PROVE  Letters(t) = << >>
  <1>1. Letters(t) \in Seq(Nat) /\ Len(Letters(t)) = 0
    BY LettersAre, FS_EmptySet
  <1>2. QED
    BY <1>1

(* There is one flattening.                                                *)
LEMMA FlattenIs ==
    ASSUME NEW A, NEW seqs \in Seq(Seq(A)), NEW f, IsFlattening(f, seqs)
    PROVE  FlattenSeq(seqs) = f[Len(seqs)]
  <1> DEFINE N == Len(seqs)
  <1>1. PICK g \in [0 .. N -> Seq(A)] : IsFlattening(g, seqs) /\ FlattenSeq(seqs) = g[N]
    BY FlattenLoop
  <1> DEFINE T == {k \in 0 .. N : f[k] = g[k]}
  <1>2. N \in Nat
    OBVIOUS
  <1>3. 0 \in T
    BY <1>1, <1>2 DEF IsFlattening
  <1>4. ASSUME NEW k \in 1 .. N, k - 1 \in T PROVE k \in T
    <2>1. k \in 0 .. N /\ f[k - 1] = g[k - 1]
      BY <1>2, <1>4
    <2>2. f[k] = f[k - 1] \o seqs[k] /\ g[k] = g[k - 1] \o seqs[k]
      BY <1>1 DEF IsFlattening
    <2>3. QED
      BY <2>1, <2>2
  <1>5. N \in T
    <2> HIDE DEF T
    <2>1. \A k \in 0 .. N : k \in T
      BY <1>2, <1>3, <1>4, UpTo
    <2>2. QED
      BY <1>2, <2>1
  <1>6. QED
    BY <1>1, <1>5

(* Flattening a single sequence gives that sequence.                       *)
LEMMA FlattenOne ==
    ASSUME NEW A, NEW x \in Seq(A)
    PROVE  FlattenSeq(<<x>>) = x
  <1> DEFINE f == [k \in 0 .. 1 |-> IF k = 0 THEN << >> ELSE x]
  <1>1. <<x>> \in Seq(Seq(A)) /\ Len(<<x>>) = 1 /\ <<x>>[1] = x
    OBVIOUS
  <1>2. f[0] = << >> /\ f[1] = x
    OBVIOUS
  <1>3. << >> \o x = x
    BY ConcatEmptySeq
  <1>4. IsFlattening(f, <<x>>)
    <2> HIDE DEF f
    <2>1. ASSUME NEW k \in 1 .. Len(<<x>>) PROVE f[k] = f[k - 1] \o <<x>>[k]
      <3>1. k = 1 /\ k - 1 = 0
        BY <1>1
      <3>2. QED
        BY <1>1, <1>2, <1>3, <3>1
    <2>2. QED
      BY <1>2, <2>1 DEF IsFlattening
  <1> HIDE DEF f
  <1>5. QED
    BY <1>1, <1>2, <1>4, FlattenIs

(* Flattening distributes over concatenation.                              *)
LEMMA FlattenJoin ==
    ASSUME NEW A, NEW s \in Seq(Seq(A)), NEW t \in Seq(Seq(A))
    PROVE  FlattenSeq(s \o t) = FlattenSeq(s) \o FlattenSeq(t)
  <1> DEFINE m == Len(s)
             n == Len(t)
  <1>1. PICK f \in [0 .. m -> Seq(A)] : IsFlattening(f, s) /\ FlattenSeq(s) = f[m]
    BY FlattenLoop
  <1>2. PICK g \in [0 .. n -> Seq(A)] : IsFlattening(g, t) /\ FlattenSeq(t) = g[n]
    BY FlattenLoop
  <1>3. m \in Nat /\ n \in Nat /\ s \o t \in Seq(Seq(A)) /\ Len(s \o t) = m + n
        /\ \A k \in 1 .. m + n : (s \o t)[k] = IF k <= m THEN s[k] ELSE t[k - m]
    BY ConcatProperties
  <1>4. f[0] = << >> /\ \A k \in 1 .. m : f[k] = f[k - 1] \o s[k]
    BY <1>1 DEF IsFlattening
  <1>5. g[0] = << >> /\ \A k \in 1 .. n : g[k] = g[k - 1] \o t[k]
    BY <1>2 DEF IsFlattening
  <1>6. f[m] \in Seq(A) /\ \A k \in 0 .. n : g[k] \in Seq(A)
    <2> HIDE DEF m, n
    <2>1. m \in 0 .. m
      BY <1>3
    <2>2. QED
      BY <2>1
  <1> DEFINE h == [k \in 0 .. m + n |-> IF k <= m THEN f[k] ELSE f[m] \o g[k - m]]
  <1> HIDE DEF m, n
  <1>7. ASSUME NEW k \in 0 .. m PROVE h[k] = f[k]
    <2>1. k \in 0 .. m + n /\ k <= m
      BY <1>3
    <2>2. QED
      BY <2>1
  <1>8. ASSUME NEW j \in 0 .. n PROVE h[m + j] = f[m] \o g[j]
    <2>1. m + j \in 0 .. m + n /\ (m + j) - m = j
      BY <1>3
    <2>2. CASE j = 0
      <3>1. m + j = m /\ m \in 0 .. m
        BY <1>3, <2>2
      <3>2. h[m + j] = f[m] /\ g[j] = << >>
        BY <1>5, <1>7, <2>2, <3>1
      <3>3. QED
        BY <1>6, <3>2, ConcatEmptySeq
    <2>3. CASE j # 0
      <3>1. ~(m + j <= m)
        BY <1>3, <2>3
      <3>2. QED
        BY <2>1, <3>1
    <2>4. QED
      BY <2>2, <2>3
  <1> HIDE DEF h
  <1>9. h[0] = << >>
    <2>1. 0 \in 0 .. m
      BY ONLY <1>3
    <2>2. QED
      BY <1>4, <1>7, <2>1
  <1>10. ASSUME NEW k \in 1 .. m + n PROVE h[k] = h[k - 1] \o (s \o t)[k]
    <2>1. CASE k <= m
      <3>1. k \in 1 .. m /\ k \in 0 .. m /\ k - 1 \in 0 .. m
        BY <1>3, <2>1
      <3>2. h[k] = f[k] /\ h[k - 1] = f[k - 1]
        BY <1>7, <3>1
      <3>3. (s \o t)[k] = s[k]
        BY <1>3, <2>1
      <3>4. QED
        BY <1>4, <3>1, <3>2, <3>3
    <2>2. CASE ~(k <= m)
      <3>1. PICK j \in 1 .. n : k = m + j /\ k - m = j
        <4>1. k - m \in 1 .. n /\ k = m + (k - m)
          BY <1>3, <2>2
        <4>2. QED
          BY <4>1
      <3>2. j \in 0 .. n /\ j - 1 \in 0 .. n /\ k - 1 = m + (j - 1)
        BY <1>3, <3>1
      <3>3. h[k] = f[m] \o g[j] /\ h[k - 1] = f[m] \o g[j - 1]
        BY <1>8, <3>1, <3>2
      <3>4. (s \o t)[k] = t[j]
        BY <1>3, <2>2, <3>1
      <3>5. t[j] \in Seq(A)
        <4>1. j \in 1 .. Len(t)
          BY DEF n
        <4>2. QED
          BY <4>1, ElementOfSeq
      <3>6. f[m] \o (g[j - 1] \o t[j]) = (f[m] \o g[j - 1]) \o t[j]
        <4>1. f[m] \in Seq(A) /\ g[j - 1] \in Seq(A)
          BY <1>6, <3>2
        <4> DEFINE x == f[m]
                   y == g[j - 1]
                   z == t[j]
        <4>2. x \in Seq(A) /\ y \in Seq(A) /\ z \in Seq(A)
          BY <3>5, <4>1
        <4> HIDE DEF x, y, z
        <4>3. x \o (y \o z) = (x \o y) \o z
          BY <4>2, ConcatAssociative, SMTT(60)
        <4>4. QED
          BY <4>3 DEF x, y, z
      <3>7. g[j] = g[j - 1] \o t[j]
        BY <1>5
      <3>8. QED
        BY <3>3, <3>4, <3>6, <3>7
    <2>3. QED
      BY <2>1, <2>2
  <1>11. IsFlattening(h, s \o t)
    BY <1>3, <1>9, <1>10 DEF IsFlattening
  <1>12. FlattenSeq(s \o t) = h[m + n]
    BY <1>3, <1>11, FlattenIs
  <1>13. h[m + n] = f[m] \o g[n]
    <2>1. n \in 0 .. n
      BY <1>3
    <2>2. QED
      BY <1>8, <2>1
  <1>14. QED
    BY <1>1, <1>2, <1>12, <1>13 DEF m, n

(* Letters, part by part.                                                  *)
LEMMA SameLetters ==
    ASSUME NEW s \in Seq(Seq(Char)), NEW t \in Seq(Seq(Char)), Len(s) = Len(t),
           \A k \in 1 .. Len(s) : Letters(s[k]) = Letters(t[k])
    PROVE  Letters(FlattenSeq(s)) = Letters(FlattenSeq(t))
  <1> DEFINE N == Len(s)
  <1>1. PICK f \in [0 .. N -> Seq(Char)] : IsFlattening(f, s) /\ FlattenSeq(s) = f[N]
    BY FlattenLoop
  <1>2. PICK g \in [0 .. N -> Seq(Char)] : IsFlattening(g, t) /\ FlattenSeq(t) = g[N]
    BY FlattenLoop
  <1> DEFINE T == {k \in 0 .. N : Letters(f[k]) = Letters(g[k])}
  <1>3. N \in Nat
    OBVIOUS
  <1>4. 0 \in T
    BY <1>1, <1>2, <1>3 DEF IsFlattening
  <1>5. ASSUME NEW k \in 1 .. N, k - 1 \in T PROVE k \in T
    <2>1. k \in 0 .. N /\ k - 1 \in 0 .. N /\ Letters(f[k - 1]) = Letters(g[k - 1])
      BY <1>3, <1>5
    <2>2. f[k] = f[k - 1] \o s[k] /\ g[k] = g[k - 1] \o t[k]
      BY <1>1, <1>2 DEF IsFlattening
    <2>3. f[k - 1] \in Seq(Char) /\ g[k - 1] \in Seq(Char) /\ s[k] \in Seq(Char) /\ t[k] \in Seq(Char)
      <3>1. f[k - 1] \in Seq(Char) /\ g[k - 1] \in Seq(Char)
        BY <2>1
      <3>2. s[k] \in Seq(Char) /\ t[k] \in Seq(Char)
        BY ElementOfSeq
      <3>3. QED
        BY <3>1, <3>2
    <2>4. /\ Letters(f[k]) = Letters(f[k - 1]) \o Letters(s[k])
          /\ Letters(g[k]) = Letters(g[k - 1]) \o Letters(t[k])
      BY <2>2, <2>3, LettersJoin
    <2>5. QED
      BY <2>1, <2>4
  <1>6. N \in T
    <2> HIDE DEF T
    <2>1. \A k \in 0 .. N : k \in T
      BY <1>3, <1>4, <1>5, UpTo
    <2>2. N \in 0 .. N
      BY <1>3
    <2> HIDE DEF N
    <2>3. QED
      BY <2>1, <2>2
  <1>7. QED
    BY <1>1, <1>2, <1>6

(* The letters of a part of a text are those of its two parts.             *)
LEMMA LettersOfParts ==
    ASSUME NEW t \in Seq(Char), NEW i \in 1 .. Len(t) + 1,
           NEW j \in i - 1 .. Len(t), NEW k \in j .. Len(t)
    PROVE  Letters(SubSeq(t, i, k)) = Letters(SubSeq(t, i, j)) \o Letters(SubSeq(t, j + 1, k))
  <1>1. Len(t) \in Nat
    OBVIOUS
  <1>2. /\ i \in Nat \ {0} /\ j \in Nat /\ j <= Len(t) /\ j + 1 \in Nat \ {0}
        /\ k \in Nat /\ k <= Len(t)
    BY <1>1
  <1>3. SubSeq(t, i, j) \in Seq(Char) /\ SubSeq(t, j + 1, k) \in Seq(Char)
    BY <1>2, SubSeqOf
  <1>4. SubSeq(t, i, k) = SubSeq(t, i, j) \o SubSeq(t, j + 1, k)
    BY ConcatAdjacentSubSeq
  <1>5. QED
    BY <1>3, <1>4, LettersJoin

(* Ascending skips no element of its set.                                  *)
LEMMA AscendingGaps ==
    ASSUME NEW n \in Nat, NEW S \in SUBSET (1 .. n)
    PROVE  /\ Cardinality(S) \in Nat /\ Len(Ascending(S)) = Cardinality(S)
           /\ \A k \in 1 .. Cardinality(S) : Ascending(S)[k] \in S
           /\ \A k \in 1 .. Cardinality(S), i \in S :
                 i < Ascending(S)[k] => k - 1 \in 1 .. Cardinality(S) /\ i <= Ascending(S)[k - 1]
           /\ \A i \in S : Cardinality(S) # 0 /\ i <= Ascending(S)[Cardinality(S)]
           /\ \A k \in 1 .. Cardinality(S) :
                 k # 1 => k - 1 \in 1 .. Cardinality(S) /\ Ascending(S)[k - 1] < Ascending(S)[k]
  <1> DEFINE c == Cardinality(S)
             p == Ascending(S)
  <1>1. S \in SUBSET Nat /\ IsFiniteSet(S) /\ Len(p) = c
    BY AscendingOf
  <1>2. c \in Nat /\ \A k \in 1 .. c : p[k] \in S
    BY <1>1, AscendingIn
  <1>3. \A k \in 1 .. c, i \in S :
           /\ i < p[k] => \E m \in 1 .. c : m < k /\ i = p[m]
           /\ p[k] < i => k + 1 \in 1 .. c /\ p[k + 1] <= i
           /\ k + 1 \in 1 .. c => p[k] < p[k + 1]
    BY <1>1, AscendingGrows
  <1> HIDE DEF c, p
  <1>4. ASSUME NEW k \in 1 .. c, NEW i \in S, i < p[k]
        PROVE  k - 1 \in 1 .. c /\ i <= p[k - 1]
    <2>1. PICK m \in 1 .. c : m < k
      BY <1>3, <1>4
    <2>2. k - 1 \in 1 .. c /\ (k - 1) + 1 = k
      BY <1>2, <2>1
    <2>3. ~(p[k - 1] < i)
      <3> SUFFICES ASSUME p[k - 1] < i PROVE FALSE
        OBVIOUS
      <3>1. p[k] <= i
        BY <1>3, <2>2
      <3>2. p[k] \in Nat /\ i \in Nat
        BY <1>1, <1>2
      <3>3. QED
        BY <1>4, <3>1, <3>2
    <2>4. p[k - 1] \in Nat /\ i \in Nat
      BY <1>1, <1>2, <2>2
    <2>5. QED
      BY <2>2, <2>3, <2>4
  <1>5. ASSUME NEW i \in S PROVE c # 0 /\ i <= p[c]
    <2>1. c # 0
      BY <1>1, FS_EmptySet DEF c
    <2>2. c \in 1 .. c /\ c + 1 \notin 1 .. c
      BY <1>2, <2>1
    <2>3. ~(p[c] < i)
      BY <1>3, <2>2
    <2>4. p[c] \in Nat /\ i \in Nat
      BY <1>1, <1>2, <2>2
    <2>5. QED
      BY <2>1, <2>3, <2>4
  <1>6. ASSUME NEW k \in 1 .. c, k # 1 PROVE k - 1 \in 1 .. c /\ p[k - 1] < p[k]
    <2>1. k - 1 \in 1 .. c /\ (k - 1) + 1 = k
      BY <1>2, <1>6
    <2>2. QED
      BY <1>2, <1>3, <2>1
  <1>7. QED
    BY <1>1, <1>2, <1>4, <1>5, <1>6 DEF c, p

(* A flattening grows only at parts that are not empty.                    *)
LEMMA FlattenGap ==
    ASSUME NEW seqs \in Seq(Seq(Char)), NEW f, IsFlattening(f, seqs),
           \A k \in 0 .. Len(seqs) : f[k] \in Seq(Char)
    PROVE  \A x \in 0 .. Len(seqs) : \A y \in x .. Len(seqs) :
              (\A k \in x + 1 .. y : seqs[k] = << >>) => f[y] = f[x]
  <1> SUFFICES ASSUME NEW x \in 0 .. Len(seqs), NEW y \in x .. Len(seqs),
                      \A k \in x + 1 .. y : seqs[k] = << >>
               PROVE  f[y] = f[x]
    OBVIOUS
  <1> DEFINE T == {d \in 0 .. y - x : f[x + d] = f[x]}
  <1>1. Len(seqs) \in Nat /\ x \in Nat /\ y \in Nat /\ y - x \in Nat /\ x <= y /\ y <= Len(seqs)
    OBVIOUS
  <1>2. 0 \in T
    BY <1>1
  <1>3. ASSUME NEW d \in 1 .. y - x, d - 1 \in T PROVE d \in T
    <2>1. /\ x + d \in 1 .. Len(seqs) /\ x + d \in x + 1 .. y
          /\ (x + d) - 1 = x + (d - 1) /\ d \in 0 .. y - x
      <3>1. d \in Nat /\ 1 <= d /\ d <= y - x
        BY <1>1
      <3>2. QED
        BY ONLY <1>1, <3>1
    <2>2. f[x + d] = f[x + (d - 1)] \o seqs[x + d] /\ seqs[x + d] = << >>
      BY <2>1 DEF IsFlattening
    <2>3. f[x + (d - 1)] = f[x] /\ f[x] \in Seq(Char)
      BY <1>3
    <2>4. f[x + d] = f[x]
      BY <2>2, <2>3, ConcatEmptySeq
    <2>5. QED
      BY <2>1, <2>4
  <1>4. y - x \in T
    <2> HIDE DEF T
    <2>1. \A d \in 0 .. y - x : d \in T
      BY <1>1, <1>2, <1>3, UpTo
    <2>2. QED
      BY <1>1, <2>1
  <1>5. x + (y - x) = y
    BY <1>1
  <1>6. QED
    BY <1>4, <1>5

(* Dropping empty parts does not change the text they form.                *)
LEMMA NonEmptyFlat ==
    ASSUME NEW parts \in Seq(Seq(Char))
    PROVE  FlattenSeq(NonEmpty(parts)) = FlattenSeq(parts)
  <1> DEFINE N == Len(parts)
             S == {k \in DOMAIN parts : parts[k] # << >>}
             c == Cardinality(S)
             p == Ascending(S)
             at(k) == IF k = 0 THEN 0 ELSE p[k]
  <1>1. N \in Nat /\ S \in SUBSET (1 .. N) /\ \A k \in 1 .. N : k \notin S => parts[k] = << >>
    OBVIOUS
  <1>2. /\ c \in Nat /\ Len(p) = c /\ \A k \in 1 .. c : p[k] \in S
        /\ \A k \in 1 .. c, i \in S : i < p[k] => k - 1 \in 1 .. c /\ i <= p[k - 1]
        /\ \A i \in S : c # 0 /\ i <= p[c]
        /\ \A k \in 1 .. c : k # 1 => k - 1 \in 1 .. c /\ p[k - 1] < p[k]
    <2> HIDE DEF S
    <2>1. QED
      BY <1>1, AscendingGaps
  <1>3. DOMAIN p = 1 .. c
    BY <1>2 DEF Ascending
  <1>4. NonEmpty(parts) = [k \in 1 .. c |-> parts[p[k]]]
    <2>1. NonEmpty(parts) = [k \in DOMAIN p |-> parts[p[k]]]
      BY DEF NonEmpty, Picked
    <2>2. QED
      BY <1>3, <2>1
  <1>5. NonEmpty(parts) \in Seq(Seq(Char))
    BY NonEmptyTyped
  <1>6. PICK f \in [0 .. N -> Seq(Char)] : IsFlattening(f, parts) /\ FlattenSeq(parts) = f[N]
    BY FlattenLoop
  <1> HIDE DEF N, S, c, p
  <1>7. Len(NonEmpty(parts)) = c
    BY <1>2, <1>4, <1>5
  <1>8. ASSUME NEW k \in 0 .. c
        PROVE  at(k) \in 0 .. N /\ (k # 0 => at(k) \in S)
    <2>1. CASE k = 0
      BY <1>1, <2>1
    <2>2. CASE k # 0
      <3>1. k \in 1 .. c
        BY <1>2, <2>2
      <3>2. p[k] \in S /\ p[k] \in 1 .. N
        BY <1>1, <1>2, <3>1
      <3>3. p[k] \in 0 .. N
        BY <1>1, <3>2
      <3>4. QED
        BY <2>2, <3>2, <3>3
    <2>3. QED
      BY <2>1, <2>2
  <1>9. ASSUME NEW k \in 1 .. c
        PROVE  /\ at(k - 1) \in 0 .. p[k] - 1 /\ p[k] \in 1 .. N
               /\ \A i \in at(k - 1) + 1 .. p[k] - 1 : i \notin S
    <2>1. p[k] \in 1 .. N
      BY <1>1, <1>2
    <2>2. CASE k = 1
      <3>1. at(k - 1) = 0
        BY <2>2
      <3>2. \A i \in S : ~(i < p[k])
        BY <1>2, <2>2
      <3>3. QED
        BY <1>1, <2>1, <3>1, <3>2
    <2>3. CASE k # 1
      <3>1. k - 1 \in 1 .. c /\ p[k - 1] < p[k] /\ at(k - 1) = p[k - 1]
        BY <1>2, <2>3
      <3>2. p[k - 1] \in 1 .. N
        BY <1>1, <1>2, <3>1
      <3>3. \A i \in S : i < p[k] => i <= p[k - 1]
        BY <1>2
      <3>4. p[k - 1] \in 0 .. p[k] - 1
        BY <1>1, <2>1, <3>1, <3>2
      <3>5. \A i \in p[k - 1] + 1 .. p[k] - 1 : i < p[k] /\ ~(i <= p[k - 1])
        <4>1. p[k - 1] \in Int /\ p[k] \in Int
          <5>1. \A i \in 1 .. N : i \in Int
            BY <1>1
          <5>2. QED
            BY <2>1, <3>2, <5>1
        <4>2. QED
          BY ONLY <4>1
      <3>6. QED
        BY <2>1, <3>1, <3>3, <3>4, <3>5
    <2>4. QED
      BY <2>2, <2>3
  <1> DEFINE h == [k \in 0 .. c |-> f[at(k)]]
  <1>10. ASSUME NEW k \in 1 .. c PROVE h[k] = h[k - 1] \o NonEmpty(parts)[k]
    <2> DEFINE x == at(k - 1)
               y == p[k] - 1
    <2>1. k \in 0 .. c /\ k - 1 \in 0 .. c /\ k # 0 /\ at(k) = p[k]
      BY <1>2
    <2>2. x \in 0 .. N /\ y \in x .. N /\ y + 1 = p[k] /\ p[k] \in 1 .. N
          /\ \A i \in x + 1 .. y : i \notin S
      <3>1. x \in 0 .. y /\ p[k] \in 1 .. N /\ \A i \in x + 1 .. y : i \notin S
        BY <1>9
      <3>2. y = p[k] - 1
        OBVIOUS
      <3> HIDE DEF x, y
      <3>3. p[k] \in Int /\ x \in Nat /\ x <= y /\ p[k] <= N /\ 1 <= p[k]
        BY <1>1, <3>1
      <3>4. y + 1 = p[k] /\ x \in 0 .. N /\ y \in x .. N
        <4> DEFINE q == p[k]
        <4>1. /\ N \in Nat /\ y = q - 1
              /\ q \in Int /\ x \in Nat /\ x <= y /\ q <= N /\ 1 <= q
          BY <1>1, <3>2, <3>3
        <4> HIDE DEF N, q
        <4>2. y + 1 = q /\ x \in 0 .. N /\ y \in x .. N
          BY ONLY <4>1
        <4>3. QED
          BY <4>2 DEF q
      <3>5. QED
        BY <3>1, <3>4
    <2> HIDE DEF x, y
    <2>3. \A i \in x + 1 .. y : parts[i] = << >>
      <3>1. \A i \in x + 1 .. y : i \in 1 .. N
        BY <1>1, <2>2
      <3>2. QED
        BY <1>1, <2>2, <3>1
    <2>4. f[y] = f[x]
      <3>1. IsFlattening(f, parts) /\ \A i \in 0 .. Len(parts) : f[i] \in Seq(Char)
        BY <1>6 DEF N
      <3>2. \A i \in 0 .. Len(parts) : \A j \in i .. Len(parts) :
               (\A m \in i + 1 .. j : parts[m] = << >>) => f[j] = f[i]
        BY <3>1, FlattenGap
      <3>3. x \in 0 .. Len(parts) /\ y \in x .. Len(parts)
        BY <2>2 DEF N
      <3>4. QED
        BY <2>3, <3>2, <3>3
    <2>5. f[p[k]] = f[p[k] - 1] \o parts[p[k]]
      BY <1>6, <2>2 DEF IsFlattening, N
    <2>6. h[k] = f[p[k]] /\ h[k - 1] = f[x]
      BY <2>1 DEF x
    <2>7. NonEmpty(parts)[k] = parts[p[k]]
      BY <1>4
    <2>8. QED
      BY <2>4, <2>5, <2>6, <2>7 DEF y
  <1>11. h[0] = << >>
    BY <1>2, <1>6 DEF IsFlattening
  <1> HIDE DEF h
  <1>12. IsFlattening(h, NonEmpty(parts))
    BY <1>7, <1>10, <1>11 DEF IsFlattening
  <1>13. FlattenSeq(NonEmpty(parts)) = h[c]
    BY <1>5, <1>7, <1>12, FlattenIs
  <1>14. h[c] = f[N]
    <2> DEFINE x == at(c)
    <2>1. c \in 0 .. c /\ x \in 0 .. N /\ N \in x .. N
      BY <1>1, <1>2, <1>8
    <2>2. \A i \in S : i <= x
      BY <1>2
    <2>3. \A i \in x + 1 .. N : i \in 1 .. N /\ i \notin S
      BY <1>1, <2>1, <2>2
    <2>4. h[c] = f[x]
      BY <2>1 DEF h
    <2> HIDE DEF x
    <2>5. \A i \in x + 1 .. N : parts[i] = << >>
      BY <1>1, <2>3
    <2>6. f[N] = f[x]
      <3>1. IsFlattening(f, parts) /\ \A i \in 0 .. Len(parts) : f[i] \in Seq(Char)
        BY <1>6 DEF N
      <3>2. \A i \in 0 .. Len(parts) : \A j \in i .. Len(parts) :
               (\A m \in i + 1 .. j : parts[m] = << >>) => f[j] = f[i]
        BY <3>1, FlattenGap
      <3>3. x \in 0 .. Len(parts) /\ N \in x .. Len(parts)
        BY <2>1 DEF N
      <3>4. QED
        BY <2>5, <3>2, <3>3
    <2>7. QED
      BY <2>4, <2>6
  <1>15. QED
    BY <1>6, <1>13, <1>14

(* A part of a text in which no letter stands has none.                    *)
LEMMA NoLettersIn ==
    ASSUME NEW t \in Seq(Char), NEW i \in Nat \ {0}, NEW j \in Nat, j <= Len(t),
           \A x \in LetterAt(t) : ~(i <= x /\ x <= j)
    PROVE  Letters(SubSeq(t, i, j)) = << >>
  <1> DEFINE s == SubSeq(t, i, j)
  <1>1. /\ s \in Seq(Char) /\ Len(s) = IF i <= j THEN j - i + 1 ELSE 0
        /\ \A k \in 1 .. j - i + 1 : s[k] = t[i + k - 1]
    BY SubSeqOf
  <1> HIDE DEF s
  <1>2. LetterAt(s) = {}
    <2> SUFFICES ASSUME NEW k \in LetterAt(s) PROVE FALSE
      OBVIOUS
    <2>1. k \in 1 .. Len(s) /\ s[k].kind \in {"letter"}
      BY <1>1 DEF LetterAt
    <2>2. k \in 1 .. j - i + 1 /\ i + k - 1 \in 1 .. Len(t)
      BY <1>1, <2>1
    <2>3. i + k - 1 \in LetterAt(t)
      BY <1>1, <2>1, <2>2 DEF LetterAt
    <2>4. i <= i + k - 1 /\ i + k - 1 <= j
      BY <2>2
    <2>5. QED
      BY <2>3, <2>4
  <1>3. QED
    BY <1>1, <1>2, NoLetters DEF s

(* Stripping white space keeps the letters.                                *)
LEMMA StripKeeps ==
    ASSUME NEW t \in Seq(Char)
    PROVE  Letters(Strip(t)) = Letters(t)
  <1> DEFINE keep == {i \in DOMAIN t : t[i].kind \notin Whitespace}
             L == Len(t)
  <1>1. keep \in SUBSET Nat /\ L \in Nat /\ \A i \in keep : i \in 1 .. L /\ i <= L
    OBVIOUS
  <1>2. Strip(t) = IF keep = {} THEN << >> ELSE SubSeq(t, Min(keep), Max(keep))
    BY DEF Strip
  <1>3. LetterAt(t) \subseteq keep
    BY DEF LetterAt, Whitespace
  <1> HIDE DEF keep, L
  <1>4. CASE keep = {}
    <2>1. Letters(t) = << >>
      BY <1>3, <1>4, NoLetters
    <2>2. << >> \in Seq(Char) /\ LetterAt(<< >>) = {}
      BY DEF LetterAt
    <2>3. Letters(<< >>) = << >>
      BY <2>2, NoLetters
    <2>4. QED
      BY <1>2, <1>4, <2>1, <2>3
  <1>5. CASE keep # {}
    <2> DEFINE a == Min(keep)
               b == Max(keep)
    <2>1. /\ a \in keep /\ \A y \in keep : a <= y
          /\ b \in keep /\ \A y \in keep : y <= b
      BY <1>1, <1>5, MinIsLeast, MaxIsGreatest
    <2> HIDE DEF a, b
    <2>2. a \in 1 .. L /\ b \in a .. L
      BY <1>1, <2>1
    <2>3. \A x \in LetterAt(t) : a <= x /\ x <= b /\ x \in Nat
      BY <1>1, <1>3, <2>1
    <2>4. Letters(SubSeq(t, 1, a - 1)) = << >>
      <3>1. a - 1 \in Nat /\ a - 1 <= L /\ 1 \in Nat \ {0}
        BY <1>1, <2>2
      <3>2. \A x \in LetterAt(t) : ~(1 <= x /\ x <= a - 1)
        BY <2>2, <2>3
      <3>3. QED
        BY <3>1, <3>2, NoLettersIn DEF L
    <2>5. Letters(SubSeq(t, b + 1, L)) = << >>
      <3>1. b + 1 \in Nat \ {0} /\ L \in Nat /\ L <= L
        BY <1>1, <2>2
      <3>2. \A x \in LetterAt(t) : ~(b + 1 <= x /\ x <= L)
        BY <1>1, <2>2, <2>3
      <3>3. QED
        BY <3>1, <3>2, NoLettersIn DEF L
    <2>6. Letters(SubSeq(t, 1, L)) = Letters(SubSeq(t, 1, a - 1)) \o Letters(SubSeq(t, a, L))
      <3>1. /\ 1 \in 1 .. L + 1 /\ a - 1 \in 1 - 1 .. L /\ L \in a - 1 .. L
            /\ (a - 1) + 1 = a
        BY <1>1, <2>2
      <3>2. Letters(SubSeq(t, 1, L)) =
               Letters(SubSeq(t, 1, a - 1)) \o Letters(SubSeq(t, (a - 1) + 1, L))
        BY <3>1, LettersOfParts DEF L
      <3>3. QED
        BY <3>1, <3>2
    <2>7. Letters(SubSeq(t, a, L)) = Letters(SubSeq(t, a, b)) \o Letters(SubSeq(t, b + 1, L))
      <3>1. a \in 1 .. L + 1 /\ b \in a - 1 .. L /\ L \in b .. L
        BY <1>1, <2>2
      <3>2. QED
        BY <3>1, LettersOfParts DEF L
    <2>8. SubSeq(t, 1, L) = t
      BY SubSeqFull DEF L
    <2>9. Letters(SubSeq(t, a, b)) \in Seq(Nat)
      <3>1. a \in Nat \ {0} /\ b \in Nat /\ b <= L
        BY <1>1, <2>2
      <3>2. SubSeq(t, a, b) \in Seq(Char)
        BY <3>1, SubSeqOf DEF L
      <3>3. QED
        BY <3>2, LettersAre
    <2>10. Letters(t) = Letters(SubSeq(t, a, b))
      <3>1. Letters(SubSeq(t, a, L)) = Letters(SubSeq(t, a, b))
        BY <2>5, <2>7, <2>9, ConcatEmptySeq
      <3>2. QED
        BY <2>4, <2>6, <2>8, <2>9, <3>1, ConcatEmptySeq
    <2>11. QED
      BY <1>2, <1>5, <2>10 DEF a, b
  <1>6. QED
    BY <1>4, <1>5

(* Stripping each part keeps the letters.                                  *)
LEMMA StrippedKeeps ==
    ASSUME NEW parts \in Seq(Seq(Char))
    PROVE  Letters(FlattenSeq(Stripped(parts))) = Letters(FlattenSeq(parts))
  <1>1. Stripped(parts) \in Seq(Seq(Char)) /\ Len(Stripped(parts)) = Len(parts)
    BY StrippedTyped
  <1>2. ASSUME NEW k \in 1 .. Len(Stripped(parts))
        PROVE  Letters(Stripped(parts)[k]) = Letters(parts[k])
    <2>1. k \in 1 .. Len(parts)
      BY <1>1
    <2>2. parts[k] \in Seq(Char)
      BY <2>1, ElementOfSeq
    <2>3. Stripped(parts)[k] = Strip(parts[k])
      BY <2>1 DEF Stripped
    <2>4. QED
      BY <2>2, <2>3, StripKeeps
  <1>3. QED
    BY <1>1, <1>2, SameLetters

(* Parts that leave out no letter, from a[k] to e[k] each.                 *)
LEMMA PartsKeep ==
    ASSUME NEW t \in Seq(Char), NEW parts \in Seq(Seq(Char)), NEW a, NEW e, e[0] = 0,
           \A k \in 0 .. Len(parts) : e[k] \in 0 .. Len(t),
           \A k \in 1 .. Len(parts) :
              /\ a[k] \in 1 .. Len(t) /\ e[k - 1] < a[k] /\ a[k] <= e[k]
              /\ parts[k] = SubSeq(t, a[k], e[k])
              /\ \A x \in LetterAt(t) : ~(e[k - 1] < x /\ x < a[k]),
           \A x \in LetterAt(t) : ~(e[Len(parts)] < x)
    PROVE  Letters(FlattenSeq(parts)) = Letters(t)
  <1> DEFINE N == Len(parts)
             L == Len(t)
  <1>1. N \in Nat /\ L \in Nat
    OBVIOUS
  <1>2. PICK f \in [0 .. N -> Seq(Char)] : IsFlattening(f, parts) /\ FlattenSeq(parts) = f[N]
    BY FlattenLoop
  <1>3. \A x \in LetterAt(t) : x \in Nat /\ 1 <= x /\ x <= L
    BY LettersAre
  <1> DEFINE T == {k \in 0 .. N : Letters(f[k]) = Letters(SubSeq(t, 1, e[k]))}
  <1>4. 0 \in T
    <2>1. << >> \in Seq(Char) /\ LetterAt(<< >>) = {}
      BY DEF LetterAt
    <2>2. Letters(<< >>) = << >>
      BY <2>1, NoLetters
    <2>3. SubSeq(t, 1, 0) = << >>
      BY SubSeqEmpty
    <2>4. f[0] = << >> /\ 0 \in 0 .. N
      BY <1>1, <1>2 DEF IsFlattening
    <2>5. QED
      BY <2>2, <2>3, <2>4
  <1>5. ASSUME NEW k \in 1 .. N, k - 1 \in T PROVE k \in T
    <2> DEFINE d == e[k - 1]
               m == a[k]
               n == e[k]
    <2>1. /\ k - 1 \in 0 .. N /\ k \in 0 .. N
          /\ Letters(f[k - 1]) = Letters(SubSeq(t, 1, d))
      BY <1>1, <1>5
    <2>2. /\ d \in 0 .. L /\ m \in 1 .. L /\ n \in 0 .. L /\ d < m /\ m <= n
          /\ parts[k] = SubSeq(t, m, n)
          /\ \A x \in LetterAt(t) : ~(d < x /\ x < m)
      BY <2>1
    <2>3. f[k] = f[k - 1] \o parts[k] /\ f[k - 1] \in Seq(Char) /\ parts[k] \in Seq(Char)
      <3>1. f[k - 1] \in Seq(Char)
        BY <2>1
      <3>2. parts[k] \in Seq(Char)
        BY ElementOfSeq
      <3>3. QED
        BY <1>2, <3>1, <3>2 DEF IsFlattening
    <2>4. Letters(f[k]) = Letters(SubSeq(t, 1, d)) \o Letters(SubSeq(t, m, n))
      <3>1. Letters(f[k]) = Letters(f[k - 1]) \o Letters(parts[k])
        BY <2>3, LettersJoin
      <3>2. QED
        BY <2>1, <2>2, <3>1
    <2> HIDE DEF d, m, n, L
    <2>5. Letters(SubSeq(t, 1, n)) = Letters(SubSeq(t, 1, m - 1)) \o Letters(SubSeq(t, m, n))
      <3>1. /\ 1 \in 1 .. L + 1 /\ m - 1 \in 1 - 1 .. L /\ n \in m - 1 .. L
            /\ (m - 1) + 1 = m
        BY <1>1, <2>2
      <3>2. Letters(SubSeq(t, 1, n)) =
               Letters(SubSeq(t, 1, m - 1)) \o Letters(SubSeq(t, (m - 1) + 1, n))
        BY <3>1, LettersOfParts DEF L
      <3>3. QED
        BY <3>1, <3>2
    <2>6. Letters(SubSeq(t, 1, m - 1)) = Letters(SubSeq(t, 1, d)) \o Letters(SubSeq(t, d + 1, m - 1))
      <3>1. 1 \in 1 .. L + 1 /\ d \in 1 - 1 .. L /\ m - 1 \in d .. L
        BY <1>1, <2>2
      <3>2. QED
        BY <3>1, LettersOfParts DEF L
    <2>7. Letters(SubSeq(t, d + 1, m - 1)) = << >>
      <3>1. d + 1 \in Nat \ {0} /\ m - 1 \in Nat /\ m - 1 <= L
        BY <1>1, <2>2
      <3>2. \A x \in LetterAt(t) : ~(d + 1 <= x /\ x <= m - 1)
        <4>1. SUFFICES ASSUME NEW x \in LetterAt(t) PROVE ~(d + 1 <= x /\ x <= m - 1)
          OBVIOUS
        <4>2. d \in Nat /\ m \in Nat /\ x \in Nat /\ ~(d < x /\ x < m)
          BY <1>1, <1>3, <2>2
        <4>3. QED
          BY <4>2
      <3>3. QED
        BY <3>1, <3>2, NoLettersIn DEF L
    <2>8. Letters(SubSeq(t, 1, d)) \in Seq(Nat)
      <3>1. 1 \in Nat \ {0} /\ d \in Nat /\ d <= L
        BY <1>1, <2>2
      <3>2. SubSeq(t, 1, d) \in Seq(Char)
        BY <3>1, SubSeqOf DEF L
      <3>3. QED
        BY <3>2, LettersAre
    <2>9. Letters(SubSeq(t, 1, m - 1)) = Letters(SubSeq(t, 1, d))
      BY <2>6, <2>7, <2>8, ConcatEmptySeq
    <2>10. Letters(f[k]) = Letters(SubSeq(t, 1, n))
      BY <2>4, <2>5, <2>9
    <2>11. QED
      BY <2>1, <2>10 DEF n
  <1>6. N \in T
    <2> HIDE DEF T
    <2>1. \A k \in 0 .. N : k \in T
      BY <1>1, <1>4, <1>5, UpTo
    <2>2. N \in 0 .. N
      BY <1>1
    <2> HIDE DEF N
    <2>3. QED
      BY <2>1, <2>2
  <1>7. Letters(SubSeq(t, 1, e[N])) = Letters(t)
    <2> DEFINE n == e[N]
    <2>1. n \in 0 .. L /\ \A x \in LetterAt(t) : ~(n < x)
      BY <1>1
    <2> HIDE DEF n, L
    <2>2. Letters(SubSeq(t, 1, L)) = Letters(SubSeq(t, 1, n)) \o Letters(SubSeq(t, n + 1, L))
      <3>1. 1 \in 1 .. L + 1 /\ n \in 1 - 1 .. L /\ L \in n .. L
        BY <1>1, <2>1
      <3>2. QED
        BY <3>1, LettersOfParts DEF L
    <2>3. Letters(SubSeq(t, n + 1, L)) = << >>
      <3>1. n + 1 \in Nat \ {0} /\ L \in Nat /\ L <= L
        BY <1>1, <2>1
      <3>2. \A x \in LetterAt(t) : ~(n + 1 <= x /\ x <= L)
        BY <1>3, <2>1
      <3>3. QED
        BY <3>1, <3>2, NoLettersIn DEF L
    <2>4. Letters(SubSeq(t, 1, n)) \in Seq(Nat)
      <3>1. 1 \in Nat \ {0} /\ n \in Nat /\ n <= L
        BY <1>1, <2>1
      <3>2. SubSeq(t, 1, n) \in Seq(Char)
        BY <3>1, SubSeqOf DEF L
      <3>3. QED
        BY <3>2, LettersAre
    <2>5. SubSeq(t, 1, L) = t
      BY SubSeqFull DEF L
    <2>6. QED
      BY <2>2, <2>3, <2>4, <2>5, ConcatEmptySeq DEF n
  <1>8. QED
    BY <1>2, <1>6, <1>7

(* Every position of S is in a run of S.                                   *)
LEMMA RunStart ==
    ASSUME NEW n \in Nat, NEW S \in SUBSET (1 .. n), NEW x \in S
    PROVE  \E f \in S : f - 1 \notin S /\ f <= x /\ f .. x \subseteq S
  <1> DEFINE R == {f \in S : f <= x /\ f .. x \subseteq S}
  <1>1. x \in Nat /\ \A i \in S : i \in Nat /\ i >= 1
    OBVIOUS
  <1>2. R \in SUBSET Nat /\ x \in R
    <2>1. x <= x /\ x .. x = {x}
      BY <1>1
    <2>2. QED
      BY <1>1, <2>1
  <1>3. PICK f \in R : \A g \in R : f <= g
    <2> HIDE DEF R
    <2>1. QED
      BY <1>2, LeastElement
  <1>4. f - 1 \notin S
    <2> SUFFICES ASSUME f - 1 \in S PROVE FALSE
      OBVIOUS
    <2>1. f \in Nat /\ f <= x /\ f .. x \subseteq S
      BY <1>1, <1>3
    <2>2. f - 1 <= x /\ \A i \in (f - 1) .. x : i = f - 1 \/ i \in f .. x
      BY <1>1, <2>1
    <2>3. f - 1 \in R
      BY <2>1, <2>2
    <2>4. f <= f - 1
      BY <1>3, <2>3
    <2>5. QED
      BY <2>1, <2>4
  <1>5. QED
    BY <1>3, <1>4

(* Cutting out positions that hold no letter keeps the letters.            *)
LEMMA RunsKeep ==
    ASSUME NEW t \in Seq(Char), NEW S \in SUBSET DOMAIN t, LetterAt(t) \subseteq S
    PROVE  Letters(FlattenSeq(Runs(t, S))) = Letters(t)
  <1> DEFINE L == Len(t)
             F == {i \in S : i - 1 \notin S}
             c == Cardinality(F)
             p == Ascending(F)
             last(i) == LastOfRun(S, i)
             e == [k \in 0 .. c |-> IF k = 0 THEN 0 ELSE last(p[k])]
  <1>1. /\ L \in Nat /\ S \in SUBSET (1 .. L) /\ F \in SUBSET (1 .. L) /\ F \subseteq S
        /\ \A i \in S : i - 1 \notin S => i \in F
        /\ \A i \in F : i - 1 \notin S
    OBVIOUS
  <1>2. /\ c \in Nat /\ Len(p) = c /\ \A k \in 1 .. c : p[k] \in F
        /\ \A k \in 1 .. c, i \in F : i < p[k] => k - 1 \in 1 .. c /\ i <= p[k - 1]
        /\ \A i \in F : c # 0 /\ i <= p[c]
        /\ \A k \in 1 .. c : k # 1 => k - 1 \in 1 .. c /\ p[k - 1] < p[k]
    <2> HIDE DEF F
    <2>1. QED
      BY <1>1, AscendingGaps
  <1>3. \A i \in S : /\ last(i) \in S /\ i .. last(i) \subseteq S /\ i <= last(i)
                     /\ \A j \in S : i .. j \subseteq S => j <= last(i)
    <2>1. L \in Nat /\ S \in SUBSET (1 .. L)
      BY <1>1
    <2> HIDE DEF L
    <2>2. QED
      BY <2>1, LastOfRunIn
  <1>4. Runs(t, S) = [k \in 1 .. c |-> SubSeq(t, p[k], last(p[k]))]
    <2>1. DOMAIN p = 1 .. c
      BY DEF Ascending
    <2>2. Runs(t, S) = [k \in DOMAIN p |-> SubSeq(t, p[k], last(p[k]))]
      BY DEF Runs, LastOfRun
    <2>3. QED
      BY <2>1, <2>2
  <1>5. Runs(t, S) \in Seq(Seq(Char))
    BY RunsTyped
  <1>5a. \A i \in F : i \in S
    BY <1>1
  <1>5b. \A i \in F : i - 1 \notin S
    BY <1>1
  <1> HIDE DEF L, F, c, p, last
  <1>6. Len(Runs(t, S)) = c
    BY <1>2, <1>4, <1>5
  <1>7. \A i \in S : i \in Nat /\ i >= 1 /\ i <= L
    BY <1>1
  (* A letter in front of a run is in an earlier one.                      *)
  <1>8. ASSUME NEW k \in 1 .. c, NEW f \in F, NEW x \in S, f <= x, f .. x \subseteq S,
               f <= p[k]
        PROVE  x <= last(p[k])
    <2>1. p[k] \in F /\ p[k] \in S /\ f \in S /\ p[k] - 1 \notin S
      <3>1. p[k] \in F
        BY <1>2
      <3>2. p[k] \in S
        BY <1>5a, <3>1
      <3>3. p[k] - 1 \notin S
        BY <1>5b, <3>1
      <3>4. f \in S
        BY <1>5a
      <3>5. QED
        BY <3>1, <3>2, <3>3, <3>4
    <2>2. CASE f = p[k]
      BY <1>3, <1>8, <2>1, <2>2
    <2>3. CASE f # p[k]
      <3>1. f < p[k] /\ p[k] - 1 >= f
        BY <1>7, <1>8, <2>1, <2>3
      <3>2. ~(p[k] - 1 <= x)
        <4> SUFFICES ASSUME p[k] - 1 <= x PROVE FALSE
          OBVIOUS
        <4>1. p[k] - 1 \in f .. x
          BY <1>7, <2>1, <3>1
        <4>2. QED
          BY <1>8, <2>1, <4>1
      <3>3. p[k] <= last(p[k]) /\ last(p[k]) \in S
        BY <1>3, <2>1
      <3>4. QED
        BY <1>7, <2>1, <3>2, <3>3
    <2>4. QED
      BY <2>2, <2>3
  <1>9. ASSUME NEW k \in 1 .. c
        PROVE  /\ p[k] \in 1 .. L /\ e[k] \in 0 .. L /\ e[k - 1] < p[k] /\ p[k] <= e[k]
               /\ Runs(t, S)[k] = SubSeq(t, p[k], e[k])
               /\ \A x \in LetterAt(t) : ~(e[k - 1] < x /\ x < p[k])
    <2>1. p[k] \in F /\ p[k] \in S /\ p[k] - 1 \notin S
      <3>1. p[k] \in F
        BY <1>2
      <3>2. p[k] \in S
        BY <1>5a, <3>1
      <3>3. p[k] - 1 \notin S
        BY <1>5b, <3>1
      <3>4. QED
        BY <3>1, <3>2, <3>3
    <2>2. k \in 0 .. c /\ k # 0 /\ e[k] = last(p[k])
      BY <1>2
    <2>3. p[k] \in 1 .. L /\ e[k] \in 0 .. L /\ p[k] <= e[k]
      <3>1. last(p[k]) \in S /\ p[k] <= last(p[k])
        BY <1>3, <2>1
      <3>2. QED
        BY <1>1, <1>7, <2>1, <2>2, <3>1
    <2>4. Runs(t, S)[k] = SubSeq(t, p[k], e[k])
      BY <1>4, <2>2
    <2>5. e[k - 1] < p[k] /\ \A x \in LetterAt(t) : x < p[k] => x <= e[k - 1]
      <3>1. CASE k = 1
        <4>1. e[k - 1] = 0
          BY <1>2, <3>1
        <4>2. ASSUME NEW x \in LetterAt(t), x < p[k] PROVE FALSE
          <5>1. x \in S
            OBVIOUS
          <5>2. PICK f \in S : f - 1 \notin S /\ f <= x
            BY <1>1, <5>1, RunStart
          <5>3. f \in F
            BY <1>1, <5>2
          <5>4. f < p[k]
            BY <1>7, <2>1, <4>2, <5>1, <5>2
          <5>5. k - 1 \in 1 .. c
            BY <1>2, <5>3, <5>4
          <5>6. QED
            BY <1>2, <3>1, <5>5
        <4>3. QED
          BY <1>7, <2>1, <4>1, <4>2
      <3>2. CASE k # 1
        <4>1. k - 1 \in 1 .. c /\ p[k - 1] < p[k]
          BY <1>2, <3>2
        <4> DEFINE q == p[k - 1]
        <4>2. q \in F /\ q \in S /\ k - 1 \in 0 .. c /\ k - 1 # 0 /\ e[k - 1] = last(q)
          <5>1. q \in F
            BY <1>2, <4>1
          <5>2. k - 1 \in 0 .. c /\ k - 1 # 0
            BY <1>2, <4>1
          <5>3. QED
            BY <1>1, <5>1, <5>2
        <4>3. /\ last(q) \in S /\ q .. last(q) \subseteq S
          BY <1>3, <4>2
        <4> HIDE DEF q
        <4>4. ~(p[k] <= last(q))
          <5> SUFFICES ASSUME p[k] <= last(q) PROVE FALSE
            OBVIOUS
          <5>1. p[k] - 1 \in q .. last(q)
            BY <1>7, <2>1, <4>1, <4>2, <4>3 DEF q
          <5>2. QED
            BY <2>1, <4>3, <5>1
        <4>5. ASSUME NEW x \in LetterAt(t), x < p[k] PROVE x <= last(q)
          <5>1. x \in S
            OBVIOUS
          <5>2. PICK f \in S : f - 1 \notin S /\ f <= x /\ f .. x \subseteq S
            BY <1>1, <5>1, RunStart
          <5>3. f \in F /\ f < p[k]
            BY <1>1, <1>7, <2>1, <4>5, <5>1, <5>2
          <5>4. f <= q
            BY <1>2, <5>3 DEF q
          <5>5. QED
            BY <1>8, <4>1, <5>1, <5>2, <5>3, <5>4 DEF q
        <4>6. QED
          BY <1>7, <2>1, <4>2, <4>3, <4>4, <4>5
      <3>3. QED
        BY <3>1, <3>2
    <2>6. \A x \in LetterAt(t) : ~(e[k - 1] < x /\ x < p[k])
      <3>1. e[k - 1] \in Nat
        <4>1. CASE k = 1
          BY <1>2, <4>1
        <4>2. CASE k # 1
          <5>1. k - 1 \in 1 .. c /\ p[k - 1] \in S
            BY <1>1, <1>2, <4>2
          <5>2. e[k - 1] = last(p[k - 1]) /\ last(p[k - 1]) \in S
            BY <1>2, <1>3, <5>1
          <5>3. QED
            BY <1>7, <5>2
        <4>3. QED
          BY <4>1, <4>2
      <3> DEFINE d == e[k - 1]
      <3>2. d \in Nat /\ \A x \in LetterAt(t) : x < p[k] => x <= d
        BY <2>5, <3>1
      <3>3. \A x \in LetterAt(t) : x \in Nat
        BY <1>7
      <3> HIDE DEF d
      <3>4. \A x \in LetterAt(t) : ~(d < x /\ x < p[k])
        BY <3>2, <3>3
      <3>5. QED
        BY <3>4 DEF d
    <2>7. QED
      BY <2>3, <2>4, <2>5, <2>6
  <1>10. e[0] = 0
    BY <1>2
  <1>11. \A k \in 0 .. c : e[k] \in 0 .. L
    <2>1. ASSUME NEW k \in 0 .. c PROVE e[k] \in 0 .. L
      <3>1. CASE k = 0
        BY <1>1, <1>10, <3>1
      <3>2. CASE k # 0
        <4>1. k \in 1 .. c
          BY <1>2, <3>2
        <4>2. QED
          BY <1>9, <4>1
      <3>3. QED
        BY <3>1, <3>2
    <2>2. QED
      BY <2>1
  <1>12. ASSUME NEW x \in LetterAt(t) PROVE ~(e[c] < x)
    <2>1. x \in S
      OBVIOUS
    <2>2. PICK f \in S : f - 1 \notin S /\ f <= x /\ f .. x \subseteq S
      BY <1>1, <2>1, RunStart
    <2>3. f \in F
      BY <1>1, <2>2
    <2>4. c # 0 /\ f <= p[c]
      BY <1>2, <2>3
    <2>5. c \in 1 .. c /\ c \in 0 .. c /\ e[c] = last(p[c])
      BY <1>2, <2>4
    <2>6. x <= e[c]
      BY <1>8, <2>1, <2>2, <2>3, <2>4, <2>5
    <2>7. e[c] \in Nat
      BY <1>1, <1>11, <2>5
    <2>8. QED
      BY <1>7, <2>1, <2>6, <2>7
  <1> HIDE DEF e
  <1>13. QED
    <2>1. /\ e[0] = 0
          /\ \A k \in 0 .. Len(Runs(t, S)) : e[k] \in 0 .. Len(t)
          /\ \A k \in 1 .. Len(Runs(t, S)) :
                /\ p[k] \in 1 .. Len(t) /\ e[k - 1] < p[k] /\ p[k] <= e[k]
                /\ Runs(t, S)[k] = SubSeq(t, p[k], e[k])
                /\ \A x \in LetterAt(t) : ~(e[k - 1] < x /\ x < p[k])
          /\ \A x \in LetterAt(t) : ~(e[Len(Runs(t, S))] < x)
      BY <1>6, <1>9, <1>10, <1>11, <1>12 DEF L
    <2>2. QED
      BY <1>5, <2>1, PartsKeep

(* The words of a text have all of its letters.                            *)
LEMMA WordsKeep ==
    ASSUME NEW t \in Seq(Char)
    PROVE  Letters(FlattenSeq(Words(t))) = Letters(t)
  <1> DEFINE S == {i \in DOMAIN t : t[i].kind \notin Whitespace}
  <1>1. S \in SUBSET DOMAIN t /\ LetterAt(t) \subseteq S
    BY DEF LetterAt, Whitespace
  <1>2. Words(t) = Runs(t, S)
    BY DEF Words
  <1> HIDE DEF S
  <1>3. QED
    BY <1>1, <1>2, RunsKeep

(* The paragraphs of a text have all of its letters.                       *)
LEMMA ParagraphsKeep ==
    ASSUME NEW t \in Seq(Char)
    PROVE  Letters(FlattenSeq(Paragraphs(t))) = Letters(t)
  <1> DEFINE newline(i) == i \in DOMAIN t /\ t[i].kind = "newline"
             cut == {i \in DOMAIN t : newline(i) /\ (newline(i - 1) \/ newline(i + 1))}
             S == DOMAIN t \ cut
             parts == Runs(t, S)
  <1>1. S \in SUBSET DOMAIN t /\ LetterAt(t) \subseteq S
    BY DEF LetterAt
  <1>2. Paragraphs(t) = NonEmpty(Stripped(parts))
    BY DEF Paragraphs, Stripped
  <1> HIDE DEF S
  <1>3. parts \in Seq(Seq(Char)) /\ Letters(FlattenSeq(parts)) = Letters(t)
    BY <1>1, RunsTyped, RunsKeep
  <1> HIDE DEF parts
  <1>4. Stripped(parts) \in Seq(Seq(Char))
    BY <1>3, StrippedTyped
  <1>5. QED
    BY <1>2, <1>3, <1>4, NonEmptyFlat, StrippedKeeps

(* The raw sentences of a paragraph have all of its letters.               *)
LEMMA RawSentencesKeep ==
    ASSUME NEW t \in Seq(Char)
    PROVE  Letters(FlattenSeq(RawSentences(t))) = Letters(t)
  <1> DEFINE L == Len(t)
             S == {i \in DOMAIN t : t[i].kind # "dot"}
             F == {i \in DOMAIN t : t[i].kind # "dot" /\ (i = 1 \/ t[i - 1].kind = "dot")}
             c == Cardinality(F)
             p == Ascending(F)
             e == [k \in 0 .. c |-> IF k = 0 THEN 0 ELSE SentenceEnd(t, k)]
  <1>1. L \in Nat /\ S \in SUBSET (1 .. L) /\ F \in SUBSET (1 .. L)
    OBVIOUS
  <1>2. \A i \in S : i - 1 \notin S => i \in F
    <2>1. ASSUME NEW i \in S, i - 1 \notin S, i # 1 PROVE t[i - 1].kind = "dot"
      <3>1. i - 1 \in DOMAIN t
        BY <2>1
      <3>2. QED
        BY <2>1, <3>1
    <2>2. QED
      BY <2>1
  <1>3. LetterAt(t) \subseteq S /\ \A x \in LetterAt(t) : x \in S /\ x \in Nat /\ x <= L
    BY DEF LetterAt
  <1>3a. \A i \in F : i \in Nat /\ i >= 1 /\ i <= L
    OBVIOUS
  <1>4. /\ c \in Nat /\ Len(p) = c /\ \A k \in 1 .. c : p[k] \in F
        /\ \A k \in 1 .. c, i \in F : i < p[k] => k - 1 \in 1 .. c /\ i <= p[k - 1]
        /\ \A i \in F : c # 0 /\ i <= p[c]
        /\ \A k \in 1 .. c : k # 1 => k - 1 \in 1 .. c /\ p[k - 1] < p[k]
    <2> HIDE DEF F
    <2>1. QED
      BY <1>1, AscendingGaps
  <1>5. SentenceStarts(t) = p /\ DOMAIN p = 1 .. c
    BY DEF SentenceStarts, Ascending
  <1>6. RawSentences(t) = [k \in 1 .. c |-> SubSeq(t, p[k], SentenceEnd(t, k))]
        /\ \A k \in 1 .. c : SentenceEnd(t, k) = IF k = c THEN L ELSE p[k + 1] - 1
    BY <1>4, <1>5 DEF RawSentences, SentenceEnd
  <1>7. RawSentences(t) \in Seq(Seq(Char))
    BY RawSentencesTyped
  <1> HIDE DEF L, S, F, c, p
  <1>8. Len(RawSentences(t)) = c
    BY <1>4, <1>6, <1>7
  <1>9. \A k \in 1 .. c : p[k] \in Nat /\ p[k] >= 1 /\ p[k] <= L
    BY <1>3a, <1>4
  <1>10. e[0] = 0
    BY <1>4
  <1>11. ASSUME NEW k \in 1 .. c
         PROVE  k \in 0 .. c /\ e[k] = SentenceEnd(t, k) /\ p[k] <= e[k] /\ e[k] \in 0 .. L
    <2>1. k \in 0 .. c /\ e[k] = SentenceEnd(t, k)
      BY <1>4
    <2>2. CASE k = c
      BY <1>1, <1>6, <1>9, <2>1, <2>2
    <2>3. CASE k # c
      <3> DEFINE m == k + 1
      <3>1. m \in 1 .. c /\ m # 1 /\ m - 1 = k
        BY <1>4, <2>3
      <3>2. p[k] < p[m]
        BY <1>4, <3>1
      <3>3. e[k] = p[m] - 1
        BY <1>6, <2>1, <2>3
      <3> HIDE DEF m
      <3>4. QED
        BY <1>1, <1>9, <2>1, <3>1, <3>2, <3>3
    <2>4. QED
      BY <2>2, <2>3
  <1>12. ASSUME NEW k \in 1 .. c
         PROVE  e[k - 1] < p[k] /\ \A x \in LetterAt(t) : ~(e[k - 1] < x /\ x < p[k])
    <2>1. CASE k = 1
      <3>1. e[k - 1] = 0
        BY <1>10, <2>1
      <3>2. ASSUME NEW x \in LetterAt(t), x < p[k] PROVE FALSE
        <4>1. x \in S /\ x \in Nat
          BY <1>3
        <4>2. PICK f \in S : f - 1 \notin S /\ f <= x
          BY <1>1, <4>1, RunStart
        <4>3. f \in F
          BY <1>2, <4>2
        <4>4. f \in Nat
          BY <1>1
        <4>5. f < p[k]
          BY <1>9, <3>2, <4>1, <4>2, <4>4
        <4>6. k - 1 \in 1 .. c
          BY <1>4, <4>3, <4>5
        <4>7. QED
          BY <1>4, <2>1, <4>6
      <3>3. QED
        BY <1>9, <3>1, <3>2
    <2>2. CASE k # 1
      <3> DEFINE m == k - 1
      <3>1. m \in 1 .. c /\ m # c /\ m + 1 = k
        BY <1>4, <2>2
      <3>2. e[m] = p[k] - 1
        BY <1>6, <1>11, <3>1
      <3>3. e[k - 1] = p[k] - 1
        BY <3>2
      <3>4. \A x \in LetterAt(t) : x \in Nat
        BY <1>3
      <3> HIDE DEF e, m
      <3>5. QED
        BY <1>9, <3>3, <3>4
    <2>3. QED
      BY <2>1, <2>2
  <1>13. ASSUME NEW x \in LetterAt(t) PROVE ~(e[c] < x)
    <2>1. x \in S /\ x \in Nat /\ x <= L
      BY <1>3
    <2>2. PICK f \in S : f - 1 \notin S
      BY <1>1, <2>1, RunStart
    <2>3. f \in F
      BY <1>2, <2>2
    <2>4. c # 0 /\ c \in 1 .. c
      BY <1>4, <2>3
    <2>5. e[c] = L
      BY <1>6, <1>11, <2>4
    <2>6. QED
      BY <1>1, <2>1, <2>5
  <1>14. \A k \in 0 .. c : e[k] \in 0 .. L
    <2>1. \A k \in 0 .. c : k = 0 \/ k \in 1 .. c
      BY <1>4
    <2>2. 0 \in 0 .. L
      BY <1>1
    <2>3. QED
      BY <1>10, <1>11, <2>1, <2>2
  <1> HIDE DEF e
  <1>15. /\ e[0] = 0
         /\ \A k \in 0 .. Len(RawSentences(t)) : e[k] \in 0 .. Len(t)
         /\ \A k \in 1 .. Len(RawSentences(t)) :
               /\ p[k] \in 1 .. Len(t) /\ e[k - 1] < p[k] /\ p[k] <= e[k]
               /\ RawSentences(t)[k] = SubSeq(t, p[k], e[k])
               /\ \A x \in LetterAt(t) : ~(e[k - 1] < x /\ x < p[k])
         /\ \A x \in LetterAt(t) : ~(e[Len(RawSentences(t))] < x)
    <2>1. \A k \in 1 .. c : p[k] \in 1 .. L
      BY <1>1, <1>4
    <2>2. \A k \in 1 .. c : RawSentences(t)[k] = SubSeq(t, p[k], e[k])
      BY <1>6, <1>11
    <2>3. QED
      BY <1>8, <1>10, <1>11, <1>12, <1>13, <1>14, <2>1, <2>2 DEF L
  <1>16. QED
    BY <1>7, <1>15, PartsKeep

(* The sentences of a paragraph have all of its letters.                   *)
LEMMA SentencesKeep ==
    ASSUME NEW p \in Seq(Char)
    PROVE  Letters(FlattenSeq(Sentences(p))) = Letters(p)
  <1>1. RawSentences(p) \in Seq(Seq(Char)) /\ Stripped(RawSentences(p)) \in Seq(Seq(Char))
    BY RawSentencesTyped, StrippedTyped
  <1>2. QED
    BY <1>1, SentencesTyped, RawSentencesKeep, StrippedKeeps, NonEmptyFlat

(* The texts of segments.                                                  *)
Texts(segments) == [k \in DOMAIN segments |-> segments[k].text]

(* The texts of segments are texts.                                        *)
LEMMA TextsTyped ==
    ASSUME NEW segments \in Seq(Segment)
    PROVE  Texts(segments) \in Seq(Seq(Char)) /\ Len(Texts(segments)) = Len(segments)
  <1>1. Len(segments) \in Nat /\ DOMAIN segments = 1 .. Len(segments)
        /\ \A k \in 1 .. Len(segments) : segments[k] \in Segment
    OBVIOUS
  <1>2. Texts(segments) \in [1 .. Len(segments) -> Seq(Char)]
    BY <1>1 DEF Texts, Segment
  <1>3. QED
    BY <1>1, <1>2, FunctionIsSeq

(* The texts of joined segments are the joined texts.                      *)
LEMMA TextsJoin ==
    ASSUME NEW s \in Seq(Segment), NEW t \in Seq(Segment)
    PROVE  Texts(s \o t) = Texts(s) \o Texts(t)
  <1>1. /\ s \o t \in Seq(Segment) /\ Len(s \o t) = Len(s) + Len(t)
        /\ Len(s) \in Nat /\ Len(t) \in Nat
        /\ \A k \in 1 .. Len(s) + Len(t) : (s \o t)[k] = IF k <= Len(s) THEN s[k] ELSE t[k - Len(s)]
    BY ConcatProperties
  <1>2. /\ Texts(s \o t) \in Seq(Seq(Char)) /\ Len(Texts(s \o t)) = Len(s) + Len(t)
        /\ Texts(s) \in Seq(Seq(Char)) /\ Len(Texts(s)) = Len(s)
        /\ Texts(t) \in Seq(Seq(Char)) /\ Len(Texts(t)) = Len(t)
    BY <1>1, TextsTyped
  <1>3. /\ Texts(s) \o Texts(t) \in Seq(Seq(Char))
        /\ Len(Texts(s) \o Texts(t)) = Len(s) + Len(t)
        /\ \A k \in 1 .. Len(s) + Len(t) :
              (Texts(s) \o Texts(t))[k] = IF k <= Len(s) THEN Texts(s)[k] ELSE Texts(t)[k - Len(s)]
    <2> DEFINE x == Texts(s)
               y == Texts(t)
    <2>1. x \in Seq(Seq(Char)) /\ y \in Seq(Seq(Char)) /\ Len(x) = Len(s) /\ Len(y) = Len(t)
      BY <1>2
    <2> HIDE DEF x, y
    <2>2. /\ x \o y \in Seq(Seq(Char)) /\ Len(x \o y) = Len(x) + Len(y)
          /\ \A k \in 1 .. Len(x) + Len(y) :
                (x \o y)[k] = IF k <= Len(x) THEN x[k] ELSE y[k - Len(x)]
      BY <2>1, ConcatProperties
    <2>3. QED
      BY <2>1, <2>2 DEF x, y
  <1>4. \A k \in 1 .. Len(s) + Len(t) : Texts(s \o t)[k] = (Texts(s) \o Texts(t))[k]
    <2>1. ASSUME NEW k \in 1 .. Len(s) + Len(t)
          PROVE  Texts(s \o t)[k] = (Texts(s) \o Texts(t))[k]
      <3>1. Texts(s \o t)[k] = (s \o t)[k].text
        BY <1>1 DEF Texts
      <3>2. CASE k <= Len(s)
        <4>1. k \in DOMAIN s
          BY <1>1, <3>2
        <4>2. Texts(s)[k] = s[k].text
          BY <4>1 DEF Texts
        <4>3. QED
          BY <1>1, <1>3, <3>1, <3>2, <4>2
      <3>3. CASE ~(k <= Len(s))
        <4>1. k - Len(s) \in DOMAIN t
          BY <1>1, <3>3
        <4>2. Texts(t)[k - Len(s)] = t[k - Len(s)].text
          BY <4>1 DEF Texts
        <4>3. QED
          BY <1>1, <1>3, <3>1, <3>3, <4>2
      <3>4. QED
        BY <3>2, <3>3
    <2>2. QED
      BY <2>1
  <1>5. QED
    BY <1>2, <1>3, <1>4, SeqEqual

(* The segments of a paragraph have all of its letters.                    *)
LEMMA ExpandKeeps ==
    ASSUME NEW p \in Seq(Char), NEW max
    PROVE  Letters(FlattenSeq(Texts(Expand(p, max)))) = Letters(p)
  <1> DEFINE segments(parts) == [k \in DOMAIN parts |-> [text |-> parts[k], blank |-> k = 1]]
  <1>1. ASSUME NEW parts \in Seq(Seq(Char)) PROVE Texts(segments(parts)) = parts
    BY DEF Texts
  <1>2. <<p>> \in Seq(Seq(Char)) /\ FlattenSeq(<<p>>) = p
    BY FlattenOne
  <1>3. \E parts \in Seq(Seq(Char)) :
           Expand(p, max) = segments(parts) /\ Letters(FlattenSeq(parts)) = Letters(p)
    <2> HIDE DEF segments
    <2>1. Expand(p, max) \in {segments(<<p>>), segments(Sentences(p)), segments(Words(p))}
      BY DEF Expand, segments
    <2>2. QED
      BY <1>2, <2>1, SentencesTyped, SentencesKeep, WordsTyped, WordsKeep
  <1> HIDE DEF segments
  <1>4. PICK parts \in Seq(Seq(Char)) :
           Expand(p, max) = segments(parts) /\ Letters(FlattenSeq(parts)) = Letters(p)
    BY <1>3
  <1>5. Texts(Expand(p, max)) = parts
    BY <1>1, <1>4
  <1>6. QED
    BY <1>4, <1>5

(* Nothing has no texts, no characters and no letters.                     *)
LEMMA EmptyTexts == Texts(<< >>) = << >> /\ FlattenSeq(<< >>) = << >> /\ Letters(<< >>) = << >>
  <1>1. Texts(<< >>) = << >>
    BY DEF Texts
  <1>2. FlattenSeq(<< >>) = << >>
    <2>1. << >> \in Seq(Seq(Char)) /\ Len(<< >>) = 0
      OBVIOUS
    <2>2. PICK f \in [0 .. Len(<< >>) -> Seq(Char)] :
             IsFlattening(f, << >>) /\ FlattenSeq(<< >>) = f[Len(<< >>)]
      BY <2>1, FlattenLoop
    <2>3. QED
      BY <2>1, <2>2 DEF IsFlattening
  <1>3. Letters(<< >>) = << >>
    <2>1. << >> \in Seq(Char) /\ LetterAt(<< >>) = {}
      BY DEF LetterAt
    <2>2. QED
      BY <2>1, NoLetters
  <1>4. QED
    BY <1>1, <1>2, <1>3

(* The letters of the segments are those of the reply.                     *)
LEMMA SegmentsKeep ==
    ASSUME NEW t \in Seq(Char), NEW max
    PROVE  Letters(FlattenSeq(Texts(Segments(t, max)))) = Letters(t)
  <1> DEFINE paragraphs == Paragraphs(Strip(t))
             expanded == [k \in DOMAIN paragraphs |-> Expand(paragraphs[k], max)]
             N == Len(paragraphs)
  <1>1. paragraphs \in Seq(Seq(Char)) /\ Letters(FlattenSeq(paragraphs)) = Letters(t)
    BY StripTyped, StripKeeps, ParagraphsTyped, ParagraphsKeep
  <1>2. Segments(t, max) = FlattenSeq(expanded)
    BY DEF Segments
  <1> HIDE DEF paragraphs
  <1>3. N \in Nat /\ DOMAIN paragraphs = 1 .. N /\ \A k \in 1 .. N : paragraphs[k] \in Seq(Char)
    BY <1>1
  <1>4. \A k \in 1 .. N : expanded[k] \in Seq(Segment)
                          /\ Letters(FlattenSeq(Texts(expanded[k]))) = Letters(paragraphs[k])
    BY <1>3, ExpandTyped, ExpandKeeps
  <1>5. expanded \in Seq(Seq(Segment)) /\ Len(expanded) = N
    <2>1. expanded \in [1 .. N -> Seq(Segment)]
      BY <1>3, <1>4
    <2> HIDE DEF expanded
    <2>2. QED
      BY <1>3, <2>1, FunctionIsSeq
  <1> HIDE DEF expanded
  <1>6. PICK f \in [0 .. N -> Seq(Segment)] : IsFlattening(f, expanded) /\ FlattenSeq(expanded) = f[N]
    BY <1>5, FlattenLoop
  <1>7. PICK g \in [0 .. N -> Seq(Char)] : IsFlattening(g, paragraphs) /\ FlattenSeq(paragraphs) = g[N]
    BY <1>1, FlattenLoop
  <1> DEFINE T == {k \in 0 .. N : Letters(FlattenSeq(Texts(f[k]))) = Letters(g[k])}
  <1>8. 0 \in T
    <2>1. f[0] = << >> /\ g[0] = << >> /\ 0 \in 0 .. N
      BY <1>3, <1>6, <1>7 DEF IsFlattening
    <2>2. QED
      BY <2>1, EmptyTexts
  <1>9. ASSUME NEW k \in 1 .. N, k - 1 \in T PROVE k \in T
    <2> DEFINE a == f[k - 1]
               b == expanded[k]
               u == g[k - 1]
               v == paragraphs[k]
    <2>1. k \in 0 .. N /\ k - 1 \in 0 .. N
      BY <1>3
    <2>2. f[k] = a \o b /\ g[k] = u \o v
      BY <1>5, <1>6, <1>7 DEF IsFlattening
    <2>3. a \in Seq(Segment) /\ b \in Seq(Segment) /\ u \in Seq(Char) /\ v \in Seq(Char)
      BY <1>3, <1>4, <1>6, <1>7, <2>1
    <2>4. Letters(FlattenSeq(Texts(a))) = Letters(u) /\ Letters(FlattenSeq(Texts(b))) = Letters(v)
      BY <1>4, <1>9
    <2> HIDE DEF a, b, u, v
    <2>5. Texts(a) \in Seq(Seq(Char)) /\ Texts(b) \in Seq(Seq(Char))
      BY <2>3, TextsTyped
    <2>6. FlattenSeq(Texts(a)) \in Seq(Char) /\ FlattenSeq(Texts(b)) \in Seq(Char)
      BY <2>5, FlattenTyped
    <2>7. FlattenSeq(Texts(a \o b)) = FlattenSeq(Texts(a)) \o FlattenSeq(Texts(b))
      BY <2>3, <2>5, TextsJoin, FlattenJoin
    <2>8. Letters(FlattenSeq(Texts(a \o b))) = Letters(u) \o Letters(v)
      BY <2>4, <2>6, <2>7, LettersJoin
    <2>9. Letters(u \o v) = Letters(u) \o Letters(v)
      BY <2>3, LettersJoin
    <2>10. QED
      BY <2>1, <2>2, <2>8, <2>9
  <1> HIDE DEF T
  <1>10. \A k \in 0 .. N : k \in T
    BY <1>3, <1>8, <1>9, UpTo
  <1>11. N \in 0 .. N
    <2> HIDE DEF N
    <2>1. QED
      BY <1>3
  <1>12. Letters(FlattenSeq(Texts(f[N]))) = Letters(g[N])
    BY <1>10, <1>11 DEF T
  <1>13. QED
    BY <1>1, <1>2, <1>6, <1>7, <1>12

----------------------------------------------------------------------------
(* Packing keeps the letters.                                              *)

LettersIn(chunks) == Letters(FlattenSeq(chunks))
Weight(out) == LettersIn(out.chunks) \o Letters(out.current)

(* Messages within the limit are texts.                                    *)
LEMMA MessagesAreTexts ==
    ASSUME NEW max, NEW chunks \in Seq(Message(max))
    PROVE  chunks \in Seq(Seq(Char))
  <1>1. Len(chunks) \in Nat /\ chunks \in [1 .. Len(chunks) -> Message(max)]
    OBVIOUS
  <1>2. chunks \in [1 .. Len(chunks) -> Seq(Char)]
    BY <1>1 DEF Message
  <1>3. QED
    BY <1>1, <1>2, FunctionIsSeq

(* The letters of messages are places.                                     *)
LEMMA LettersInTyped ==
    ASSUME NEW chunks \in Seq(Seq(Char))
    PROVE  LettersIn(chunks) \in Seq(Nat)
  BY FlattenTyped, LettersAre DEF LettersIn

(* The letters of joined messages are the joined letters.                  *)
LEMMA LettersInJoin ==
    ASSUME NEW s \in Seq(Seq(Char)), NEW t \in Seq(Seq(Char))
    PROVE  LettersIn(s \o t) = LettersIn(s) \o LettersIn(t)
  <1>1. FlattenSeq(s) \in Seq(Char) /\ FlattenSeq(t) \in Seq(Char)
    BY FlattenTyped
  <1>2. FlattenSeq(s \o t) = FlattenSeq(s) \o FlattenSeq(t)
    BY FlattenJoin
  <1> DEFINE a == FlattenSeq(s)
             b == FlattenSeq(t)
  <1>3. LettersIn(s) = Letters(a) /\ LettersIn(t) = Letters(b) /\ LettersIn(s \o t) = Letters(a \o b)
    BY <1>2 DEF LettersIn
  <1> HIDE DEF a, b
  <1>4. Letters(a \o b) = Letters(a) \o Letters(b)
    BY <1>1, LettersJoin DEF a, b
  <1>5. QED
    BY <1>3, <1>4

(* Flushing the current text keeps the letters.                            *)
LEMMA FlushedKeeps ==
    ASSUME NEW chunks \in Seq(Seq(Char)), NEW current \in Seq(Char)
    PROVE  LettersIn(Flushed(chunks, current)) = LettersIn(chunks) \o Letters(current)
  <1>1. CASE current = << >>
    <2>1. Letters(current) = << >> /\ LettersIn(chunks) \in Seq(Nat)
      BY <1>1, EmptyTexts, LettersInTyped
    <2>2. QED
      BY <1>1, <2>1, ConcatEmptySeq DEF Flushed
  <1>2. CASE current # << >>
    <2>1. <<current>> \in Seq(Seq(Char)) /\ LettersIn(<<current>>) = Letters(current)
      BY FlattenOne DEF LettersIn
    <2>2. Append(chunks, current) = chunks \o <<current>>
      BY AppendIsConcat
    <2>3. QED
      BY <1>2, <2>1, <2>2, LettersInJoin DEF Flushed
  <1>3. QED
    BY <1>1, <1>2

(* The pieces of a cut word and what is left over have all of its letters. *)
LEMMA PiecesKeep ==
    ASSUME NEW max \in Nat \ {0}, NEW w \in Seq(Char)
    PROVE  LettersIn(FullPieces(w, max)) \o Letters(LeftOver(w, max)) = Letters(w)
  <1> DEFINE L == Len(w)
             n == L \div max
             pieces == FullPieces(w, max)
  <1>1. L \in Nat /\ n \in Nat /\ n * max <= L
    <2>1. L \in Nat
      OBVIOUS
    <2> HIDE DEF L
    <2>2. n \in Nat /\ n * max <= L
      BY <2>1
    <2>3. QED
      BY <2>1, <2>2
  <1>2. pieces = [k \in 1 .. n |-> SubSeq(w, (k - 1) * max + 1, k * max)]
    BY DEF FullPieces
  <1>3. LeftOver(w, max) = SubSeq(w, n * max + 1, L)
    BY DEF LeftOver
  <1>4. pieces \in Seq(Seq(Char))
    BY PiecesFit, MessagesAreTexts
  <1> HIDE DEF n, pieces
  <1>5. Len(pieces) = n
    BY <1>1, <1>2, <1>4
  <1>6. PICK f \in [0 .. n -> Seq(Char)] : IsFlattening(f, pieces) /\ FlattenSeq(pieces) = f[n]
    BY <1>4, <1>5, FlattenLoop
  <1> DEFINE T == {k \in 0 .. n : Letters(f[k]) = Letters(SubSeq(w, 1, k * max))}
  <1>7. 0 \in T
    <2>1. 0 \in 0 .. n /\ f[0] = << >>
      BY <1>1, <1>6 DEF IsFlattening
    <2>2. SubSeq(w, 1, 0 * max) = << >>
      BY EmptySeq
    <2>3. QED
      BY <2>1, <2>2
  <1>8. ASSUME NEW k \in 1 .. n, k - 1 \in T PROVE k \in T
    <2> DEFINE from == (k - 1) * max
               to == k * max
    <2>1. from \in Nat /\ to \in Nat /\ from <= to
      <3>1. from \in Nat /\ to = from + max
        BY <1>1
      <3>2. QED
        BY <3>1
    <2>2. to <= L
      <3>1. n * max = k * max + (n - k) * max /\ (n - k) * max \in Nat /\ k * max \in Nat
            /\ n * max \in Nat
        BY <1>1
      <3> DEFINE x == n * max
                 y == (n - k) * max
                 z == k * max
      <3>2. x = z + y /\ y \in Nat /\ z \in Nat /\ x <= L /\ L \in Nat
        BY <1>1, <3>1
      <3> HIDE DEF T, L, x, y, z
      <3>3. z <= L
        BY <3>2
      <3>4. QED
        BY <3>3 DEF z
    <2>3. k \in 0 .. n /\ k - 1 \in 0 .. n
      BY <1>1
    <2>4. f[k] = f[k - 1] \o pieces[k] /\ f[k - 1] \in Seq(Char) /\ pieces[k] \in Seq(Char)
      <3> HIDE DEF T, from, to, L
      <3>1. f[k] = f[k - 1] \o pieces[k]
        BY <1>5, <1>6 DEF IsFlattening
      <3>2. f[k - 1] \in Seq(Char)
        BY <1>6, <2>3
      <3>3. pieces[k] \in Seq(Char)
        BY <1>4, <1>5
      <3>4. QED
        BY <3>1, <3>2, <3>3
    <2>5. pieces[k] = SubSeq(w, from + 1, to)
      BY <1>2
    <2>6. Letters(f[k - 1]) = Letters(SubSeq(w, 1, from))
      BY <1>8
    <2> HIDE DEF from, to
    <2>7. Letters(SubSeq(w, 1, to)) = Letters(SubSeq(w, 1, from)) \o Letters(SubSeq(w, from + 1, to))
      <3>1. 1 \in 1 .. Len(w) + 1 /\ from \in 1 - 1 .. Len(w) /\ to \in from .. Len(w)
        BY <1>1, <2>1, <2>2
      <3>2. QED
        BY <3>1, LettersOfParts
    <2>8. Letters(f[k]) = Letters(SubSeq(w, 1, to))
      BY <2>4, <2>5, <2>6, <2>7, LettersJoin
    <2>9. QED
      BY <2>3, <2>8 DEF to
  <1> HIDE DEF T
  <1>9. \A k \in 0 .. n : k \in T
    BY <1>1, <1>7, <1>8, UpTo
  <1>10. Letters(f[n]) = Letters(SubSeq(w, 1, n * max))
    <2>1. n \in T
      BY <1>1, <1>9
    <2>2. QED
      BY <2>1 DEF T
  <1>11. Letters(SubSeq(w, 1, L)) = Letters(SubSeq(w, 1, n * max)) \o Letters(SubSeq(w, n * max + 1, L))
    <2> DEFINE m == n * max
    <2>1. m \in Nat /\ m <= L
      BY <1>1
    <2> HIDE DEF m
    <2>2. 1 \in 1 .. Len(w) + 1 /\ m \in 1 - 1 .. Len(w) /\ Len(w) \in m .. Len(w)
      BY <1>1, <2>1
    <2>3. Letters(SubSeq(w, 1, Len(w))) = Letters(SubSeq(w, 1, m)) \o Letters(SubSeq(w, m + 1, Len(w)))
      BY <2>2, LettersOfParts
    <2>4. QED
      BY <2>3 DEF m
  <1>12. SubSeq(w, 1, L) = w
    BY SubSeqFull
  <1>13. QED
    BY <1>3, <1>6, <1>10, <1>11, <1>12 DEF LettersIn, pieces

(* Concatenation of places is associative.                                 *)
LEMMA PlacesAssociative ==
    ASSUME NEW a \in Seq(Nat), NEW b \in Seq(Nat), NEW c \in Seq(Nat)
    PROVE  (a \o b) \o c = a \o (b \o c)
  BY ConcatAssociative, SMTT(60)

(* What has been packed, and the letters in it, are sequences.             *)
LEMMA WeightTyped ==
    ASSUME NEW max \in Nat, NEW out \in Packing(max)
    PROVE  /\ out.chunks \in Seq(Seq(Char)) /\ out.current \in Seq(Char)
           /\ LettersIn(out.chunks) \in Seq(Nat) /\ Letters(out.current) \in Seq(Nat)
           /\ Weight(out) \in Seq(Nat)
  <1>1. out.chunks \in Seq(Message(max)) /\ out.current \in Seq(Char)
    BY DEF Packing
  <1>2. out.chunks \in Seq(Seq(Char))
    BY <1>1, MessagesAreTexts
  <1>3. LettersIn(out.chunks) \in Seq(Nat) /\ Letters(out.current) \in Seq(Nat)
    BY <1>1, <1>2, LettersInTyped, LettersAre
  <1>4. QED
    BY <1>1, <1>2, <1>3 DEF Weight

(* What is put behind the current text adds its letters.                   *)
LEMMA GrownWeight ==
    ASSUME NEW max \in Nat, NEW out \in Packing(max), NEW current \in Seq(Char),
           NEW added \in Seq(Char), Letters(current) = Letters(out.current) \o Letters(added)
    PROVE  Weight([chunks |-> out.chunks, current |-> current]) = Weight(out) \o Letters(added)
  <1> DEFINE a == LettersIn(out.chunks)
             b == Letters(out.current)
             c == Letters(added)
  <1>1. a \in Seq(Nat) /\ b \in Seq(Nat) /\ c \in Seq(Nat)
    BY WeightTyped, LettersAre
  <1>2. Weight([chunks |-> out.chunks, current |-> current]) = a \o (b \o c)
        /\ Weight(out) = a \o b
    BY DEF Weight
  <1> HIDE DEF a, b, c
  <1>3. (a \o b) \o c = a \o (b \o c)
    BY <1>1, PlacesAssociative
  <1>4. QED
    BY <1>2, <1>3 DEF c

(* Flushing and starting anew adds the letters of the new text.            *)
LEMMA FlushedWeight ==
    ASSUME NEW max \in Nat, NEW out \in Packing(max), NEW current
    PROVE  Weight([chunks |-> Flushed(out.chunks, out.current), current |-> current])
              = Weight(out) \o Letters(current)
  <1>1. LettersIn(Flushed(out.chunks, out.current)) = Weight(out)
    BY WeightTyped, FlushedKeeps DEF Weight
  <1>2. QED
    BY <1>1 DEF Weight

(* Joining two texts by one without letters joins their letters.           *)
LEMMA JoinedLetters ==
    ASSUME NEW s \in Seq(Char), NEW t \in Seq(Char), NEW u \in Seq(Char), LetterAt(t) = {}
    PROVE  Letters(s \o t \o u) = Letters(s) \o Letters(u)
  <1>1. Letters(s \o t) = Letters(s) \o << >>
    <2>1. Letters(t) = << >>
      BY NoLetters
    <2>2. QED
      BY <2>1, LettersJoin
  <1>2. Letters(s) \o << >> = Letters(s)
    BY LettersAre, ConcatEmptySeq
  <1> DEFINE a == s \o t
  <1>3. a \in Seq(Char)
    BY ConcatProperties
  <1> HIDE DEF a
  <1>4. Letters(a \o u) = Letters(a) \o Letters(u)
    BY <1>3, LettersJoin
  <1>5. QED
    BY <1>1, <1>2, <1>4 DEF a

(* No inserted character is a letter.                                      *)
LEMMA InsertedNoLetters ==
    ASSUME NEW kind \in Kind, kind # "letter"
    PROVE  LetterAt(Inserted(kind)) = {}
  BY DEF LetterAt, Inserted

(* Packing a word adds its letters, also when it is cut.                   *)
LEMMA AddWordKeeps ==
    ASSUME NEW max \in Nat \ {0}, NEW out \in Packing(max), NEW word \in Seq(Char)
    PROVE  Weight(AddWord(out, word, max)) = Weight(out) \o Letters(word)
  <1> DEFINE space == Inserted("space")
             candidate == IF out.current = << >> THEN word ELSE out.current \o space \o word
             flushed == Flushed(out.chunks, out.current)
             full == FullPieces(word, max)
             left == LeftOver(word, max)
  <1>1. AddWord(out, word, max) =
           IF Len(candidate) <= max THEN [chunks |-> out.chunks, current |-> candidate]
           ELSE IF Len(word) <= max THEN [chunks |-> flushed, current |-> word]
           ELSE [chunks |-> flushed \o full, current |-> left]
    BY DEF AddWord
  <1>2. max \in Nat /\ out.current \in Seq(Char)
    BY WeightTyped
  <1>3. candidate \in Seq(Char) /\ Letters(candidate) = Letters(out.current) \o Letters(word)
    <2>1. CASE out.current = << >>
      <3>1. Letters(out.current) = << >> /\ Letters(word) \in Seq(Nat)
        BY <2>1, EmptyTexts, LettersAre
      <3>2. QED
        BY <2>1, <3>1, ConcatEmptySeq
    <2>2. CASE out.current # << >>
      <3>1. space \in Seq(Char) /\ LetterAt(space) = {}
        <4>1. "space" \in Kind /\ "space" # "letter"
          BY DEF Kind
        <4>2. QED
          BY <4>1, InsertedTyped, InsertedNoLetters
      <3> HIDE DEF space
      <3>2. candidate \in Seq(Char)
        BY <1>2, <2>2, <3>1
      <3>3. QED
        BY <1>2, <2>2, <3>1, <3>2, JoinedLetters
    <2>3. QED
      BY <2>1, <2>2
  <1> HIDE DEF candidate
  <1>4. CASE Len(candidate) <= max
    <2>1. AddWord(out, word, max) = [chunks |-> out.chunks, current |-> candidate]
      BY <1>1, <1>4
    <2>2. Weight([chunks |-> out.chunks, current |-> candidate]) = Weight(out) \o Letters(word)
      BY <1>2, <1>3, GrownWeight
    <2>3. QED
      BY <2>1, <2>2
  <1>5. CASE ~(Len(candidate) <= max) /\ Len(word) <= max
    <2>1. AddWord(out, word, max) = [chunks |-> flushed, current |-> word]
      BY <1>1, <1>5
    <2>2. QED
      BY <1>2, <2>1, FlushedWeight
  <1>6. CASE ~(Len(candidate) <= max) /\ ~(Len(word) <= max)
    <2>1. AddWord(out, word, max) = [chunks |-> flushed \o full, current |-> left]
      BY <1>1, <1>6
    <2>2. full \in Seq(Seq(Char)) /\ left \in Seq(Char)
      BY PiecesFit, MessagesAreTexts
    <2>3. flushed \in Seq(Seq(Char))
      BY <1>2, FlushedFits, MessagesAreTexts
    <2>4. LettersIn(full) \o Letters(left) = Letters(word)
      BY PiecesKeep
    <2>5. LettersIn(flushed) = Weight(out)
      BY <1>2, WeightTyped, FlushedKeeps DEF Weight
    <2> HIDE DEF flushed, full, left
    <2>6. LettersIn(flushed \o full) = Weight(out) \o LettersIn(full)
      BY <2>2, <2>3, <2>5, LettersInJoin
    <2> DEFINE a == Weight(out)
               b == LettersIn(full)
               c == Letters(left)
    <2>7. a \in Seq(Nat) /\ b \in Seq(Nat) /\ c \in Seq(Nat)
      BY <1>2, <2>2, WeightTyped, LettersInTyped, LettersAre
    <2>8. Weight(AddWord(out, word, max)) = (a \o b) \o c
      <3>1. \A x, y : Weight([chunks |-> x, current |-> y]) = LettersIn(x) \o Letters(y)
        BY DEF Weight
      <3>2. Weight(AddWord(out, word, max)) = LettersIn(flushed \o full) \o Letters(left)
        BY <2>1, <3>1
      <3>3. QED
        BY <2>6, <3>2
    <2>9. b \o c = Letters(word)
      BY <2>4
    <2> HIDE DEF a, b, c
    <2>10. (a \o b) \o c = a \o (b \o c)
      BY <2>7, PlacesAssociative
    <2>11. QED
      BY <2>8, <2>9, <2>10 DEF a
  <1>7. QED
    BY <1>4, <1>5, <1>6

(* _split_oversized_segment adds the letters of its text.                  *)
LEMMA SplitKeeps ==
    ASSUME NEW max \in Nat \ {0}, NEW t \in Seq(Char), NEW chunks \in Seq(Message(max))
    PROVE  Weight(SplitOversized(t, max, chunks)) = LettersIn(chunks) \o Letters(t)
  <1> DEFINE words == Words(t)
             N == Len(words)
             base == LettersIn(chunks)
  <1>1. words \in Seq(Seq(Char)) /\ LettersIn(words) = Letters(t)
    BY WordsTyped, WordsKeep DEF LettersIn
  <1>2. PICK split \in [0 .. N -> Packing(max)] :
           /\ SplitOversized(t, max, chunks) = split[N]
           /\ split[0] = [chunks |-> chunks, current |-> << >>]
           /\ \A k \in 1 .. N : split[k] = AddWord(split[k - 1], words[k], max)
    BY SplitLoop
  <1> HIDE DEF words
  <1>3. N \in Nat /\ \A k \in 1 .. N : words[k] \in Seq(Char)
    BY <1>1
  <1>4. PICK f \in [0 .. N -> Seq(Char)] : IsFlattening(f, words) /\ FlattenSeq(words) = f[N]
    BY <1>1, FlattenLoop
  <1>5. base \in Seq(Nat)
    BY MessagesAreTexts, LettersInTyped
  <1> DEFINE T == {k \in 0 .. N : Weight(split[k]) = base \o Letters(f[k])}
  <1> HIDE DEF N
  <1>6. 0 \in T
    <2>1. 0 \in 0 .. N /\ f[0] = << >>
      BY <1>3, <1>4 DEF IsFlattening
    <2>2. Weight(split[0]) = base \o Letters(<< >>)
      BY <1>2 DEF Weight
    <2>3. QED
      BY <2>1, <2>2
  <1>7. ASSUME NEW k \in 1 .. N, k - 1 \in T PROVE k \in T
    <2> DEFINE out == split[k - 1]
               word == words[k]
               u == f[k - 1]
    <2>1. k \in 0 .. N /\ k - 1 \in 0 .. N
      BY <1>3
    <2>2. f[k] = u \o word
      BY <1>4 DEF IsFlattening, N
    <2>3. split[k] = AddWord(out, word, max)
      BY <1>2
    <2>4. out \in Packing(max) /\ word \in Seq(Char) /\ u \in Seq(Char)
      BY <1>2, <1>3, <1>4, <2>1
    <2>5. Weight(out) = base \o Letters(u)
      BY <1>7
    <2> HIDE DEF out, word, u, base, T
    <2>6. Weight(split[k]) = (base \o Letters(u)) \o Letters(word)
      BY <2>3, <2>4, <2>5, AddWordKeeps
    <2>7. Letters(u \o word) = Letters(u) \o Letters(word)
      BY <2>4, LettersJoin
    <2>8. (base \o Letters(u)) \o Letters(word) = base \o (Letters(u) \o Letters(word))
      <3> DEFINE b == Letters(u)
                 c == Letters(word)
      <3>1. b \in Seq(Nat) /\ c \in Seq(Nat)
        BY <2>4, LettersAre
      <3> HIDE DEF b, c
      <3>2. (base \o b) \o c = base \o (b \o c)
        BY <1>5, <3>1, PlacesAssociative
      <3>3. QED
        BY <3>2 DEF b, c
    <2>9. Weight(split[k]) = base \o Letters(f[k])
      BY <2>2, <2>6, <2>7, <2>8
    <2>10. QED
      BY <2>1, <2>9 DEF T
  <1> HIDE DEF T
  <1>8. \A k \in 0 .. N : k \in T
    BY <1>3, <1>6, <1>7, UpTo
  <1>9. N \in 0 .. N
    BY <1>3
  <1>10. Weight(split[N]) = base \o Letters(f[N])
    BY <1>8, <1>9 DEF T
  <1>11. QED
    BY <1>1, <1>2, <1>4, <1>10 DEF LettersIn

(* Packing a segment adds its letters.                                     *)
LEMMA AddSegmentKeeps ==
    ASSUME NEW max \in Nat \ {0}, NEW out \in Packing(max), NEW s \in Segment
    PROVE  Weight(AddSegment(out, s, max)) = Weight(out) \o Letters(s.text)
  <1> DEFINE flushed == Flushed(out.chunks, out.current)
             grown == IF out.current = << >> THEN s.text ELSE out.current \o Joiner(s) \o s.text
  <1>1. max \in Nat /\ out.current \in Seq(Char) /\ s.text \in Seq(Char)
    BY WeightTyped DEF Segment
  <1>2. AddSegment(out, s, max) =
           IF Fits(out.current, s, max) THEN [chunks |-> out.chunks, current |-> grown]
           ELSE IF Len(s.text) <= max THEN [chunks |-> flushed, current |-> s.text]
           ELSE SplitOversized(s.text, max, flushed)
    BY DEF AddSegment
  <1>3. grown \in Seq(Char) /\ Letters(grown) = Letters(out.current) \o Letters(s.text)
    <2>1. CASE out.current = << >>
      <3>1. Letters(out.current) = << >> /\ Letters(s.text) \in Seq(Nat)
        BY <1>1, <2>1, EmptyTexts, LettersAre
      <3>2. QED
        BY <1>1, <2>1, <3>1, ConcatEmptySeq
    <2>2. CASE out.current # << >>
      <3> DEFINE joiner == Joiner(s)
      <3>1. joiner \in Seq(Char) /\ LetterAt(joiner) = {}
        <4>1. joiner \in Seq(Char)
          BY JoinerTyped
        <4>2. LetterAt(joiner) = {}
          BY DEF LetterAt, Joiner, Inserted
        <4>3. QED
          BY <4>1, <4>2
      <3> HIDE DEF joiner
      <3>2. grown = out.current \o joiner \o s.text
        BY <2>2 DEF joiner
      <3>3. grown \in Seq(Char)
        <4>1. out.current \o joiner \in Seq(Char)
          BY <1>1, <3>1, ConcatProperties
        <4>2. out.current \o joiner \o s.text \in Seq(Char)
          BY <1>1, <4>1, ConcatProperties
        <4>3. QED
          BY <3>2, <4>2
      <3>4. Letters(out.current \o joiner \o s.text) = Letters(out.current) \o Letters(s.text)
        BY <1>1, <3>1, JoinedLetters
      <3>5. QED
        BY <3>2, <3>3, <3>4
    <2>3. QED
      BY <2>1, <2>2
  <1> HIDE DEF grown
  <1>4. CASE Fits(out.current, s, max)
    <2>1. AddSegment(out, s, max) = [chunks |-> out.chunks, current |-> grown]
      BY <1>2, <1>4
    <2>2. Weight([chunks |-> out.chunks, current |-> grown]) = Weight(out) \o Letters(s.text)
      BY <1>1, <1>3, GrownWeight
    <2>3. QED
      BY <2>1, <2>2
  <1>5. CASE ~Fits(out.current, s, max) /\ Len(s.text) <= max
    <2>1. AddSegment(out, s, max) = [chunks |-> flushed, current |-> s.text]
      BY <1>2, <1>5
    <2>2. QED
      BY <1>1, <2>1, FlushedWeight
  <1>6. CASE ~Fits(out.current, s, max) /\ ~(Len(s.text) <= max)
    <2>1. AddSegment(out, s, max) = SplitOversized(s.text, max, flushed)
      BY <1>2, <1>6
    <2>2. flushed \in Seq(Message(max))
      BY <1>1, FlushedFits
    <2>3. LettersIn(flushed) = Weight(out)
      BY <1>1, WeightTyped, FlushedKeeps DEF Weight
    <2> HIDE DEF flushed
    <2>4. QED
      BY <1>1, <2>1, <2>2, <2>3, SplitKeeps
  <1>7. QED
    BY <1>4, <1>5, <1>6

(* All segments packed have all of their letters.                          *)
LEMMA PackedKeeps ==
    ASSUME NEW max \in Nat \ {0}, NEW segments \in Seq(Segment)
    PROVE  Weight(Packed(segments, max)) = LettersIn(Texts(segments))
  <1> DEFINE N == Len(segments)
             texts == Texts(segments)
  <1>1. texts \in Seq(Seq(Char)) /\ Len(texts) = N
    BY TextsTyped
  <1>2. N \in Nat /\ \A k \in 1 .. N : segments[k] \in Segment /\ texts[k] = segments[k].text
    BY DEF Texts
  <1>3. PICK packed \in [0 .. N -> Packing(max)] :
           /\ Packed(segments, max) = packed[N]
           /\ packed[0] = [chunks |-> << >>, current |-> << >>]
           /\ \A k \in 1 .. N : packed[k] = AddSegment(packed[k - 1], segments[k], max)
    BY PackedLoop
  <1> HIDE DEF N, texts
  <1>4. PICK f \in [0 .. N -> Seq(Char)] : IsFlattening(f, texts) /\ FlattenSeq(texts) = f[N]
    BY <1>1, FlattenLoop
  <1> DEFINE T == {k \in 0 .. N : Weight(packed[k]) = Letters(f[k])}
  <1>5. 0 \in T
    <2>1. 0 \in 0 .. N /\ f[0] = << >>
      BY <1>2, <1>4 DEF IsFlattening
    <2>2. Weight(packed[0]) = Letters(FlattenSeq(<< >>)) \o Letters(<< >>)
      BY <1>3 DEF Weight, LettersIn
    <2>3. << >> \o << >> = << >>
      OBVIOUS
    <2>4. QED
      BY <2>1, <2>2, <2>3, EmptyTexts
  <1>6. ASSUME NEW k \in 1 .. N, k - 1 \in T PROVE k \in T
    <2> DEFINE out == packed[k - 1]
               s == segments[k]
               u == f[k - 1]
    <2>1. k \in 0 .. N /\ k - 1 \in 0 .. N
      BY <1>2
    <2>2. s \in Segment /\ texts[k] = s.text
      BY <1>2
    <2>3. f[k] = u \o s.text
      BY <1>1, <1>4, <2>2 DEF IsFlattening
    <2>4. packed[k] = AddSegment(out, s, max)
      BY <1>3
    <2>5. out \in Packing(max) /\ u \in Seq(Char)
      BY <1>3, <1>4, <2>1
    <2>6. Weight(out) = Letters(u)
      BY <1>6
    <2> HIDE DEF out, s, u, T
    <2>7. Weight(packed[k]) = Letters(u) \o Letters(s.text)
      BY <2>2, <2>4, <2>5, <2>6, AddSegmentKeeps
    <2>8. s.text \in Seq(Char)
      BY <2>2 DEF Segment
    <2>9. Letters(u \o s.text) = Letters(u) \o Letters(s.text)
      BY <2>5, <2>8, LettersJoin
    <2>10. QED
      BY <2>1, <2>3, <2>7, <2>9 DEF T
  <1> HIDE DEF T
  <1>7. \A k \in 0 .. N : k \in T
    BY <1>2, <1>5, <1>6, UpTo
  <1>8. Weight(packed[N]) = Letters(f[N])
    <2>1. N \in T
      BY <1>2, <1>7
    <2>2. QED
      BY <2>1 DEF T
  <1>9. QED
    BY <1>3, <1>4, <1>8 DEF LettersIn, texts

(* chunk_message keeps the letters of the reply.                           *)
LEMMA ChunkMessageKeeps ==
    ASSUME NEW t \in Seq(Char), NEW max \in Nat \ {0}
    PROVE  LettersIn(ChunkMessage(t, max)) = Letters(t)
  <1> DEFINE segments == Segments(t, max)
             packed == Packed(segments, max)
             N == Len(segments)
  <1>1. segments \in Seq(Segment) /\ LettersIn(Texts(segments)) = Letters(t)
    BY SegmentsTyped, SegmentsKeep DEF LettersIn
  <1>2. ChunkMessage(t, max) = Flushed(packed.chunks, packed.current)
    BY DEF ChunkMessage
  <1> HIDE DEF segments
  <1>3. N \in 0 .. N
    BY <1>1
  <1>4. packed \in Packing(max)
    <2>1. PICK f \in [0 .. N -> Packing(max)] : packed = f[N]
      BY <1>1, PackedLoop
    <2>2. QED
      BY <1>3, <2>1
  <1>5. Weight(packed) = Letters(t)
    BY <1>1, PackedKeeps
  <1> HIDE DEF packed
  <1>6. max \in Nat /\ packed.chunks \in Seq(Seq(Char)) /\ packed.current \in Seq(Char)
    BY <1>4, WeightTyped
  <1>7. QED
    BY <1>2, <1>5, <1>6, FlushedKeeps DEF Weight


(* Every letter of a reply is sent once and in order, for a reply of any   *)
(* length and any limit: chunk_message loses no letter where it cuts and   *)
(* strips.                                                                 *)
THEOREM AllLettersKept == Spec => []LettersKept
  <1>1. IInv => LettersKept
    <2> SUFFICES ASSUME IInv, Done("chunk")
                 PROVE  Places(FlattenSeq(Out), {"letter"}) = Places(job.text, {"letter"})
      BY DEF LettersKept
    <2>1. job.text \in Seq(Char) /\ job.max \in Nat \ {0} /\ Out = ChunkMessage(job.text, job.max)
      BY OutOf, JobAssumption DEF ResultOf
    <2>2. LettersIn(Out) = Letters(job.text)
      BY <2>1, ChunkMessageKeeps
    <2>3. QED
      BY <2>2 DEF LettersIn, Letters
  <1>2. QED
    BY <1>1, ResultInvariance, PTL

----------------------------------------------------------------------------
(* Words.                                                                  *)

IsWord(w) == w \in Seq(Char) /\ w # << >> /\ \A k \in 1 .. Len(w) : Solid(w[k])

(* w stands in t from a on.                                                *)
StandsAt(t, a, w) == a + Len(w) - 1 <= Len(t) /\ \A k \in 1 .. Len(w) : t[a + k - 1] = w[k]
Shows(t, w) == \E a \in 1 .. Len(t) : StandsAt(t, a, w)

(* In t a word begins as w does.                                           *)
BeginsAt(t, a, w) == StandsAt(t, a, w) /\ (a = 1 \/ ~Solid(t[a - 1]))
HasWord(t, w) == \E a \in 1 .. Len(t) : BeginsAt(t, a, w)

(* No word of t goes on behind a terminator.                               *)
Tailed(t) == \A i, j \in 1 .. Len(t) : i < j /\ t[i].kind = "dot" => ~Solid(t[j])

(* A part of a text that contains the place of a word has the word.        *)
LEMMA CutHas ==
    ASSUME NEW t \in Seq(Char), NEW w, IsWord(w), NEW a \in 1 .. Len(t), BeginsAt(t, a, w),
           NEW m \in 1 .. a, NEW n \in Nat, a + Len(w) - 1 <= n, n <= Len(t)
    PROVE  HasWord(SubSeq(t, m, n), w)
  <1> DEFINE s == SubSeq(t, m, n)
             b == a - m + 1
  <1>1. /\ Len(t) \in Nat /\ Len(w) \in Nat /\ Len(w) >= 1 /\ m \in Nat /\ m >= 1
        /\ a \in Nat /\ m <= a /\ a <= n /\ a <= Len(t)
    BY DEF IsWord
  <1>2. /\ Len(s) = n - m + 1
        /\ \A i \in 1 .. n - m + 1 : s[i] = t[m + i - 1]
    <2>1. m \in Nat \ {0} /\ m <= n
      BY <1>1
    <2>2. QED
      BY <2>1, SubSeqOf
  <1>3. b \in 1 .. Len(s) /\ b + Len(w) - 1 <= Len(s)
    BY <1>1, <1>2
  <1>4. ASSUME NEW k \in 1 .. Len(w) PROVE s[b + k - 1] = w[k]
    <2>1. b + k - 1 \in 1 .. n - m + 1 /\ m + (b + k - 1) - 1 = a + k - 1
      BY <1>1
    <2>2. s[b + k - 1] = t[a + k - 1]
      BY <1>2, <2>1
    <2>3. QED
      BY <2>2 DEF BeginsAt, StandsAt
  <1>5. ASSUME b # 1 PROVE ~Solid(s[b - 1])
    <2>1. a # 1 /\ b - 1 \in 1 .. n - m + 1 /\ m + (b - 1) - 1 = a - 1
      BY <1>1, <1>5
    <2>2. s[b - 1] = t[a - 1]
      BY <1>2, <2>1
    <2>3. QED
      BY <2>1, <2>2 DEF BeginsAt
  <1> HIDE DEF s, b
  <1>6. QED
    BY <1>3, <1>4, <1>5 DEF HasWord, BeginsAt, StandsAt, s, b

(* The places of a word are solid.                                         *)
LEMMA WordPlaces ==
    ASSUME NEW t \in Seq(Char), NEW w, IsWord(w), NEW a \in 1 .. Len(t), BeginsAt(t, a, w)
    PROVE  /\ a \in Nat /\ Len(w) \in Nat /\ Len(w) >= 1 /\ a + Len(w) - 1 \in Nat
           /\ a <= a + Len(w) - 1 /\ a + Len(w) - 1 <= Len(t)
           /\ \A i \in a .. a + Len(w) - 1 : i \in 1 .. Len(t) /\ Solid(t[i])
  <1>1. /\ Len(t) \in Nat /\ Len(w) \in Nat /\ Len(w) >= 1 /\ a \in Nat /\ a >= 1
        /\ a + Len(w) - 1 <= Len(t)
    BY DEF IsWord, BeginsAt, StandsAt
  <1>2. ASSUME NEW i \in a .. a + Len(w) - 1 PROVE i \in 1 .. Len(t) /\ Solid(t[i])
    <2> DEFINE k == i - a + 1
    <2>1. k \in 1 .. Len(w) /\ a + k - 1 = i
      BY <1>1
    <2> HIDE DEF k
    <2>2. t[i] = w[k] /\ Solid(w[k])
      BY <2>1 DEF IsWord, BeginsAt, StandsAt
    <2>3. QED
      BY <1>1, <2>2
  <1>3. QED
    BY <1>1, <1>2

(* Stripping white space leaves every word.                                *)
LEMMA StripHas ==
    ASSUME NEW t \in Seq(Char), NEW w, IsWord(w), HasWord(t, w)
    PROVE  HasWord(Strip(t), w)
  <1> DEFINE keep == {i \in DOMAIN t : t[i].kind \notin Whitespace}
  <1>1. keep \in SUBSET Nat /\ Len(t) \in Nat /\ \A i \in keep : i \in 1 .. Len(t) /\ i <= Len(t)
    OBVIOUS
  <1>2. Strip(t) = IF keep = {} THEN << >> ELSE SubSeq(t, Min(keep), Max(keep))
    BY DEF Strip
  <1>3. PICK a \in 1 .. Len(t) : BeginsAt(t, a, w)
    BY DEF HasWord
  <1> DEFINE e == a + Len(w) - 1
  <1>4. /\ a \in Nat /\ Len(w) \in Nat /\ e \in Nat /\ a <= e /\ e <= Len(t)
        /\ \A i \in a .. e : i \in 1 .. Len(t) /\ Solid(t[i])
    BY <1>3, WordPlaces
  <1>5. \A i \in a .. e : i \in keep
    <2>1. \A i \in a .. e : i \in 1 .. Len(t) /\ t[i].kind \notin Whitespace
      BY <1>4 DEF Solid
    <2>2. QED
      BY <2>1
  <1>6. a \in keep /\ e \in keep
    <2> HIDE DEF keep
    <2>1. a \in a .. e /\ e \in a .. e
      BY <1>4
    <2>2. QED
      BY <1>5, <2>1
  <1> HIDE DEF keep
  <1>7. /\ Min(keep) \in keep /\ Max(keep) \in keep
        /\ \A i \in keep : Min(keep) <= i /\ i <= Max(keep)
    BY <1>1, <1>6, MinIsLeast, MaxIsGreatest
  <1> DEFINE m == Min(keep)
             n == Max(keep)
  <1> HIDE DEF m, n
  <1>8. m \in 1 .. a /\ n \in Nat /\ e <= n /\ n <= Len(t)
    <2>1. m \in 1 .. Len(t) /\ n \in 1 .. Len(t) /\ m <= a /\ e <= n
      BY <1>1, <1>6, <1>7 DEF m, n
    <2>2. QED
      BY <1>1, <1>4, <2>1
  <1>9. HasWord(SubSeq(t, m, n), w)
    BY <1>3, <1>8, CutHas
  <1>10. QED
    BY <1>2, <1>6, <1>9 DEF m, n

(* Cutting out positions that hold no part of a word leaves every word in  *)
(* one of the runs.                                                        *)
LEMMA RunsHave ==
    ASSUME NEW t \in Seq(Char), NEW S \in SUBSET DOMAIN t,
           \A i \in DOMAIN t : Solid(t[i]) => i \in S,
           NEW w, IsWord(w), HasWord(t, w)
    PROVE  \E k \in 1 .. Len(Runs(t, S)) : HasWord(Runs(t, S)[k], w)
  <1> DEFINE F == {i \in S : i - 1 \notin S}
             c == Cardinality(F)
             p == Ascending(F)
  <1>1. /\ Len(t) \in Nat /\ S \in SUBSET (1 .. Len(t)) /\ F \in SUBSET (1 .. Len(t)) /\ F \subseteq S
        /\ F \in SUBSET Nat
        /\ \A i \in S : i - 1 \notin S => i \in F
    OBVIOUS
  <1>2. PICK a \in 1 .. Len(t) : BeginsAt(t, a, w)
    BY DEF HasWord
  <1> DEFINE e == a + Len(w) - 1
  <1>3. /\ a \in Nat /\ Len(w) \in Nat /\ e \in Nat /\ a <= e /\ e <= Len(t)
        /\ \A i \in a .. e : i \in 1 .. Len(t) /\ Solid(t[i])
    BY <1>2, WordPlaces
  <1>4. a .. e \subseteq S /\ a \in a .. e
    <2>1. \A i \in a .. e : i \in DOMAIN t /\ Solid(t[i])
      BY <1>3
    <2> HIDE DEF e
    <2>2. \A i \in a .. e : i \in S
      BY <2>1
    <2>3. QED
      BY <1>3, <2>2
  <1>5. PICK f \in S : f - 1 \notin S /\ f <= a /\ f .. a \subseteq S
    BY <1>1, <1>4, RunStart
  <1>6. f \in F /\ f \in Nat /\ f >= 1
    BY <1>1, <1>5
  <1> DEFINE l == LastOfRun(S, f)
  <1>7. l \in S /\ e <= l /\ l <= Len(t)
    <2>1. f .. e \subseteq S /\ e \in S
      <3>1. \A i \in f .. e : i \in f .. a \/ i \in a .. e
        BY <1>3, <1>6
      <3>2. e \in a .. e
        BY <1>3
      <3>3. QED
        BY <1>4, <1>5, <3>1, <3>2
    <2>2. l \in S /\ \A j \in S : f .. j \subseteq S => j <= l
      BY <1>1, <1>5, LastOfRunIn
    <2>3. QED
      BY <1>1, <2>1, <2>2
  <1> HIDE DEF F, c, p, l
  <1>8. IsFiniteSet(F) /\ Len(p) = c /\ c \in Nat /\ DOMAIN p = 1 .. c
    <2>1. IsFiniteSet(F) /\ Len(p) = c /\ p \in Seq(F)
      BY <1>1, AscendingOf DEF p, c
    <2>2. QED
      BY <2>1
  <1>9. PICK k \in 1 .. c : p[k] = f
    BY <1>1, <1>6, <1>8, AscendingAtRank DEF p, c
  <1>10. Runs(t, S) = [i \in 1 .. c |-> SubSeq(t, p[i], LastOfRun(S, p[i]))]
    BY <1>8 DEF Runs, LastOfRun, p, F
  <1>11. Len(Runs(t, S)) = c /\ Runs(t, S)[k] = SubSeq(t, f, l)
    <2> DEFINE r == Runs(t, S)
    <2>1. r \in Seq(Seq(Char))
      BY RunsTyped
    <2>2. DOMAIN r = 1 .. c /\ r[k] = SubSeq(t, f, l)
      BY <1>9, <1>10 DEF l
    <2> HIDE DEF r
    <2>3. Len(r) = c
      BY <1>8, <2>1, <2>2
    <2>4. QED
      BY <2>2, <2>3 DEF r
  <1>12. HasWord(SubSeq(t, f, l), w)
    <2>1. f \in 1 .. a /\ l \in Nat
      BY <1>1, <1>3, <1>5, <1>6, <1>7
    <2>2. QED
      BY <1>2, <1>7, <2>1, CutHas
  <1>13. QED
    BY <1>9, <1>11, <1>12

(* A word is not empty, nor is a text that has one.                        *)
LEMMA HasIsNonEmpty ==
    ASSUME NEW t \in Seq(Char), NEW w, HasWord(t, w)
    PROVE  t # << >>
  BY DEF HasWord

(* In a part of a text no word goes on behind a terminator if none does in *)
(* the text.                                                               *)
LEMMA CutTailed ==
    ASSUME NEW t \in Seq(Char), Tailed(t), NEW m \in Nat \ {0}, NEW n \in Nat, n <= Len(t)
    PROVE  Tailed(SubSeq(t, m, n))
  <1> DEFINE s == SubSeq(t, m, n)
  <1>1. /\ Len(t) \in Nat /\ Len(s) = IF m <= n THEN n - m + 1 ELSE 0
        /\ \A i \in 1 .. n - m + 1 : s[i] = t[m + i - 1]
    BY SubSeqOf
  <1> HIDE DEF s
  <1>2. ASSUME NEW i \in 1 .. Len(s), NEW j \in 1 .. Len(s), i < j, s[i].kind = "dot"
        PROVE  ~Solid(s[j])
    <2>1. /\ i \in 1 .. n - m + 1 /\ j \in 1 .. n - m + 1
          /\ m + i - 1 \in 1 .. Len(t) /\ m + j - 1 \in 1 .. Len(t) /\ m + i - 1 < m + j - 1
      <3>1. m <= n /\ Len(s) = n - m + 1
        BY <1>1
      <3>2. i \in Nat /\ j \in Nat /\ 1 <= i /\ i <= n - m + 1 /\ 1 <= j /\ j <= n - m + 1
        BY <3>1
      <3>3. QED
        BY <1>1, <1>2, <3>1, <3>2
    <2>2. s[i] = t[m + i - 1] /\ s[j] = t[m + j - 1]
      BY <1>1, <2>1
    <2>3. QED
      BY <1>2, <2>1, <2>2 DEF Tailed
  <1>3. QED
    BY <1>2 DEF Tailed, s

(* Stripping adds nothing behind a terminator.                             *)
LEMMA StripTailed ==
    ASSUME NEW t \in Seq(Char), Tailed(t)
    PROVE  Tailed(Strip(t))
  <1> DEFINE keep == {i \in DOMAIN t : t[i].kind \notin Whitespace}
             m == Min(keep)
             n == Max(keep)
  <1>1. keep \in SUBSET Nat /\ Len(t) \in Nat /\ \A i \in keep : i \in 1 .. Len(t) /\ i <= Len(t)
    OBVIOUS
  <1>2. Strip(t) = IF keep = {} THEN << >> ELSE SubSeq(t, m, n)
    BY DEF Strip
  <1> HIDE DEF keep
  <1>3. ASSUME keep # {} PROVE Tailed(SubSeq(t, m, n))
    <2>1. m \in keep /\ n \in keep
      BY <1>1, <1>3, MinIsLeast, MaxIsGreatest
    <2> HIDE DEF m, n
    <2>2. m \in Nat \ {0} /\ n \in Nat /\ n <= Len(t)
      BY <1>1, <2>1
    <2>3. QED
      BY <2>2, CutTailed
  <1>4. Tailed(<< >>)
    BY DEF Tailed
  <1>5. QED
    BY <1>2, <1>3, <1>4

IsRun(t, S, r) ==
    \E m \in S, n \in S :
        m <= n /\ m - 1 \notin S /\ m .. n \subseteq S /\ r = SubSeq(t, m, n)

(* Each run is a part of the text that lies in the set, and nothing in     *)
(* front of it does.                                                       *)
LEMMA RunsAre ==
    ASSUME NEW t \in Seq(Char), NEW S, S \in SUBSET DOMAIN t
    PROVE  \A k \in 1 .. Len(Runs(t, S)) : IsRun(t, S, Runs(t, S)[k])
  <1> SUFFICES ASSUME NEW k \in 1 .. Len(Runs(t, S)) PROVE IsRun(t, S, Runs(t, S)[k])
    OBVIOUS
  <1> DEFINE F == {i \in S : i - 1 \notin S}
             p == Ascending(F)
             r == Runs(t, S)
  <1>1. /\ Len(t) \in Nat /\ S \in SUBSET (1 .. Len(t)) /\ F \in SUBSET (1 .. Len(t))
        /\ F \subseteq S
    OBVIOUS
  <1>2. r = [i \in DOMAIN p |-> SubSeq(t, p[i], LastOfRun(S, p[i]))]
    BY DEF Runs, LastOfRun
  <1>3. r \in Seq(Seq(Char))
    BY RunsTyped
  <1>4. p \in Seq(F)
    <2> HIDE DEF F
    <2>1. QED
      BY <1>1, AscendingOf
  <1> HIDE DEF F, p, r
  <1>5. k \in DOMAIN r
    BY <1>3 DEF r
  <1>6. k \in DOMAIN p /\ p[k] \in S /\ p[k] - 1 \notin S
    <2>1. k \in DOMAIN p /\ p[k] \in F
      BY <1>2, <1>4, <1>5
    <2>2. QED
      BY <2>1 DEF F
  <1>7. /\ LastOfRun(S, p[k]) \in S /\ p[k] .. LastOfRun(S, p[k]) \subseteq S
        /\ p[k] <= LastOfRun(S, p[k])
    BY <1>1, <1>6, LastOfRunIn
  <1>8. r[k] = SubSeq(t, p[k], LastOfRun(S, p[k]))
    BY <1>2, <1>6
  <1>9. QED
    BY <1>6, <1>7, <1>8 DEF r, IsRun

(* A whitespace-free part of a text stands in one of its words, and a word *)
(* has no white space.                                                     *)
LEMMA WordsHave ==
    ASSUME NEW t \in Seq(Char)
    PROVE  /\ \A w : IsWord(w) /\ HasWord(t, w) =>
                 \E k \in 1 .. Len(Words(t)) : HasWord(Words(t)[k], w)
           /\ \A k \in 1 .. Len(Words(t)) :
                 /\ \A i \in 1 .. Len(Words(t)[k]) : Words(t)[k][i].kind \notin Whitespace
                 /\ Tailed(t) => Tailed(Words(t)[k])
  <1> DEFINE S == {i \in DOMAIN t : t[i].kind \notin Whitespace}
  <1>1. /\ S \in SUBSET DOMAIN t /\ \A i \in DOMAIN t : Solid(t[i]) => i \in S
        /\ Len(t) \in Nat
        /\ \A i \in S : i \in 1 .. Len(t) /\ t[i].kind \notin Whitespace
    BY DEF Solid
  <1>2. Words(t) = Runs(t, S)
    BY DEF Words
  <1> HIDE DEF S
  <1>3. ASSUME NEW w, IsWord(w), HasWord(t, w)
        PROVE  \E k \in 1 .. Len(Words(t)) : HasWord(Words(t)[k], w)
    BY <1>1, <1>2, <1>3, RunsHave
  <1>4. ASSUME NEW k \in 1 .. Len(Words(t))
        PROVE  /\ \A i \in 1 .. Len(Words(t)[k]) : Words(t)[k][i].kind \notin Whitespace
               /\ Tailed(t) => Tailed(Words(t)[k])
    <2>1. PICK m \in S, n \in S : m .. n \subseteq S /\ Words(t)[k] = SubSeq(t, m, n)
      <3>1. k \in 1 .. Len(Runs(t, S)) /\ S \in SUBSET DOMAIN t
        BY <1>1, <1>2
      <3>2. IsRun(t, S, Runs(t, S)[k])
        BY <3>1, RunsAre
      <3>3. QED
        BY <1>2, <3>2 DEF IsRun
    <2>2. m \in Nat \ {0} /\ n \in Nat /\ n <= Len(t) /\ n \in Nat
      BY <1>1
    <2> DEFINE s == SubSeq(t, m, n)
    <2>3. /\ Len(s) = IF m <= n THEN n - m + 1 ELSE 0
          /\ \A i \in 1 .. n - m + 1 : s[i] = t[m + i - 1]
      BY <2>2, SubSeqOf
    <2>4. ASSUME NEW i \in 1 .. Len(s) PROVE s[i].kind \notin Whitespace
      <3>1. i \in 1 .. n - m + 1 /\ m + i - 1 \in m .. n
        BY <2>2, <2>3
      <3>2. s[i] = t[m + i - 1] /\ m + i - 1 \in S
        BY <2>1, <2>3, <3>1
      <3>3. QED
        BY <1>1, <3>2
    <2>5. Tailed(t) => Tailed(s)
      BY <2>2, CutTailed
    <2> HIDE DEF s
    <2>6. Words(t)[k] = s
      BY <2>1 DEF s
    <2>7. QED
      BY <2>4, <2>5, <2>6
  <1>5. QED
    BY <1>3, <1>4

(* Only empty parts are dropped.                                           *)
LEMMA NonEmptyHas ==
    ASSUME NEW parts \in Seq(Seq(Char))
    PROVE  /\ \A k \in 1 .. Len(parts) : parts[k] # << >> =>
                 \E m \in 1 .. Len(NonEmpty(parts)) : NonEmpty(parts)[m] = parts[k]
           /\ \A m \in 1 .. Len(NonEmpty(parts)) :
                 \E k \in 1 .. Len(parts) : NonEmpty(parts)[m] = parts[k]
  <1> DEFINE S == {k \in DOMAIN parts : parts[k] # << >>}
             p == Ascending(S)
             q == NonEmpty(parts)
  <1>1. /\ Len(parts) \in Nat /\ DOMAIN parts = 1 .. Len(parts)
        /\ S \in SUBSET (1 .. Len(parts)) /\ S \in SUBSET Nat
        /\ \A k \in 1 .. Len(parts) : parts[k] # << >> => k \in S
    OBVIOUS
  <1>2. q = [k \in DOMAIN p |-> parts[p[k]]]
    BY DEF NonEmpty, Picked
  <1> HIDE DEF S
  <1>3. q \in Seq(Seq(Char))
    BY NonEmptyTyped
  <1>4. IsFiniteSet(S) /\ p \in Seq(S) /\ Len(p) = Cardinality(S)
    BY <1>1, AscendingOf
  <1> HIDE DEF p, q
  <1>5. Len(q) = Len(p) /\ \A m \in 1 .. Len(q) : q[m] = parts[p[m]] /\ p[m] \in S
    BY <1>2, <1>3, <1>4
  <1>6. ASSUME NEW k \in 1 .. Len(parts), parts[k] # << >>
        PROVE  \E m \in 1 .. Len(q) : q[m] = parts[k]
    <2>1. k \in S
      BY <1>1, <1>6
    <2>2. PICK m \in 1 .. Cardinality(S) : p[m] = k
      BY <1>1, <1>4, <2>1, AscendingAtRank DEF p
    <2>3. QED
      BY <1>4, <1>5, <2>2
  <1>7. ASSUME NEW m \in 1 .. Len(q) PROVE \E k \in 1 .. Len(parts) : q[m] = parts[k]
    BY <1>1, <1>5
  <1>8. QED
    BY <1>6, <1>7 DEF q

(* Stripping the parts and dropping the empty ones keeps their words.      *)
LEMMA PartsHave ==
    ASSUME NEW parts \in Seq(Seq(Char)), NEW w, IsWord(w),
           NEW k \in 1 .. Len(parts), HasWord(parts[k], w)
    PROVE  \E m \in 1 .. Len(NonEmpty(Stripped(parts))) :
              /\ HasWord(NonEmpty(Stripped(parts))[m], w)
              /\ Tailed(parts[k]) => Tailed(NonEmpty(Stripped(parts))[m])
  <1> DEFINE s == Stripped(parts)
  <1>1. s \in Seq(Seq(Char)) /\ Len(s) = Len(parts)
    BY StrippedTyped
  <1>2. s[k] = Strip(parts[k]) /\ parts[k] \in Seq(Char)
    BY DEF Stripped
  <1> HIDE DEF s
  <1>3. HasWord(s[k], w) /\ (Tailed(parts[k]) => Tailed(s[k]))
    BY <1>2, StripHas, StripTailed
  <1>4. k \in 1 .. Len(s) /\ s[k] # << >>
    <2>1. s[k] \in Seq(Char)
      BY <1>1
    <2>2. QED
      BY <1>1, <1>3, <2>1, HasIsNonEmpty
  <1>5. PICK m \in 1 .. Len(NonEmpty(s)) : NonEmpty(s)[m] = s[k]
    BY <1>1, <1>4, NonEmptyHas
  <1>6. QED
    BY <1>3, <1>5 DEF s

(* Every word of a text is in one of its paragraphs.                       *)
LEMMA ParagraphsHave ==
    ASSUME NEW t \in Seq(Char), NEW w, IsWord(w), HasWord(t, w)
    PROVE  \E k \in 1 .. Len(Paragraphs(t)) : HasWord(Paragraphs(t)[k], w)
  <1> DEFINE newline(i) == i \in DOMAIN t /\ t[i].kind = "newline"
             cut == {i \in DOMAIN t : newline(i) /\ (newline(i - 1) \/ newline(i + 1))}
             S == DOMAIN t \ cut
             parts == Runs(t, S)
  <1>1. S \in SUBSET DOMAIN t /\ \A i \in DOMAIN t : Solid(t[i]) => i \in S
    BY DEF Solid, Whitespace
  <1>2. Paragraphs(t) = NonEmpty(Stripped(parts))
    BY DEF Paragraphs, Stripped
  <1> HIDE DEF S
  <1>3. parts \in Seq(Seq(Char)) /\ \E k \in 1 .. Len(parts) : HasWord(parts[k], w)
    BY <1>1, RunsTyped, RunsHave
  <1> HIDE DEF parts
  <1>4. QED
    BY <1>2, <1>3, PartsHave

(* Where a sentence begins: behind a terminator or at the front.           *)
FirstOfSentence(t) == {i \in DOMAIN t : t[i].kind # "dot" /\ (i = 1 \/ t[i - 1].kind = "dot")}

(* What is no terminator belongs to a sentence.                            *)
LEMMA SentenceOf ==
    ASSUME NEW t \in Seq(Char), NEW y \in 1 .. Len(t), t[y].kind # "dot"
    PROVE  \E f \in FirstOfSentence(t) : f <= y /\ \A i \in f .. y : t[i].kind # "dot"
  <1> DEFINE S == {i \in DOMAIN t : t[i].kind # "dot"}
  <1>1. Len(t) \in Nat /\ S \in SUBSET (1 .. Len(t)) /\ y \in S
    OBVIOUS
  <1>2. PICK f \in S : f - 1 \notin S /\ f <= y /\ f .. y \subseteq S
    <2> HIDE DEF S
    <2>1. QED
      BY <1>1, RunStart
  <1>3. f \in FirstOfSentence(t)
    <2>1. f \in 1 .. Len(t) /\ t[f].kind # "dot"
      BY <1>1
    <2>2. f = 1 \/ t[f - 1].kind = "dot"
      <3>1. ASSUME f # 1 PROVE f - 1 \in DOMAIN t
        BY <2>1, <3>1
      <3>2. QED
        BY <1>2, <3>1
    <2>3. QED
      BY <2>1, <2>2 DEF FirstOfSentence
  <1>4. \A i \in f .. y : t[i].kind # "dot"
    BY <1>2
  <1>5. QED
    BY <1>2, <1>3, <1>4

(* There are c raw sentences, and the k-th begins at p[k].                 *)
SentencesFrom(t, c, p) ==
    /\ Len(RawSentences(t)) = c
    /\ \A k \in 1 .. c :
          RawSentences(t)[k] = SubSeq(t, p[k], IF k = c THEN Len(t) ELSE p[k + 1] - 1)
    /\ \A f \in FirstOfSentence(t) : \E k \in 1 .. c : p[k] = f
    /\ \A k \in 1 .. c, f \in FirstOfSentence(t) :
          p[k] < f => k + 1 \in 1 .. c /\ p[k + 1] <= f
    /\ \A k \in 1 .. c : k + 1 \in 1 .. c => p[k] < p[k + 1]

(* The raw sentences begin where sentences begin and end in front of the   *)
(* next, or where the text ends.                                           *)
LEMMA RawSentencesAre ==
    ASSUME NEW t \in Seq(Char)
    PROVE  \E c \in Nat : \E p \in [1 .. c -> FirstOfSentence(t)] : SentencesFrom(t, c, p)
  <1> DEFINE F == FirstOfSentence(t)
             c == Cardinality(F)
             p == Ascending(F)
  <1>1. Len(t) \in Nat /\ F \in SUBSET (1 .. Len(t)) /\ F \in SUBSET Nat
    BY DEF FirstOfSentence
  <1>2. SentenceStarts(t) = p
    BY DEF SentenceStarts, FirstOfSentence
  <1> HIDE DEF F
  <1>3. IsFiniteSet(F) /\ Len(p) = c
    BY <1>1, AscendingOf
  <1>4. c \in Nat /\ p \in [1 .. c -> F]
    BY <1>1, <1>3, AscendingIn
  <1>5. /\ \A f \in F : \E k \in 1 .. c : p[k] = f
        /\ \A k \in 1 .. c, f \in F : p[k] < f => k + 1 \in 1 .. c /\ p[k + 1] <= f
        /\ \A k \in 1 .. c : k + 1 \in 1 .. c => p[k] < p[k + 1]
    <2>1. \A f \in F : \E k \in 1 .. c : p[k] = f
      BY <1>1, <1>3, AscendingAtRank
    <2>2. \A k \in 1 .. c, f \in F : p[k] < f => k + 1 \in 1 .. c /\ p[k + 1] <= f
      BY <1>1, <1>3, AscendingGrows
    <2>3. ASSUME NEW k \in 1 .. c, k + 1 \in 1 .. c PROVE p[k] < p[k + 1]
      <3>1. p[k] \in F
        BY <1>4
      <3>2. QED
        BY <1>1, <1>3, <2>3, <3>1, AscendingGrows
    <2>4. QED
      BY <2>1, <2>2, <2>3
  <1> HIDE DEF c, p
  <1>6. RawSentences(t) = [k \in 1 .. c |-> SubSeq(t, p[k], IF k = c THEN Len(t) ELSE p[k + 1] - 1)]
    BY <1>2, <1>3, <1>4 DEF RawSentences, SentenceEnd
  <1>7. RawSentences(t) \in Seq(Seq(Char))
    BY RawSentencesTyped
  <1>8. Len(RawSentences(t)) = c
    BY <1>4, <1>6, <1>7
  <1>9. QED
    BY <1>4, <1>5, <1>6, <1>8 DEF F, SentencesFrom

(* Every word of a paragraph is in one of its raw sentences, and in none   *)
(* does a word go on behind a terminator.                                  *)
LEMMA RawSentencesHave ==
    ASSUME NEW t \in Seq(Char)
    PROVE  /\ \A w : IsWord(w) /\ HasWord(t, w) =>
                 \E k \in 1 .. Len(RawSentences(t)) : HasWord(RawSentences(t)[k], w)
           /\ \A k \in 1 .. Len(RawSentences(t)) : Tailed(RawSentences(t)[k])
  <1> DEFINE F == FirstOfSentence(t)
  <1>1. PICK c \in Nat : \E p \in [1 .. c -> F] : SentencesFrom(t, c, p)
    BY RawSentencesAre
  <1>1a. PICK p \in [1 .. c -> F] :
           /\ Len(RawSentences(t)) = c
           /\ \A k \in 1 .. c :
                 RawSentences(t)[k] = SubSeq(t, p[k], IF k = c THEN Len(t) ELSE p[k + 1] - 1)
           /\ \A f \in F : \E k \in 1 .. c : p[k] = f
           /\ \A k \in 1 .. c, f \in F : p[k] < f => k + 1 \in 1 .. c /\ p[k + 1] <= f
           /\ \A k \in 1 .. c : k + 1 \in 1 .. c => p[k] < p[k + 1]
    BY <1>1 DEF SentencesFrom
  <1>2. /\ Len(t) \in Nat
        /\ \A f \in F : f \in 1 .. Len(t) /\ f \in Nat /\ f >= 1
        /\ \A f \in F : f = 1 \/ t[f - 1].kind = "dot"
    BY DEF FirstOfSentence
  <1> HIDE DEF F
  <1>3. ASSUME NEW w, IsWord(w), HasWord(t, w)
        PROVE  \E k \in 1 .. Len(RawSentences(t)) : HasWord(RawSentences(t)[k], w)
    <2>1. PICK a \in 1 .. Len(t) : BeginsAt(t, a, w)
      BY <1>3 DEF HasWord
    <2> DEFINE e == a + Len(w) - 1
    <2>2. /\ a \in Nat /\ e \in Nat /\ a <= e /\ e <= Len(t)
          /\ \A i \in a .. e : i \in 1 .. Len(t) /\ Solid(t[i])
      BY <1>3, <2>1, WordPlaces
    <2>3. \A i \in a .. e : t[i].kind # "dot"
      BY <2>2 DEF Solid
    <2> HIDE DEF e
    <2>4. PICK f \in F : f <= a /\ \A i \in f .. a : t[i].kind # "dot"
      <3>1. t[a].kind # "dot"
        BY <2>2, <2>3
      <3>2. QED
        BY <3>1, SentenceOf DEF F
    <2>5. PICK k \in 1 .. c : p[k] = f
      BY <1>1a
    <2> DEFINE n == IF k = c THEN Len(t) ELSE p[k + 1] - 1
    <2>6. n \in Nat /\ e <= n /\ n <= Len(t)
      <3>1. CASE k = c
        BY <1>2, <2>2, <3>1
      <3>2. CASE k # c
        <4>1. k + 1 \in 1 .. c
          BY <3>2
        <4> DEFINE g == p[k + 1]
        <4>2. g \in F /\ f < g
          BY <1>1a, <2>5, <4>1
        <4> HIDE DEF g
        <4>3. f \in Nat /\ f >= 1 /\ g \in Nat /\ g <= Len(t) /\ t[g - 1].kind = "dot"
          BY <1>2, <4>2
        <4>4. ~(g <= e)
          <5> SUFFICES ASSUME g <= e PROVE FALSE
            OBVIOUS
          <5>1. g - 1 \in f .. a \/ g - 1 \in a .. e
            BY <2>2, <4>2, <4>3
          <5>2. QED
            BY <2>3, <2>4, <4>3, <5>1
        <4>5. n = g - 1
          BY <3>2 DEF g
        <4> HIDE DEF n
        <4>6. QED
          BY <1>2, <2>2, <4>2, <4>3, <4>4, <4>5
      <3>3. QED
        BY <3>1, <3>2
    <2>7. RawSentences(t)[k] = SubSeq(t, f, n)
      BY <1>1a, <2>5
    <2> HIDE DEF n
    <2>8. f \in 1 .. a
      BY <1>2, <2>2, <2>4
    <2>9. HasWord(SubSeq(t, f, n), w)
      BY <1>3, <2>1, <2>6, <2>8, CutHas DEF e
    <2>10. QED
      BY <1>1a, <2>7, <2>9
  <1>4. ASSUME NEW k \in 1 .. c PROVE Tailed(RawSentences(t)[k])
    <2> DEFINE m == p[k]
               n == IF k = c THEN Len(t) ELSE p[k + 1] - 1
               s == SubSeq(t, m, n)
    <2>1. m \in F /\ m \in Nat /\ m >= 1
      BY <1>1a, <1>2
    <2>2. n \in Nat /\ n <= Len(t)
      <3>1. CASE k = c
        BY <1>2, <3>1
      <3>2. CASE k # c
        <4>1. k + 1 \in 1 .. c
          BY <3>2
        <4>2. p[k + 1] \in F
          BY <1>1a, <4>1
        <4>3. QED
          BY <1>2, <3>2, <4>2
      <3>3. QED
        BY <3>1, <3>2
    <2>3. RawSentences(t)[k] = s
      BY <1>1a
    <2>4. \A f \in F : m < f => n < f
      <3> SUFFICES ASSUME NEW f \in F, m < f PROVE n < f
        OBVIOUS
      <3>1. k + 1 \in 1 .. c /\ p[k + 1] <= f
        BY <1>1a
      <3>2. p[k + 1] \in F /\ k # c
        BY <1>1a, <3>1
      <3>3. n = p[k + 1] - 1
        BY <3>2
      <3>4. QED
        BY <1>2, <3>1, <3>2, <3>3
    <2> HIDE DEF m, n
    <2>5. /\ Len(s) = IF m <= n THEN n - m + 1 ELSE 0
          /\ \A i \in 1 .. n - m + 1 : s[i] = t[m + i - 1]
      BY <2>1, <2>2, SubSeqOf
    <2> HIDE DEF s
    <2>6. ASSUME NEW i \in 1 .. Len(s), NEW j \in 1 .. Len(s), i < j,
                 s[i].kind = "dot", Solid(s[j])
          PROVE  FALSE
      <3>1. m <= n /\ Len(s) = n - m + 1
        BY <2>5
      <3>2. i \in Nat /\ j \in Nat /\ 1 <= i /\ j <= n - m + 1
        BY <3>1
      <3> DEFINE x == m + i - 1
                 y == m + j - 1
      <3>3. x \in Nat /\ y \in 1 .. Len(t) /\ m <= x /\ x < y /\ y <= n
        BY <1>2, <2>1, <2>2, <2>6, <3>1, <3>2
      <3>4. t[x].kind = "dot" /\ t[y].kind # "dot"
        <4>1. i \in 1 .. n - m + 1 /\ j \in 1 .. n - m + 1
          BY <3>1
        <4>2. s[i] = t[x] /\ s[j] = t[y]
          BY <2>5, <4>1
        <4>3. QED
          BY <2>6, <4>2 DEF Solid
      <3> HIDE DEF x, y
      <3>5. PICK f \in F : f <= y /\ \A z \in f .. y : t[z].kind # "dot"
        BY <3>3, <3>4, SentenceOf DEF F
      <3>6. f \in Nat /\ x < f
        <4>1. f \in Nat /\ x \notin f .. y
          BY <1>2, <3>4, <3>5
        <4>2. QED
          BY <3>3, <4>1
      <3>7. n < f
        BY <2>1, <2>4, <3>3, <3>6
      <3>8. QED
        BY <2>2, <3>3, <3>5, <3>6, <3>7
    <2>7. QED
      BY <2>3, <2>6 DEF Tailed
  <1>5. QED
    BY <1>1a, <1>3, <1>4

(* Every word of a paragraph is in one of its sentences, in which no word  *)
(* goes on behind a terminator.                                            *)
LEMMA SentencesHave ==
    ASSUME NEW p \in Seq(Char), NEW w, IsWord(w), HasWord(p, w)
    PROVE  \E k \in 1 .. Len(Sentences(p)) : HasWord(Sentences(p)[k], w) /\ Tailed(Sentences(p)[k])
  <1>1. Sentences(p) = NonEmpty(Stripped(RawSentences(p))) /\ RawSentences(p) \in Seq(Seq(Char))
    BY SentencesTyped, RawSentencesTyped
  <1>2. PICK k \in 1 .. Len(RawSentences(p)) :
           HasWord(RawSentences(p)[k], w) /\ Tailed(RawSentences(p)[k])
    BY RawSentencesHave
  <1>3. QED
    BY <1>1, <1>2, PartsHave

(* What is in a part is in the flattening.                                 *)
LEMMA FlattenHas ==
    ASSUME NEW A, NEW seqs \in Seq(Seq(A)), NEW k \in 1 .. Len(seqs), NEW i \in 1 .. Len(seqs[k])
    PROVE  \E m \in 1 .. Len(FlattenSeq(seqs)) : FlattenSeq(seqs)[m] = seqs[k][i]
  <1> DEFINE N == Len(seqs)
             x == seqs[k][i]
  <1>1. N \in Nat /\ k \in 1 .. N /\ \A n \in 1 .. N : seqs[n] \in Seq(A)
    OBVIOUS
  <1>2. PICK f \in [0 .. N -> Seq(A)] : IsFlattening(f, seqs) /\ FlattenSeq(seqs) = f[N]
    BY FlattenLoop
  <1> DEFINE T == {n \in 0 .. N : n < k \/ \E m \in 1 .. Len(f[n]) : f[n][m] = x}
  <1>3. 0 \in T
    BY <1>1
  <1>4. ASSUME NEW n \in 1 .. N, n - 1 \in T PROVE n \in T
    <2> DEFINE s == f[n - 1]
               t == seqs[n]
    <2>1. n \in 0 .. N /\ n - 1 \in 0 .. N /\ n \in Nat
      BY <1>1
    <2>2. s \in Seq(A) /\ t \in Seq(A) /\ f[n] = s \o t
      BY <1>1, <1>2, <2>1 DEF IsFlattening
    <2>3. /\ Len(f[n]) = Len(s) + Len(t) /\ Len(s) \in Nat /\ Len(t) \in Nat
          /\ \A m \in 1 .. Len(s) : f[n][m] = s[m]
          /\ \A m \in 1 .. Len(t) : f[n][m + Len(s)] = t[m]
      <3> HIDE DEF s, t
      <3>1. QED
        BY <2>2
    <2>3a. /\ \A m \in 1 .. Len(s) : m \in 1 .. Len(f[n])
           /\ \A m \in 1 .. Len(t) : m + Len(s) \in 1 .. Len(f[n])
      <3> DEFINE p == Len(s)
                 q == Len(t)
                 l == Len(f[n])
      <3>1. p \in Nat /\ q \in Nat /\ l = p + q
        BY <2>3
      <3> HIDE DEF p, q, l
      <3>2. /\ \A m \in 1 .. p : m \in 1 .. l
            /\ \A m \in 1 .. q : m + p \in 1 .. l
        BY ONLY <3>1
      <3>3. QED
        BY <3>2 DEF p, q, l
    <2>4. CASE n < k
      BY <2>1, <2>4
    <2>5. CASE n = k
      <3>1. i \in 1 .. Len(t) /\ t[i] = x
        BY <2>5
      <3> HIDE DEF s, t, x
      <3>2. i + Len(s) \in 1 .. Len(f[n])
        BY ONLY <2>3a, <3>1
      <3>2a. f[n][i + Len(s)] = x
        BY ONLY <2>3, <3>1
      <3>3. QED
        BY <2>1, <3>2, <3>2a
    <2>6. CASE n > k
      <3>1. \E m \in 1 .. Len(s) : s[m] = x
        BY <1>1, <1>4, <2>1, <2>6
      <3> HIDE DEF s, t, x
      <3>2. PICK m \in 1 .. Len(s) : s[m] = x
        BY <3>1
      <3>3. m \in 1 .. Len(f[n]) /\ f[n][m] = x
        BY ONLY <2>3, <2>3a, <3>2
      <3>4. QED
        BY <2>1, <3>3
    <2>7. QED
      BY <1>1, <2>1, <2>4, <2>5, <2>6
  <1>5. \A n \in 0 .. N : n \in T
    <2> HIDE DEF T
    <2>1. QED
      BY <1>1, <1>3, <1>4, UpTo
  <1>6. N \in T /\ ~(N < k)
    <2>1. N \in 0 .. N /\ ~(N < k)
      BY <1>1
    <2> HIDE DEF T
    <2>2. QED
      BY <1>5, <2>1
  <1>7. QED
    BY <1>2, <1>6

(* The segment has the word, and is either short or one in which no word   *)
(* goes on behind a terminator.                                            *)
Carries(segment, w, max) ==
    HasWord(segment.text, w) /\ (Len(segment.text) <= max \/ Tailed(segment.text))

(* Every word of a paragraph is in one of its segments.                    *)
LEMMA ExpandHas ==
    ASSUME NEW p \in Seq(Char), NEW max \in Nat, NEW w, IsWord(w), HasWord(p, w)
    PROVE  \E k \in 1 .. Len(Expand(p, max)) : Carries(Expand(p, max)[k], w, max)
  <1> DEFINE segments(parts) == [k \in DOMAIN parts |-> [text |-> parts[k], blank |-> k = 1]]
             Good(parts) == \E k \in 1 .. Len(parts) :
                               HasWord(parts[k], w) /\ (Len(parts[k]) <= max \/ Tailed(parts[k]))
  <1>1. ASSUME NEW parts \in Seq(Seq(Char)), Expand(p, max) = segments(parts), Good(parts)
        PROVE  \E k \in 1 .. Len(Expand(p, max)) : Carries(Expand(p, max)[k], w, max)
    <2>1. DOMAIN Expand(p, max) = 1 .. Len(parts) /\ Len(parts) \in Nat
          /\ \A k \in 1 .. Len(parts) : Expand(p, max)[k].text = parts[k]
      BY <1>1
    <2>2. Expand(p, max) \in Seq(Segment)
      BY ExpandTyped
    <2>3. Len(Expand(p, max)) = Len(parts)
      BY <2>1, <2>2
    <2>4. QED
      BY <1>1, <2>1, <2>3 DEF Carries
  <1> HIDE DEF segments
  <1>2. CASE Len(p) <= max
    <2>1. Expand(p, max) = segments(<<p>>)
      BY <1>2 DEF Expand, segments
    <2>2. <<p>> \in Seq(Seq(Char)) /\ Good(<<p>>)
      <3>1. Len(<<p>>) = 1 /\ <<p>>[1] = p /\ 1 \in 1 .. 1
        OBVIOUS
      <3>2. QED
        BY <1>2, <3>1
    <2> HIDE DEF Good
    <2>3. QED
      BY <1>1, <2>1, <2>2
  <1>3. CASE Len(p) > max /\ \E i \in DOMAIN p : p[i].kind = "dot"
    <2>1. Sentences(p) \in Seq(Seq(Char)) /\ Good(Sentences(p))
      BY SentencesTyped, SentencesHave
    <2>2. Sentences(p) # << >>
      BY <2>1
    <2>3. ~(Len(p) <= max)
      BY <1>3
    <2>4. Expand(p, max) = segments(Sentences(p))
      BY <1>3, <2>2, <2>3 DEF Expand, segments
    <2> HIDE DEF Good
    <2>5. QED
      BY <1>1, <2>1, <2>4
  <1>4. CASE Len(p) > max /\ ~\E i \in DOMAIN p : p[i].kind = "dot"
    <2>1. Tailed(p)
      BY <1>4 DEF Tailed
    <2>2. Words(p) \in Seq(Seq(Char)) /\ Good(Words(p))
      BY <2>1, WordsTyped, WordsHave
    <2>3. ~(Len(p) <= max)
      BY <1>4
    <2>4. Expand(p, max) = segments(Words(p))
      BY <1>4, <2>3 DEF Expand, segments
    <2> HIDE DEF Good
    <2>5. QED
      BY <1>1, <2>2, <2>4
  <1>5. QED
    BY <1>2, <1>3, <1>4

(* Every word of a reply is in one of its segments.                        *)
LEMMA SegmentsHave ==
    ASSUME NEW t \in Seq(Char), NEW max \in Nat, NEW w, IsWord(w), HasWord(t, w)
    PROVE  \E k \in 1 .. Len(Segments(t, max)) : Carries(Segments(t, max)[k], w, max)
  <1> DEFINE paragraphs == Paragraphs(Strip(t))
             expanded == [k \in DOMAIN paragraphs |-> Expand(paragraphs[k], max)]
  <1>1. paragraphs \in Seq(Seq(Char)) /\ \E k \in 1 .. Len(paragraphs) : HasWord(paragraphs[k], w)
    BY StripTyped, StripHas, ParagraphsTyped, ParagraphsHave
  <1>2. Segments(t, max) = FlattenSeq(expanded)
    BY DEF Segments
  <1> HIDE DEF paragraphs
  <1>3. Len(paragraphs) \in Nat /\ DOMAIN paragraphs = 1 .. Len(paragraphs)
        /\ \A k \in 1 .. Len(paragraphs) : paragraphs[k] \in Seq(Char)
    BY <1>1
  <1>4. \A k \in DOMAIN paragraphs : Expand(paragraphs[k], max) \in Seq(Segment)
    BY <1>3, ExpandTyped
  <1>5. expanded \in [1 .. Len(paragraphs) -> Seq(Segment)]
        /\ \A k \in 1 .. Len(paragraphs) : expanded[k] = Expand(paragraphs[k], max)
    BY <1>3, <1>4
  <1> HIDE DEF expanded
  <1>6. expanded \in Seq(Seq(Segment)) /\ Len(expanded) = Len(paragraphs)
    BY <1>3, <1>5, FunctionIsSeq
  <1>7. PICK k \in 1 .. Len(expanded) : HasWord(paragraphs[k], w)
    BY <1>1, <1>6
  <1>8. PICK i \in 1 .. Len(expanded[k]) : Carries(expanded[k][i], w, max)
    <2>1. expanded[k] = Expand(paragraphs[k], max) /\ paragraphs[k] \in Seq(Char)
      BY <1>3, <1>5, <1>6
    <2>2. QED
      BY <1>7, <2>1, ExpandHas
  <1>9. PICK m \in 1 .. Len(FlattenSeq(expanded)) : FlattenSeq(expanded)[m] = expanded[k][i]
    BY <1>6, FlattenHas
  <1>10. QED
    BY <1>2, <1>8, <1>9

(* What stands in a text stands in every longer text.                      *)
LEMMA JoinShows ==
    ASSUME NEW s \in Seq(Char), NEW t \in Seq(Char), NEW w, IsWord(w), Shows(s, w) \/ Shows(t, w)
    PROVE  Shows(s \o t, w)
  <1> DEFINE u == s \o t
  <1>1. /\ Len(s) \in Nat /\ Len(t) \in Nat /\ Len(u) = Len(s) + Len(t)
        /\ Len(w) \in Nat /\ Len(w) >= 1
        /\ \A i \in 1 .. Len(s) : u[i] = s[i]
        /\ \A i \in 1 .. Len(t) : u[Len(s) + i] = t[i]
    BY DEF IsWord
  <1> HIDE DEF u
  <1>2. CASE Shows(s, w)
    <2>1. PICK a \in 1 .. Len(s) : StandsAt(s, a, w)
      BY <1>2 DEF Shows
    <2>2. ASSUME NEW k \in 1 .. Len(w) PROVE u[a + k - 1] = w[k]
      <3>1. a + k - 1 \in 1 .. Len(s)
        BY <1>1, <2>1 DEF StandsAt
      <3>2. u[a + k - 1] = s[a + k - 1]
        BY <1>1, <3>1
      <3>3. QED
        BY <2>1, <3>2 DEF StandsAt
    <2>3. a + Len(w) - 1 <= Len(u) /\ a \in 1 .. Len(u)
      BY <1>1, <2>1 DEF StandsAt
    <2>4. QED
      BY <2>2, <2>3 DEF Shows, StandsAt, u
  <1>3. CASE Shows(t, w)
    <2>1. PICK a \in 1 .. Len(t) : StandsAt(t, a, w)
      BY <1>3 DEF Shows
    <2> DEFINE b == Len(s) + a
    <2>2. b \in 1 .. Len(u) /\ b + Len(w) - 1 <= Len(u)
      BY <1>1, <2>1 DEF StandsAt
    <2>3. ASSUME NEW k \in 1 .. Len(w) PROVE u[b + k - 1] = w[k]
      <3>1. a + k - 1 \in 1 .. Len(t) /\ b + k - 1 = Len(s) + (a + k - 1)
        BY <1>1, <2>1 DEF StandsAt
      <3>2. u[b + k - 1] = t[a + k - 1]
        BY <1>1, <3>1
      <3>3. QED
        BY <2>1, <3>2 DEF StandsAt
    <2> HIDE DEF b
    <2>4. QED
      BY <2>2, <2>3 DEF Shows, StandsAt, u
  <1>4. QED
    BY <1>2, <1>3

ShownIn(chunks, w) == \E k \in 1 .. Len(chunks) : Shows(chunks[k], w)
Shown(out, w) == ShownIn(out.chunks, w) \/ Shows(out.current, w)

(* What a message shows is still shown when there are more messages.       *)
LEMMA ShownJoin ==
    ASSUME NEW a \in Seq(Seq(Char)), NEW b \in Seq(Seq(Char)), NEW w, ShownIn(a, w) \/ ShownIn(b, w)
    PROVE  ShownIn(a \o b, w)
  <1> DEFINE u == a \o b
  <1>1. /\ Len(a) \in Nat /\ Len(b) \in Nat /\ Len(u) = Len(a) + Len(b)
        /\ \A i \in 1 .. Len(a) : u[i] = a[i]
        /\ \A i \in 1 .. Len(b) : u[Len(a) + i] = b[i]
    OBVIOUS
  <1> HIDE DEF u
  <1>2. CASE ShownIn(a, w)
    <2>1. PICK k \in 1 .. Len(a) : Shows(a[k], w)
      BY <1>2 DEF ShownIn
    <2>2. k \in 1 .. Len(u) /\ u[k] = a[k]
      BY <1>1
    <2>3. QED
      BY <2>1, <2>2 DEF ShownIn, u
  <1>3. CASE ShownIn(b, w)
    <2>1. PICK k \in 1 .. Len(b) : Shows(b[k], w)
      BY <1>3 DEF ShownIn
    <2>2. Len(a) + k \in 1 .. Len(u) /\ u[Len(a) + k] = b[k]
      BY <1>1
    <2>3. QED
      BY <2>1, <2>2 DEF ShownIn, u
  <1>4. QED
    BY <1>2, <1>3

(* Flushing the current text makes it a message.                           *)
LEMMA FlushedShows ==
    ASSUME NEW chunks \in Seq(Seq(Char)), NEW current \in Seq(Char), NEW w,
           ShownIn(chunks, w) \/ Shows(current, w)
    PROVE  ShownIn(Flushed(chunks, current), w)
  <1>1. CASE current = << >>
    <2>1. ~Shows(current, w)
      BY <1>1 DEF Shows
    <2>2. QED
      BY <1>1, <2>1 DEF Flushed
  <1>2. CASE current # << >>
    <2>1. <<current>> \in Seq(Seq(Char)) /\ chunks \o <<current>> = Append(chunks, current)
      OBVIOUS
    <2>2. Shows(current, w) => ShownIn(<<current>>, w)
      <3>1. 1 \in 1 .. Len(<<current>>) /\ <<current>>[1] = current
        OBVIOUS
      <3>2. QED
        BY <3>1 DEF ShownIn
    <2>3. ShownIn(chunks \o <<current>>, w)
      BY <2>1, <2>2, ShownJoin
    <2>4. QED
      BY <1>2, <2>1, <2>3 DEF Flushed
  <1>3. QED
    BY <1>1, <1>2

(* What an overlong word begins with is in its first piece, if it fits.    *)
LEMMA PiecesShow ==
    ASSUME NEW max \in Nat \ {0}, NEW word \in Seq(Char), ~(Len(word) <= max),
           NEW w, IsWord(w), Len(w) <= max, StandsAt(word, 1, w)
    PROVE  ShownIn(FullPieces(word, max), w)
  <1> DEFINE L == Len(word)
             n == L \div max
             pieces == FullPieces(word, max)
             piece == SubSeq(word, 1, max)
  <1>1. L \in Nat /\ max \in Nat /\ max >= 1 /\ max <= L
    OBVIOUS
  <1>2. n \in Nat /\ n >= 1
    <2> HIDE DEF L
    <2>1. n \in Nat /\ L < n * max + max
      BY <1>1
    <2>2. n # 0
      <3> SUFFICES ASSUME n = 0 PROVE FALSE
        OBVIOUS
      <3>1. n * max + max = max
        BY <1>1
      <3>2. QED
        BY <1>1, <2>1, <3>1
    <2> HIDE DEF n
    <2>3. QED
      BY <2>1, <2>2
  <1>3. pieces = [k \in 1 .. n |-> SubSeq(word, (k - 1) * max + 1, k * max)]
    BY DEF FullPieces
  <1>4. pieces \in Seq(Message(max))
    BY PiecesFit
  <1> HIDE DEF n, pieces, L
  <1>5. 1 \in 1 .. Len(pieces)
    BY <1>2, <1>3, <1>4
  <1>6. pieces[1] = piece
    <2>1. 1 \in 1 .. n /\ (1 - 1) * max + 1 = 1 /\ 1 * max = max
      BY <1>1, <1>2
    <2>2. QED
      BY <1>3, <2>1
  <1>7. /\ Len(piece) = max
        /\ \A i \in 1 .. max : piece[i] = word[i]
    <2>1. /\ Len(piece) = IF 1 <= max THEN max - 1 + 1 ELSE 0
          /\ \A i \in 1 .. max - 1 + 1 : piece[i] = word[1 + i - 1]
      BY <1>1, SubSeqOf DEF L
    <2> HIDE DEF piece
    <2>2. QED
      BY <1>1, <2>1
  <1>8. Shows(piece, w)
    <2> HIDE DEF piece
    <2>1. Len(w) \in Nat
      BY DEF IsWord
    <2>2. ASSUME NEW k \in 1 .. Len(w) PROVE piece[1 + k - 1] = w[k]
      <3>1. 1 + k - 1 = k /\ k \in 1 .. max
        BY <1>1, <2>1
      <3>2. word[1 + k - 1] = w[k]
        BY DEF StandsAt
      <3>3. QED
        BY <1>7, <3>1, <3>2
    <2>3. 1 + Len(w) - 1 <= Len(piece) /\ 1 \in 1 .. Len(piece)
      BY <1>1, <1>7, <2>1
    <2>4. QED
      BY <2>2, <2>3 DEF Shows, StandsAt
  <1>9. QED
    BY <1>5, <1>6, <1>8 DEF ShownIn, pieces

(* The word is short, or one in which nothing goes on behind a terminator. *)
Cuttable(word, max) ==
    \/ Len(word) <= max
    \/ Tailed(word) /\ \A i \in 1 .. Len(word) : word[i].kind \notin Whitespace

(* Packing a word keeps what is shown and shows what the word has, also if *)
(* it must be cut.                                                         *)
LEMMA AddWordShows ==
    ASSUME NEW max \in Nat \ {0}, NEW out \in Packing(max), NEW word \in Seq(Char),
           NEW w, IsWord(w), Len(w) <= max,
           Shown(out, w) \/ (HasWord(word, w) /\ Cuttable(word, max))
    PROVE  Shown(AddWord(out, word, max), w)
  <1> DEFINE space == Inserted("space")
             candidate == IF out.current = << >> THEN word ELSE out.current \o space \o word
             flushed == Flushed(out.chunks, out.current)
             full == FullPieces(word, max)
             left == LeftOver(word, max)
  <1>1. AddWord(out, word, max) =
           IF Len(candidate) <= max THEN [chunks |-> out.chunks, current |-> candidate]
           ELSE IF Len(word) <= max THEN [chunks |-> flushed, current |-> word]
           ELSE [chunks |-> flushed \o full, current |-> left]
    BY DEF AddWord
  <1>2. out.chunks \in Seq(Seq(Char)) /\ out.current \in Seq(Char) /\ space \in Seq(Char)
    <2>1. "space" \in Kind
      BY DEF Kind
    <2>2. QED
      BY <2>1, WeightTyped, InsertedTyped
  <1>3. flushed \in Seq(Seq(Char)) /\ full \in Seq(Seq(Char))
    BY FlushedFits, PiecesFit, MessagesAreTexts
  <1>4. HasWord(word, w) => Shows(word, w)
    BY DEF HasWord, BeginsAt, Shows
  <1>5. Shown(out, w) => ShownIn(flushed, w)
    BY <1>2, FlushedShows DEF Shown
  <1>6. CASE Len(candidate) <= max
    <2>1. Shows(out.current, w) \/ Shows(word, w) => Shows(candidate, w)
      <3>1. CASE out.current = << >>
        <4>1. ~Shows(out.current, w) /\ candidate = word
          BY <3>1 DEF Shows
        <4>2. QED
          BY <4>1
      <3>2. CASE out.current # << >>
        <4> HIDE DEF space
        <4>1. out.current \o space \in Seq(Char)
          BY <1>2
        <4>2. Shows(out.current, w) => Shows(out.current \o space, w)
          BY <1>2, JoinShows
        <4>3. candidate = (out.current \o space) \o word
          BY <3>2
        <4> HIDE DEF candidate
        <4>4. QED
          BY <4>1, <4>2, <4>3, JoinShows
      <3>3. QED
        BY <3>1, <3>2
    <2> HIDE DEF candidate
    <2>2. QED
      BY <1>1, <1>4, <1>6, <2>1 DEF Shown
  <1>7. CASE ~(Len(candidate) <= max) /\ Len(word) <= max
    <2> HIDE DEF candidate, flushed
    <2>1. QED
      BY <1>1, <1>4, <1>5, <1>7 DEF Shown
  <1>8. CASE ~(Len(candidate) <= max) /\ ~(Len(word) <= max)
    <2>1. HasWord(word, w) /\ Cuttable(word, max) => ShownIn(full, w)
      <3> SUFFICES ASSUME HasWord(word, w), Cuttable(word, max) PROVE ShownIn(full, w)
        OBVIOUS
      <3>1. PICK a \in 1 .. Len(word) : BeginsAt(word, a, w)
        BY DEF HasWord
      <3>2. Tailed(word) /\ \A i \in 1 .. Len(word) : word[i].kind \notin Whitespace
        BY <1>8 DEF Cuttable
      <3>3. a = 1
        <4> SUFFICES ASSUME a # 1 PROVE FALSE
          OBVIOUS
        <4>1. a - 1 \in 1 .. Len(word) /\ a - 1 < a /\ ~Solid(word[a - 1])
          BY <3>1 DEF BeginsAt
        <4>2. word[a - 1].kind = "dot"
          BY <3>2, <4>1 DEF Solid
        <4>3. Solid(word[a])
          <5>1. a \in a .. a + Len(w) - 1
            BY <3>1, WordPlaces
          <5>2. QED
            BY <3>1, <5>1, WordPlaces
        <4>4. QED
          BY <3>2, <4>1, <4>2, <4>3 DEF Tailed
      <3>4. StandsAt(word, 1, w)
        BY <3>1, <3>3 DEF BeginsAt
      <3>5. QED
        BY <1>8, <3>4, PiecesShow
    <2>2. ShownIn(flushed \o full, w)
      BY <1>3, <1>5, <2>1, ShownJoin
    <2> HIDE DEF candidate, flushed, full
    <2>3. QED
      BY <1>1, <1>8, <2>2 DEF Shown
  <1>9. QED
    BY <1>6, <1>7, <1>8

(* Splitting an overlong segment keeps what is shown and shows every word  *)
(* of the segment.                                                         *)
LEMMA SplitShows ==
    ASSUME NEW max \in Nat \ {0}, NEW t \in Seq(Char), NEW chunks \in Seq(Message(max)),
           NEW w, IsWord(w), Len(w) <= max,
           ShownIn(chunks, w) \/ (HasWord(t, w) /\ Tailed(t))
    PROVE  Shown(SplitOversized(t, max, chunks), w)
  <1> DEFINE words == Words(t)
             N == Len(words)
  <1>1. /\ words \in Seq(Seq(Char)) /\ N \in Nat
        /\ \A k \in 1 .. N : words[k] \in Seq(Char)
    <2>1. words \in Seq(Seq(Char))
      BY WordsTyped
    <2> HIDE DEF words
    <2>2. QED
      BY <2>1
  <1>2. PICK f \in [0 .. N -> Packing(max)] :
           /\ SplitOversized(t, max, chunks) = f[N]
           /\ f[0] = [chunks |-> chunks, current |-> << >>]
           /\ \A k \in 1 .. N : f[k] = AddWord(f[k - 1], words[k], max)
    BY SplitLoop
  <1>3. /\ HasWord(t, w) => \E k \in 1 .. N : HasWord(words[k], w)
        /\ Tailed(t) => \A k \in 1 .. N : Cuttable(words[k], max)
    BY WordsHave DEF Cuttable
  <1> HIDE DEF words, N
  <1>5. \E q \in 0 .. N : \/ q = 0 /\ ShownIn(chunks, w)
                          \/ q # 0 /\ HasWord(words[q], w) /\ Cuttable(words[q], max)
    <2>1. CASE ShownIn(chunks, w)
      BY <1>1, <2>1
    <2>2. CASE HasWord(t, w) /\ Tailed(t)
      <3>1. PICK k \in 1 .. N : HasWord(words[k], w) /\ Cuttable(words[k], max)
        BY <1>3, <2>2
      <3>2. k \in 0 .. N /\ k # 0
        BY <1>1
      <3>3. QED
        BY <3>1, <3>2
    <2>3. QED
      BY <2>1, <2>2
  <1>6. PICK q \in 0 .. N : \/ q = 0 /\ ShownIn(chunks, w)
                            \/ q # 0 /\ HasWord(words[q], w) /\ Cuttable(words[q], max)
    BY <1>5
  <1> DEFINE T == {k \in 0 .. N : k < q \/ Shown(f[k], w)}
  <1>7. 0 \in T
    <2>1. 0 \in 0 .. N /\ (q = 0 \/ 0 < q)
      BY <1>1
    <2>2. CASE q = 0
      BY <1>2, <1>6, <2>1, <2>2 DEF Shown
    <2>3. QED
      BY <2>1, <2>2
  <1>8. ASSUME NEW k \in 1 .. N, k - 1 \in T PROVE k \in T
    <2>1. k \in 0 .. N /\ k - 1 \in 0 .. N /\ k \in Nat /\ q \in Nat
      BY <1>1
    <2>2. /\ f[k - 1] \in Packing(max) /\ words[k] \in Seq(Char)
          /\ f[k] = AddWord(f[k - 1], words[k], max)
      BY <1>1, <1>2, <2>1
    <2>3. CASE k < q
      BY <2>1, <2>3
    <2>4. CASE k = q
      <3>1. HasWord(words[k], w) /\ Cuttable(words[k], max)
        BY <1>6, <2>1, <2>4
      <3>2. QED
        BY <2>1, <2>2, <3>1, AddWordShows
    <2>5. CASE q < k
      <3>1. Shown(f[k - 1], w)
        BY <1>8, <2>1, <2>5
      <3>2. QED
        BY <2>1, <2>2, <3>1, AddWordShows
    <2>6. QED
      BY <2>1, <2>3, <2>4, <2>5
  <1>9. \A k \in 0 .. N : k \in T
    <2> HIDE DEF T
    <2>1. QED
      BY <1>1, <1>7, <1>8, UpTo
  <1>10. N \in 0 .. N /\ ~(N < q)
    BY <1>1
  <1>11. QED
    BY <1>2, <1>9, <1>10

(* Packing a segment keeps what is shown and shows what the segment has.   *)
LEMMA AddSegmentShows ==
    ASSUME NEW max \in Nat \ {0}, NEW out \in Packing(max), NEW s \in Segment,
           NEW w, IsWord(w), Len(w) <= max, Shown(out, w) \/ Carries(s, w, max)
    PROVE  Shown(AddSegment(out, s, max), w)
  <1> DEFINE flushed == Flushed(out.chunks, out.current)
             joined == out.current \o Joiner(s)
             grown == IF out.current = << >> THEN s.text ELSE joined \o s.text
  <1>1. /\ out.chunks \in Seq(Seq(Char)) /\ out.current \in Seq(Char) /\ s.text \in Seq(Char)
        /\ joined \in Seq(Char)
    <2>1. out.chunks \in Seq(Seq(Char)) /\ out.current \in Seq(Char) /\ s.text \in Seq(Char)
      BY WeightTyped DEF Segment
    <2>2. Joiner(s) \in Seq(Char)
      BY JoinerTyped
    <2>3. QED
      BY <2>1, <2>2
  <1>2. flushed \in Seq(Message(max))
    BY FlushedFits
  <1>3. Shown(out, w) => ShownIn(flushed, w)
    BY <1>1, FlushedShows DEF Shown
  <1>4. AddSegment(out, s, max) =
           IF Fits(out.current, s, max) THEN [chunks |-> out.chunks, current |-> grown]
           ELSE IF Len(s.text) <= max THEN [chunks |-> flushed, current |-> s.text]
           ELSE SplitOversized(s.text, max, flushed)
    BY DEF AddSegment
  <1>5. Carries(s, w, max) =>
           HasWord(s.text, w) /\ Shows(s.text, w) /\ (Len(s.text) <= max \/ Tailed(s.text))
    BY DEF Carries, HasWord, BeginsAt, Shows
  <1>6. Shows(out.current, w) \/ Shows(s.text, w) => Shows(grown, w)
    <2>1. CASE out.current = << >>
      BY <2>1 DEF Shows
    <2>2. CASE out.current # << >>
      <3>1. Shows(out.current, w) => Shows(joined, w)
        BY <1>1, JoinerTyped, JoinShows
      <3> HIDE DEF joined
      <3>2. grown = joined \o s.text
        BY <2>2
      <3> HIDE DEF grown
      <3>3. QED
        BY <1>1, <3>1, <3>2, JoinShows
    <2>3. QED
      BY <2>1, <2>2
  <1> HIDE DEF grown, flushed
  <1>7. CASE Fits(out.current, s, max)
    BY <1>4, <1>5, <1>6, <1>7 DEF Shown
  <1>8. CASE ~Fits(out.current, s, max) /\ Len(s.text) <= max
    BY <1>3, <1>4, <1>5, <1>8 DEF Shown
  <1>9. CASE ~Fits(out.current, s, max) /\ ~(Len(s.text) <= max)
    <2>1. Shown(SplitOversized(s.text, max, flushed), w)
      BY <1>1, <1>2, <1>3, <1>5, <1>9, SplitShows
    <2>2. QED
      BY <1>4, <1>9, <2>1
  <1>10. QED
    BY <1>7, <1>8, <1>9

(* What one of the segments has is shown when all are packed.              *)
LEMMA PackedShows ==
    ASSUME NEW max \in Nat \ {0}, NEW segments \in Seq(Segment), NEW w, IsWord(w), Len(w) <= max,
           NEW q \in 1 .. Len(segments), Carries(segments[q], w, max)
    PROVE  Shown(Packed(segments, max), w)
  <1> DEFINE N == Len(segments)
  <1>1. N \in Nat /\ \A k \in 1 .. N : segments[k] \in Segment
    OBVIOUS
  <1>2. PICK f \in [0 .. N -> Packing(max)] :
           /\ Packed(segments, max) = f[N]
           /\ f[0] = [chunks |-> << >>, current |-> << >>]
           /\ \A k \in 1 .. N : f[k] = AddSegment(f[k - 1], segments[k], max)
    BY PackedLoop
  <1> DEFINE T == {k \in 0 .. N : k < q \/ Shown(f[k], w)}
  <1>3. 0 \in T
    BY <1>1
  <1>4. ASSUME NEW k \in 1 .. N, k - 1 \in T PROVE k \in T
    <2>1. k \in 0 .. N /\ k - 1 \in 0 .. N /\ k \in Nat /\ q \in Nat
      BY <1>1
    <2>2. /\ f[k - 1] \in Packing(max) /\ segments[k] \in Segment
          /\ f[k] = AddSegment(f[k - 1], segments[k], max)
      BY <1>1, <1>2, <2>1
    <2>3. CASE k < q
      BY <2>1, <2>3
    <2>4. CASE k = q
      BY <2>1, <2>2, <2>4, AddSegmentShows
    <2>5. CASE q < k
      <3>1. Shown(f[k - 1], w)
        BY <1>4, <2>1, <2>5
      <3>2. QED
        BY <2>1, <2>2, <3>1, AddSegmentShows
    <2>6. QED
      BY <2>1, <2>3, <2>4, <2>5
  <1>5. \A k \in 0 .. N : k \in T
    <2> HIDE DEF T
    <2>1. QED
      BY <1>1, <1>3, <1>4, UpTo
  <1>6. N \in 0 .. N /\ ~(N < q)
    BY <1>1
  <1>7. QED
    BY <1>2, <1>5, <1>6

(* chunk_message shows every word that fits into a message.                *)
LEMMA ChunkMessageShows ==
    ASSUME NEW t \in Seq(Char), NEW max \in Nat \ {0}, NEW w, IsWord(w), Len(w) <= max, HasWord(t, w)
    PROVE  ShownIn(ChunkMessage(t, max), w)
  <1> DEFINE segments == Segments(t, max)
             packed == Packed(segments, max)
             N == Len(segments)
  <1>1. segments \in Seq(Segment) /\ \E k \in 1 .. N : Carries(segments[k], w, max)
    BY SegmentsTyped, SegmentsHave
  <1>2. ChunkMessage(t, max) = Flushed(packed.chunks, packed.current)
    BY DEF ChunkMessage
  <1> HIDE DEF segments
  <1>3. packed \in Packing(max)
    <2>1. PICK f \in [0 .. N -> Packing(max)] : packed = f[N]
      BY <1>1, PackedLoop
    <2>2. N \in 0 .. N
      BY <1>1
    <2>3. QED
      BY <2>1, <2>2
  <1>4. Shown(packed, w)
    BY <1>1, PackedShows
  <1> HIDE DEF packed
  <1>5. packed.chunks \in Seq(Seq(Char)) /\ packed.current \in Seq(Char)
    BY <1>3, WeightTyped
  <1>6. QED
    BY <1>2, <1>4, <1>5, FlushedShows DEF Shown

(* A maximal run of solid characters is a word of the text.                *)
LEMMA RunIsWord ==
    ASSUME NEW t \in Seq(Char), NEW w,
           IsRun(t, {i \in DOMAIN t : Solid(t[i])}, w)
    PROVE  IsWord(w) /\ HasWord(t, w)
  <1> DEFINE S == {i \in DOMAIN t : Solid(t[i])}
  <1>1. PICK m \in S, n \in S :
           m <= n /\ m - 1 \notin S /\ m .. n \subseteq S /\ w = SubSeq(t, m, n)
    BY DEF IsRun
  <1>2. /\ Len(t) \in Nat /\ m \in 1 .. Len(t) /\ n \in 1 .. Len(t)
        /\ \A i \in S : Solid(t[i])
        /\ \A i \in 1 .. Len(t) : i \notin S => ~Solid(t[i])
    OBVIOUS
  <1> HIDE DEF S
  <1>3. m \in Nat /\ m >= 1 /\ n \in Nat /\ n <= Len(t) /\ m <= n /\ m <= Len(t)
    BY <1>1, <1>2
  <1>4. /\ w \in Seq(Char) /\ Len(w) = n - m + 1
        /\ \A i \in 1 .. n - m + 1 : w[i] = t[m + i - 1]
    BY <1>1, <1>3, SubSeqOf
  <1>5. IsWord(w)
    <2>1. w # << >>
      BY <1>3, <1>4
    <2>2. ASSUME NEW k \in 1 .. Len(w) PROVE Solid(w[k])
      <3>1. k \in 1 .. n - m + 1 /\ m + k - 1 \in m .. n
        BY <1>3, <1>4
      <3>2. m + k - 1 \in S /\ w[k] = t[m + k - 1]
        BY <1>1, <1>4, <3>1
      <3>3. QED
        BY <1>2, <3>2
    <2>3. QED
      BY <1>4, <2>1, <2>2 DEF IsWord
  <1>6. StandsAt(t, m, w)
    <2>1. m + Len(w) - 1 <= Len(t)
      BY <1>3, <1>4
    <2>2. QED
      BY <1>4, <2>1 DEF StandsAt
  <1>7. m = 1 \/ ~Solid(t[m - 1])
    <2>1. m # 1 => m - 1 \in 1 .. Len(t)
      BY <1>3
    <2>2. QED
      BY <1>1, <1>2, <2>1
  <1>8. QED
    BY <1>2, <1>5, <1>6, <1>7 DEF HasWord, BeginsAt

(* What a text shows is a part of it.                                      *)
LEMMA ShownIsPart ==
    ASSUME NEW t \in Seq(Char), NEW w, IsWord(w), Shows(t, w)
    PROVE  \E i \in 1 .. Len(t) - Len(w) + 1 : SubSeq(t, i, i + Len(w) - 1) = w
  <1>1. PICK i \in 1 .. Len(t) : StandsAt(t, i, w)
    BY DEF Shows
  <1> DEFINE n == i + Len(w) - 1
             s == SubSeq(t, i, n)
  <1>2. /\ Len(t) \in Nat /\ Len(w) \in Nat /\ Len(w) >= 1 /\ w \in Seq(Char)
        /\ i \in Nat \ {0} /\ n \in Nat /\ n <= Len(t) /\ i <= n /\ n - i + 1 = Len(w)
    BY <1>1 DEF IsWord, StandsAt
  <1> HIDE DEF n
  <1>3. /\ s \in Seq(Char) /\ Len(s) = n - i + 1
        /\ \A k \in 1 .. n - i + 1 : s[k] = t[i + k - 1]
    BY <1>2, SubSeqOf
  <1> HIDE DEF s
  <1>4. Len(s) = Len(w) /\ \A k \in 1 .. Len(w) : s[k] = w[k]
    BY <1>1, <1>2, <1>3 DEF StandsAt
  <1>5. s = w
    BY <1>2, <1>3, <1>4, SeqEqual
  <1>6. i \in 1 .. Len(t) - Len(w) + 1
    BY <1>2 DEF n
  <1>7. QED
    BY <1>5, <1>6 DEF s, n

(* No word that fits into a message is cut or lost, for a reply of any     *)
(* length and any limit: what chunk_message splits at, and where it cuts   *)
(* what is overlong, leaves such words whole.                              *)
THEOREM WordsStayWhole == Spec => []WholeWords
  <1>1. IInv => WholeWords
    <2> SUFFICES ASSUME IInv, Done("chunk") PROVE WholeWords
      BY DEF WholeWords
    <2> DEFINE words == Runs(job.text, {i \in DOMAIN job.text : Solid(job.text[i])})
    <2>1. job.text \in Seq(Char) /\ job.max \in Nat \ {0} /\ Out = ChunkMessage(job.text, job.max)
      BY OutOf, JobAssumption DEF ResultOf
    <2>2. words \in Seq(Seq(Char))
      BY <2>1, RunsTyped
    <2>3. Out \in Seq(Seq(Char))
      BY <2>1, ChunkMessageFits, MessagesAreTexts
    <2>4. ASSUME NEW v \in DOMAIN words, Len(words[v]) <= job.max
          PROVE  \E k \in DOMAIN Out : \E i \in 1 .. Len(Out[k]) - Len(words[v]) + 1 :
                    SubSeq(Out[k], i, i + Len(words[v]) - 1) = words[v]
      <3> DEFINE w == words[v]
                 S == {i \in DOMAIN job.text : Solid(job.text[i])}
      <3>1. v \in 1 .. Len(words)
        BY <2>2
      <3>2. IsRun(job.text, S, w)
        <4>1. S \in SUBSET DOMAIN job.text
          OBVIOUS
        <4>2. words = Runs(job.text, S)
          OBVIOUS
        <4> HIDE DEF S, words
        <4>3. QED
          BY <2>1, <3>1, <4>1, <4>2, RunsAre
      <3>3. IsWord(w) /\ HasWord(job.text, w)
        <4> HIDE DEF words
        <4>1. QED
          BY <2>1, <3>2, RunIsWord
      <3> HIDE DEF words
      <3>4. ShownIn(Out, w)
        BY <2>1, <2>4, <3>3, ChunkMessageShows
      <3>5. PICK k \in 1 .. Len(Out) : Shows(Out[k], w)
        BY <3>4 DEF ShownIn
      <3>6. k \in DOMAIN Out /\ Out[k] \in Seq(Char)
        BY <2>3
      <3>7. QED
        BY <3>3, <3>5, <3>6, ShownIsPart
    <2>5. QED
      BY <2>4 DEF WholeWords
  <1>2. QED
    BY <1>1, ResultInvariance, PTL

----------------------------------------------------------------------------
(* Mentions.                                                               *)

(* Flattening one-element sequences gives back what is in them.            *)
LEMMA FlattenSingles ==
    ASSUME NEW A, NEW t \in Seq(A), NEW seqs \in Seq(Seq(A)), Len(seqs) = Len(t),
           \A i \in 1 .. Len(t) : seqs[i] = <<t[i]>>
    PROVE  FlattenSeq(seqs) = t
  <1> DEFINE N == Len(t)
             f == [k \in 0 .. N |-> SubSeq(t, 1, k)]
  <1>1. N \in Nat /\ N \in 0 .. N
    OBVIOUS
  <1>2. \A k \in 0 .. N : f[k] = SubSeq(t, 1, k)
    OBVIOUS
  <1> HIDE DEF f
  <1>3. f[0] = << >>
    BY <1>1, <1>2, SubSeqEmpty
  <1>4. ASSUME NEW k \in 1 .. N PROVE f[k] = f[k - 1] \o seqs[k]
    <2>1. k \in 0 .. N /\ k - 1 \in 0 .. N /\ k \in 1 .. k
      BY <1>1
    <2>2. 1 \in 1 .. Len(t) /\ k \in 1 .. Len(t)
      BY <1>1
    <2>3. SubSeq(t, 1, k) = SubSeq(t, 1, k - 1) \o <<t[k]>>
      BY <2>2, SubSeqRecursiveSecond
    <2>4. QED
      BY <1>2, <2>1, <2>3
  <1>5. IsFlattening(f, seqs)
    BY <1>3, <1>4 DEF IsFlattening
  <1>6. FlattenSeq(seqs) = f[Len(seqs)]
    BY <1>5, FlattenIs
  <1>7. QED
    BY <1>1, <1>2, <1>6, SubSeqFull

(* The elements of a join of two sequences.                                *)
LEMMA JoinOf ==
    ASSUME NEW A, NEW x \in Seq(A), NEW y \in Seq(A)
    PROVE  /\ x \o y \in Seq(A) /\ Len(x \o y) = Len(x) + Len(y)
           /\ \A i \in 1 .. Len(x) : (x \o y)[i] = x[i]
           /\ \A i \in 1 .. Len(y) : (x \o y)[Len(x) + i] = y[i]
  <1> DEFINE s == x \o y
  <1>1. Len(x) \in Nat /\ Len(y) \in Nat
    OBVIOUS
  <1>2. /\ s \in Seq(A) /\ Len(s) = Len(x) + Len(y)
        /\ \A i \in 1 .. Len(x) + Len(y) : s[i] = IF i <= Len(x) THEN x[i] ELSE y[i - Len(x)]
    BY ConcatProperties
  <1> HIDE DEF s
  <1>3. /\ \A i \in 1 .. Len(x) : s[i] = x[i]
        /\ \A i \in 1 .. Len(y) : s[Len(x) + i] = y[i]
    BY <1>1, <1>2
  <1>4. QED
    BY <1>2, <1>3 DEF s

(* Joining is associative.                                                 *)
LEMMA JoinAssociative ==
    ASSUME NEW A, NEW x \in Seq(A), NEW y \in Seq(A), NEW z \in Seq(A)
    PROVE  (x \o y) \o z = x \o (y \o z)
  BY ConcatAssociative, SMTT(60)

(* The start of a join of two sequences.                                   *)
LEMMA FrontOfJoin ==
    ASSUME NEW A, NEW x \in Seq(A), NEW u \in Seq(A), NEW a \in 0 .. Len(x)
    PROVE  SubSeq(x \o u, 1, a) = SubSeq(x, 1, a)
  <1>1. Len(x) \in Nat /\ x \o u \in Seq(A)
    OBVIOUS
  <1>2. CASE a = 0
    BY <1>2, SubSeqEmpty
  <1>3. CASE a # 0
    <2>1. a \in 1 .. Len(x) /\ 1 \in 1 .. Len(x)
      BY <1>1, <1>3
    <2>2. QED
      BY <2>1, SubSeqOfConcat1
  <1>4. QED
    BY <1>2, <1>3

(* The end of a join of two sequences, from within the first.              *)
LEMMA BackOfJoin ==
    ASSUME NEW A, NEW x \in Seq(A), NEW u \in Seq(A), NEW c \in 1 .. Len(x) + 1
    PROVE  SubSeq(x \o u, c, Len(x \o u)) = SubSeq(x, c, Len(x)) \o u
  <1> DEFINE s == x \o u
             y == SubSeq(x, c, Len(x))
             l == SubSeq(s, c, Len(s))
             r == y \o u
  <1>1. /\ Len(x) \in Nat /\ Len(u) \in Nat /\ s \in Seq(A) /\ Len(s) = Len(x) + Len(u)
        /\ \A i \in 1 .. Len(x) : s[i] = x[i]
        /\ \A i \in 1 .. Len(u) : s[Len(x) + i] = u[i]
        /\ c \in Nat \ {0} /\ c <= Len(x) + 1
    OBVIOUS
  <1> HIDE DEF s
  <1>2. /\ y \in Seq(A) /\ Len(y) = Len(x) - c + 1
        /\ \A i \in 1 .. Len(x) - c + 1 : y[i] = x[c + i - 1]
    <2>1. /\ y \in Seq(A) /\ Len(y) = IF c <= Len(x) THEN Len(x) - c + 1 ELSE 0
          /\ \A i \in 1 .. Len(x) - c + 1 : y[i] = x[c + i - 1]
      BY <1>1, SubSeqOf
    <2> HIDE DEF y
    <2>2. QED
      BY <1>1, <2>1
  <1> HIDE DEF y
  <1>3. /\ l \in Seq(A) /\ Len(l) = Len(x) + Len(u) - c + 1
        /\ \A i \in 1 .. Len(x) + Len(u) - c + 1 : l[i] = s[c + i - 1]
    <2>1. /\ l \in Seq(A) /\ Len(l) = IF c <= Len(s) THEN Len(s) - c + 1 ELSE 0
          /\ \A i \in 1 .. Len(s) - c + 1 : l[i] = s[c + i - 1]
      BY <1>1, SubSeqOf
    <2> HIDE DEF l
    <2>2. QED
      BY <1>1, <2>1
  <1> HIDE DEF l
  <1>4. /\ r \in Seq(A) /\ Len(r) = Len(y) + Len(u)
        /\ \A i \in 1 .. Len(y) : r[i] = y[i]
        /\ \A i \in 1 .. Len(u) : r[Len(y) + i] = u[i]
    <2>1. y \in Seq(A) /\ u \in Seq(A)
      BY <1>2
    <2>2. QED
      BY ONLY <2>1, JoinOf DEF r
  <1> HIDE DEF r
  <1>5. Len(l) = Len(r) /\ Len(l) \in Nat
    BY <1>1, <1>2, <1>3, <1>4
  <1>6. ASSUME NEW i \in 1 .. Len(l) PROVE l[i] = r[i]
    <2>1. i \in 1 .. Len(x) + Len(u) - c + 1 /\ i \in Nat /\ i >= 1
      BY <1>3
    <2>2. CASE i <= Len(y)
      <3>1. i \in 1 .. Len(y) /\ i \in 1 .. Len(x) - c + 1 /\ c + i - 1 \in 1 .. Len(x)
        BY <1>1, <1>2, <2>1, <2>2
      <3>2. l[i] = s[c + i - 1] /\ s[c + i - 1] = x[c + i - 1]
        BY <1>1, <1>3, <2>1, <3>1
      <3>3. r[i] = y[i] /\ y[i] = x[c + i - 1]
        BY <1>2, <1>4, <3>1
      <3>4. QED
        BY <3>2, <3>3
    <2>3. CASE ~(i <= Len(y))
      <3> DEFINE j == i - Len(y)
      <3>1. j \in 1 .. Len(u) /\ i = Len(y) + j /\ c + i - 1 = Len(x) + j
        BY <1>1, <1>2, <2>1, <2>3
      <3> HIDE DEF j
      <3>2. l[i] = s[Len(x) + j] /\ s[Len(x) + j] = u[j]
        BY <1>1, <1>3, <2>1, <3>1
      <3>3. r[i] = u[j]
        BY <1>4, <3>1
      <3>4. QED
        BY <3>2, <3>3
    <2>4. QED
      BY <2>2, <2>3
  <1>7. l = r
    BY <1>3, <1>4, <1>5, <1>6, SeqEqual
  <1>8. QED
    BY <1>7 DEF l, r, y, s

(* A part of the start of a sequence is a part of the sequence.            *)
LEMMA PartOfFront ==
    ASSUME NEW A, NEW t \in Seq(A), NEW b \in 0 .. Len(t), NEW m \in Nat \ {0}, NEW n \in 0 .. b
    PROVE  /\ SubSeq(SubSeq(t, 1, b), m, n) = SubSeq(t, m, n)
           /\ SubSeq(t, 1, b) \in Seq(A) /\ Len(SubSeq(t, 1, b)) = b
  <1> DEFINE x == SubSeq(t, 1, b)
             y == SubSeq(x, m, n)
             z == SubSeq(t, m, n)
  <1>1. Len(t) \in Nat /\ b \in Nat /\ b <= Len(t) /\ n \in Nat /\ n <= b /\ n <= Len(t)
    OBVIOUS
  <1>2. x \in Seq(A) /\ Len(x) = b /\ \A i \in 1 .. b : x[i] = t[i]
    <2>1. /\ x \in Seq(A) /\ Len(x) = IF 1 <= b THEN b - 1 + 1 ELSE 0
          /\ \A i \in 1 .. b - 1 + 1 : x[i] = t[1 + i - 1]
      BY <1>1, SubSeqOf
    <2> HIDE DEF x
    <2>2. QED
      BY <1>1, <2>1
  <1> HIDE DEF x
  <1>3. /\ y \in Seq(A) /\ Len(y) = IF m <= n THEN n - m + 1 ELSE 0
        /\ \A i \in 1 .. n - m + 1 : y[i] = x[m + i - 1]
    BY <1>1, <1>2, SubSeqOf
  <1>4. /\ z \in Seq(A) /\ Len(z) = IF m <= n THEN n - m + 1 ELSE 0
        /\ \A i \in 1 .. n - m + 1 : z[i] = t[m + i - 1]
    BY <1>1, SubSeqOf
  <1> HIDE DEF y, z
  <1>5. ASSUME NEW i \in 1 .. Len(y) PROVE y[i] = z[i]
    <2>1. i \in 1 .. n - m + 1 /\ m + i - 1 \in 1 .. b
      <3>1. m <= n /\ Len(y) = n - m + 1
        BY <1>3
      <3>2. QED
        BY <1>1, <3>1
    <2>2. QED
      BY <1>2, <1>3, <1>4, <2>1
  <1>6. y = z
    BY <1>3, <1>4, <1>5, SeqEqual
  <1>7. QED
    BY <1>2, <1>6 DEF x, y, z

(* A tag is two characters.                                                *)
LEMMA TagTyped ==
    ASSUME NEW who, NEW A, Tag(who)[1] \in A, Tag(who)[2] \in A
    PROVE  Tag(who) \in Seq(A) /\ Len(Tag(who)) = 2
  <1> DEFINE a == [kind |-> "at", at |-> 0]
             b == [kind |-> "tag", at |-> 0, who |-> who]
             s == <<a>> \o <<b>>
  <1>1. Tag(who) = s
    BY DEF Tag, Inserted
  <1> HIDE DEF a, b
  <1>2. <<a>> \in Seq({a, b}) /\ <<b>> \in Seq({a, b}) /\ Len(<<a>>) = 1 /\ Len(<<b>>) = 1
    OBVIOUS
  <1>3. /\ s \in Seq({a, b}) /\ Len(s) = 2
        /\ \A i \in 1 .. 1 : s[i] = <<a>>[i]
        /\ \A i \in 1 .. 1 : s[1 + i] = <<b>>[i]
    BY <1>2, ConcatProperties
  <1> HIDE DEF s
  <1>4. s[1] = a /\ s[2] = b
    BY <1>3
  <1>5. s \in Seq(A)
    <2>1. \A i \in 1 .. Len(s) : s[i] \in A
      BY <1>1, <1>3, <1>4
    <2>2. QED
      BY <1>3, <2>1
  <1>6. QED
    BY <1>1, <1>3, <1>5

(* Splicing into what has been left alone so far, in front of what follows. *)
CutAt(t, b, a, x, front, back) ==
    x = SubSeq(t, 1, b) /\ front = SubSeq(t, 1, a) /\ back = SubSeq(t, a + 2, b)
Mentions(mention, a, tag) ==
    mention.start = a /\ mention.length = 1 /\ tag = Tag(Identifier(mention))

LEMMA SpliceInFront ==
    ASSUME NEW A, NEW t \in Seq(A), NEW b \in 0 .. Len(t), NEW u \in Seq(A), NEW a \in 0 .. b - 1,
           NEW mention, NEW tag \in Seq(A), Mentions(mention, a, tag),
           NEW x, NEW front, NEW back, CutAt(t, b, a, x, front, back)
    PROVE  Splice(x \o u, mention) = front \o (tag \o (back \o u))
  <1> USE DEF CutAt, Mentions
  <1>1. /\ Len(t) \in Nat /\ b \in Nat /\ a \in Nat /\ a + 1 <= b /\ a \in 0 .. b
        /\ a + 2 \in Nat \ {0} /\ b \in 0 .. b /\ 1 \in Nat \ {0}
    OBVIOUS
  <1>2. /\ x \in Seq(A) /\ Len(x) = b /\ SubSeq(x, 1, a) = front /\ SubSeq(x, a + 2, b) = back
    <2>1. SubSeq(x, 1, a) = SubSeq(t, 1, a) /\ x \in Seq(A) /\ Len(x) = b
      BY <1>1, PartOfFront
    <2>2. SubSeq(x, a + 2, b) = SubSeq(t, a + 2, b)
      BY <1>1, PartOfFront
    <2>3. QED
      BY <2>1, <2>2
  <1>3. back \in Seq(A) /\ front \in Seq(A)
    <2>1. SubSeq(t, a + 2, b) \in Seq(A) /\ SubSeq(t, 1, a) \in Seq(A)
      BY <1>1, SubSeqOf
    <2>2. QED
      BY <2>1
  <1>4. a \in 0 .. Len(x) /\ a + 2 \in 1 .. Len(x) + 1
    BY <1>1, <1>2
  <1>5. SubSeq(x \o u, 1, a) = front
    BY <1>2, <1>4, FrontOfJoin
  <1>6. SubSeq(x \o u, a + 2, Len(x \o u)) = back \o u
    <2> DEFINE c == a + 2
    <2>1. c \in 1 .. Len(x) + 1 /\ SubSeq(x, c, Len(x)) = back
      BY <1>2, <1>4
    <2> HIDE DEF c
    <2>2. SubSeq(x \o u, c, Len(x \o u)) = SubSeq(x, c, Len(x)) \o u
      BY <1>2, <2>1, BackOfJoin
    <2>3. QED
      BY <2>1, <2>2 DEF c
  <1>7. Splice(x \o u, mention)
           = (SubSeq(x \o u, 1, a) \o tag) \o SubSeq(x \o u, a + 1 + 1, Len(x \o u))
    <2> DEFINE n == Len(x \o u)
    <2>1. n \in Nat /\ a <= n /\ a \in Nat
      <3>1. Len(x \o u) = Len(x) + Len(u) /\ Len(u) \in Nat
        BY <1>2, JoinOf
      <3>2. QED
        BY <1>1, <1>2, <3>1
    <2>2. Min({a, n}) = a
      <3> HIDE DEF n
      <3>1. /\ {a, n} \in SUBSET Nat /\ {a, n} # {}
        BY <2>1
      <3>2. Min({a, n}) \in {a, n} /\ Min({a, n}) <= a
        BY <3>1, MinIsLeast
      <3>3. QED
        BY <2>1, <3>2
    <2> HIDE DEF n
    <2>3. Min({mention.start, n}) = a
      BY <2>2
    <2>4. QED
      BY <2>3 DEF Splice, n
  <1>8. a + 1 + 1 = a + 2
    BY <1>1
  <1>9. Splice(x \o u, mention) = (front \o tag) \o (back \o u)
    BY <1>5, <1>6, <1>7, <1>8
  <1>10. (front \o tag) \o (back \o u) = front \o (tag \o (back \o u))
    <2> DEFINE rest == back \o u
    <2>1. front \in Seq(A) /\ tag \in Seq(A) /\ rest \in Seq(A)
      BY <1>3
    <2> HIDE DEF rest
    <2>2. (front \o tag) \o rest = front \o (tag \o rest)
      BY ONLY <2>1, JoinAssociative, SMTT(60)
    <2>3. QED
      BY <2>2 DEF rest
  <1>11. QED
    BY <1>9, <1>10

(* The mentions from the end of the text are the mentions in another       *)
(* order, each starting in front of those before it.                       *)
LEMMA FromTheEndSorts ==
    ASSUME NEW A, NEW mentions \in Seq(A),
           \A k \in 1 .. Len(mentions) : mentions[k].start \in Nat,
           \A k, l \in 1 .. Len(mentions) : mentions[k].start = mentions[l].start => k = l
    PROVE  \E p \in [1 .. Len(mentions) -> 1 .. Len(mentions)] :
              /\ FromTheEnd(mentions) = [n \in 1 .. Len(mentions) |-> mentions[p[n]]]
              /\ \A k \in 1 .. Len(mentions) : \E n \in 1 .. Len(mentions) : p[n] = k
              /\ \A m, n \in 1 .. Len(mentions) :
                    m < n => mentions[p[n]].start < mentions[p[m]].start
  <1> DEFINE M == Len(mentions)
             I == 1 .. M
             start(k) == mentions[k].start
             after(k) == {j \in DOMAIN mentions : \/ start(j) > start(k)
                                                  \/ start(j) = start(k) /\ j <= k}
             place(k) == Cardinality(after(k))
             f == [k \in I |-> place(k)]
             p == [n \in I |-> CHOOSE k \in I : place(k) = n]
  <1>1. /\ M \in Nat /\ DOMAIN mentions = I
        /\ \A k \in I : start(k) \in Nat
        /\ \A k, l \in I : start(k) = start(l) => k = l
    OBVIOUS
  <1>2. IsFiniteSet(I) /\ Cardinality(I) = M
    <2>1. M >= 0 /\ M \in Int
      BY <1>1
    <2> HIDE DEF M
    <2>2. QED
      BY <2>1, FS_Interval
  <1>3. \A k \in I : after(k) = {j \in I : start(j) >= start(k)}
    <2>1. SUFFICES ASSUME NEW k \in I, NEW j \in I
                   PROVE  (start(j) > start(k) \/ (start(j) = start(k) /\ j <= k))
                             <=> start(j) >= start(k)
      BY <1>1
    <2>2. start(j) = start(k) => j = k
      BY <1>1
    <2>3. start(j) \in Nat /\ start(k) \in Nat /\ k \in Nat /\ j \in Nat
      BY <1>1
    <2> HIDE DEF start
    <2>4. CASE start(j) = start(k)
      BY <2>2, <2>3, <2>4
    <2>5. CASE start(j) # start(k)
      BY <2>3, <2>5
    <2>6. QED
      BY <2>4, <2>5
  <1>4. \A k \in I : IsFiniteSet(after(k)) /\ place(k) \in I
    <2>1. SUFFICES ASSUME NEW k \in I PROVE IsFiniteSet(after(k)) /\ place(k) \in I
      OBVIOUS
    <2>2. after(k) \in SUBSET I /\ k \in after(k)
      BY <1>1, <1>3
    <2> HIDE DEF after, I
    <2>3. IsFiniteSet(after(k)) /\ Cardinality(after(k)) <= M
      BY <1>2, <2>2, FS_Subset
    <2>4. Cardinality(after(k)) \in Nat /\ Cardinality(after(k)) # 0
      BY <2>2, <2>3, FS_CardinalityType, FS_EmptySet
    <2>5. QED
      BY <1>1, <2>3, <2>4 DEF I
  <1>5. ASSUME NEW k \in I, NEW l \in I, start(l) < start(k) PROVE place(k) < place(l)
    <2>1. start(k) \in Nat /\ start(l) \in Nat
      BY <1>1
    <2>2. after(k) \in SUBSET after(l)
      <3>1. SUFFICES ASSUME NEW j \in I, start(j) >= start(k) PROVE start(j) >= start(l)
        BY <1>3
      <3>2. start(j) \in Nat
        BY <1>1
      <3> HIDE DEF start
      <3>3. QED
        BY <1>5, <2>1, <3>1, <3>2
    <2>3. l \in after(l) /\ l \notin after(k)
      <3>1. start(l) >= start(l) /\ ~(start(l) >= start(k))
        BY <1>5, <2>1
      <3>2. QED
        BY <1>3, <3>1
    <2>4. place(k) \in Nat /\ place(l) \in Nat /\ IsFiniteSet(after(l))
      <3> HIDE DEF place, after
      <3>1. place(k) \in I /\ place(l) \in I /\ IsFiniteSet(after(l))
        BY <1>4
      <3>2. QED
        BY <3>1
    <2> HIDE DEF after
    <2>5. place(k) <= place(l) /\ place(k) # place(l)
      BY <2>2, <2>3, <2>4, FS_Subset
    <2>6. QED
      BY <2>4, <2>5
  <1> HIDE DEF place
  <1>6. ASSUME NEW k \in I, NEW l \in I, place(k) = place(l) PROVE k = l
    <2>1. place(k) \in Nat /\ start(k) \in Nat /\ start(l) \in Nat
      <3>1. place(k) \in I
        BY <1>4
      <3>2. QED
        BY <1>1, <3>1
    <2> HIDE DEF start
    <2>2. ~(start(l) < start(k)) /\ ~(start(k) < start(l))
      BY <1>5, <1>6, <2>1
    <2>3. start(k) = start(l)
      BY <2>1, <2>2
    <2>4. QED
      BY <1>1, <2>3 DEF start
  <1>7. \A n \in I : \E k \in I : place(k) = n
    <2>1. f \in [I -> I]
      BY <1>4
    <2>2. f \in Injection(I, I)
      BY <1>6, <2>1 DEF Injection, IsInjective
    <2> HIDE DEF I
    <2>3. f \in Surjection(I, I)
      <3> HIDE DEF f
      <3>1. QED
        BY <1>2, <2>2, FS_Injection
    <2>4. QED
      BY <2>3 DEF Surjection
  <1>8. p \in [I -> I] /\ \A n \in I : place(p[n]) = n
    BY <1>7
  <1>9. FromTheEnd(mentions) = [n \in I |-> mentions[p[n]]]
    <2>1. FromTheEnd(mentions)
             = [n \in DOMAIN mentions |-> mentions[CHOOSE k \in DOMAIN mentions : place(k) = n]]
      BY DEF FromTheEnd, place
    <2> HIDE DEF I
    <2>2. QED
      BY <1>1, <2>1
  <1> HIDE DEF p
  <1>10. ASSUME NEW k \in I PROVE \E n \in I : p[n] = k
    <2>1. place(k) \in I /\ place(p[place(k)]) = place(k) /\ p[place(k)] \in I
      BY <1>4, <1>8
    <2>2. p[place(k)] = k
      BY <1>6, <2>1
    <2>3. QED
      BY <2>1, <2>2
  <1>11. ASSUME NEW m \in I, NEW n \in I, m < n PROVE start(p[n]) < start(p[m])
    <2>1. /\ p[m] \in I /\ p[n] \in I /\ place(p[m]) = m /\ place(p[n]) = n /\ m \in Nat /\ n \in Nat
      BY <1>1, <1>8
    <2>2. start(p[m]) \in Nat /\ start(p[n]) \in Nat
      BY <1>1, <2>1
    <2>3. ~(start(p[m]) < start(p[n]))
      <3> HIDE DEF start
      <3>1. SUFFICES ASSUME start(p[m]) < start(p[n]) PROVE FALSE
        OBVIOUS
      <3>2. place(p[n]) < place(p[m])
        BY <1>5, <2>1, <3>1
      <3>3. QED
        BY <1>11, <2>1, <3>2
    <2>4. start(p[m]) # start(p[n])
      <3>1. p[m] # p[n]
        BY <1>11, <2>1
      <3>2. QED
        BY <1>1, <2>1, <3>1
    <2> HIDE DEF start
    <2>5. QED
      BY <2>2, <2>3, <2>4
  <1>12. QED
    BY <1>8, <1>9, <1>10, <1>11

(* What shows the characters of a part one by one is that part.            *)
LEMMA PlainPart ==
    ASSUME NEW A, NEW t \in Seq(A), NEW seqs \in Seq(Seq(A)), Len(seqs) = Len(t),
           NEW m \in Nat \ {0}, NEW n \in 0 .. Len(t),
           \A i \in m .. n : seqs[i] = <<t[i]>>
    PROVE  FlattenSeq(SubSeq(seqs, m, n)) = SubSeq(t, m, n)
  <1> DEFINE part == SubSeq(t, m, n)
             shown == SubSeq(seqs, m, n)
  <1>1. Len(t) \in Nat /\ n \in Nat /\ n <= Len(t) /\ n <= Len(seqs)
    OBVIOUS
  <1>2. /\ part \in Seq(A) /\ Len(part) = IF m <= n THEN n - m + 1 ELSE 0
        /\ \A i \in 1 .. n - m + 1 : part[i] = t[m + i - 1]
    BY <1>1, SubSeqOf
  <1>3. /\ shown \in Seq(Seq(A)) /\ Len(shown) = IF m <= n THEN n - m + 1 ELSE 0
        /\ \A i \in 1 .. n - m + 1 : shown[i] = seqs[m + i - 1]
    BY <1>1, SubSeqOf
  <1> HIDE DEF part, shown
  <1>4. Len(shown) = Len(part)
    BY <1>2, <1>3
  <1>5. ASSUME NEW i \in 1 .. Len(part) PROVE shown[i] = <<part[i]>>
    <2>1. i \in 1 .. n - m + 1 /\ m + i - 1 \in m .. n
      <3>1. m <= n /\ Len(part) = n - m + 1
        BY <1>2
      <3>2. QED
        BY <1>1, <3>1
    <2>2. QED
      BY <1>2, <1>3, <2>1
  <1>6. FlattenSeq(shown) = part
    BY <1>2, <1>3, <1>4, <1>5, FlattenSingles
  <1>7. QED
    BY <1>6 DEF part, shown

(* What is shown from a tag on, up to what has been shown already.         *)
LEMMA ShownFromTag ==
    ASSUME NEW A, NEW t \in Seq(A), NEW seqs \in Seq(Seq(A)), Len(seqs) = Len(t),
           NEW b \in 0 .. Len(t), NEW a \in 0 .. b - 1,
           \A i \in a + 2 .. b : seqs[i] = <<t[i]>>
    PROVE  FlattenSeq(SubSeq(seqs, a + 1, Len(t)))
              = seqs[a + 1] \o (SubSeq(t, a + 2, b) \o FlattenSeq(SubSeq(seqs, b + 1, Len(t))))
  <1> DEFINE L == Len(t)
             one == SubSeq(seqs, a + 1, a + 1)
             plain == SubSeq(seqs, a + 2, b)
             rest == SubSeq(seqs, b + 1, L)
             tail == SubSeq(seqs, a + 2, L)
             all == SubSeq(seqs, a + 1, L)
             tag == seqs[a + 1]
  <1>1. /\ L \in Nat /\ L = Len(seqs) /\ b \in Nat /\ a \in Nat /\ a + 1 <= b /\ b <= L
        /\ a + 1 \in 1 .. L /\ tag \in Seq(A)
    OBVIOUS
  <1>2. /\ a + 1 \in Nat \ {0} /\ a + 2 \in Nat \ {0} /\ b + 1 \in Nat \ {0}
        /\ a + 1 \in 1 .. L + 1 /\ a + 1 \in (a + 1) - 1 .. L /\ L \in a + 1 .. L
        /\ a + 2 \in 1 .. L + 1 /\ b \in (a + 2) - 1 .. L /\ L \in b .. L /\ b \in 0 .. L
        /\ (a + 1) + 1 = a + 2
    <2> HIDE DEF L
    <2>1. L \in Nat /\ b \in Nat /\ a \in Nat /\ a + 1 <= b /\ b <= L
      BY <1>1
    <2>2. QED
      BY ONLY <2>1
  <1> HIDE DEF L
  <1>3. one \in Seq(Seq(A)) /\ plain \in Seq(Seq(A)) /\ rest \in Seq(Seq(A)) /\ tail \in Seq(Seq(A))
    <2> DEFINE B == Seq(A)
    <2>1. seqs \in Seq(B) /\ a + 1 \in Nat /\ a + 1 <= Len(seqs) /\ b <= Len(seqs) /\ L <= Len(seqs)
      BY <1>1
    <2> HIDE DEF B
    <2>2. one \in Seq(B) /\ plain \in Seq(B)
      BY <1>1, <1>2, <2>1, SubSeqOf
    <2>3. rest \in Seq(B) /\ tail \in Seq(B)
      BY <1>1, <1>2, <2>1, SubSeqOf
    <2>4. QED
      BY <2>2, <2>3 DEF B
  <1>4. all = one \o tail
    <2> DEFINE k == a + 1
    <2>1. k \in 1 .. Len(seqs) + 1 /\ k \in k - 1 .. Len(seqs) /\ L \in k .. Len(seqs)
      BY <1>1, <1>2
    <2> HIDE DEF k
    <2>2. SubSeq(seqs, k, k) \o SubSeq(seqs, k + 1, L) = SubSeq(seqs, k, L)
      BY <2>1, ConcatAdjacentSubSeq
    <2>3. QED
      BY <1>2, <2>2 DEF k
  <1>5. tail = plain \o rest
    <2> DEFINE k == a + 2
    <2>1. k \in 1 .. Len(seqs) + 1 /\ b \in k - 1 .. Len(seqs) /\ L \in b .. Len(seqs)
      BY <1>1, <1>2
    <2> HIDE DEF k
    <2>2. SubSeq(seqs, k, b) \o SubSeq(seqs, b + 1, L) = SubSeq(seqs, k, L)
      BY <2>1, ConcatAdjacentSubSeq
    <2>3. QED
      BY <2>2 DEF k
  <1>6. one = <<tag>>
    <2>1. /\ Len(one) = 1 /\ one[1] = seqs[a + 1]
      <3> DEFINE k == a + 1
                 n == a + 1
      <3>1. k \in Nat \ {0} /\ n \in Nat /\ n <= Len(seqs)
        BY <1>1, <1>2
      <3>2. k = n
        OBVIOUS
      <3> HIDE DEF k, n
      <3>3. /\ Len(SubSeq(seqs, k, n)) = IF k <= n THEN n - k + 1 ELSE 0
            /\ \A i \in 1 .. n - k + 1 : SubSeq(seqs, k, n)[i] = seqs[k + i - 1]
        BY <3>1, SubSeqOf
      <3>4. Len(SubSeq(seqs, k, n)) = 1 /\ SubSeq(seqs, k, n)[1] = seqs[k]
        BY <3>1, <3>2, <3>3
      <3>5. QED
        BY <3>4 DEF k, n
    <2>2. <<tag>> \in Seq(Seq(A)) /\ Len(<<tag>>) = 1 /\ <<tag>>[1] = tag
      BY <1>1
    <2> HIDE DEF one
    <2>3. \A i \in 1 .. Len(one) : one[i] = <<tag>>[i]
      BY <2>1, <2>2
    <2>4. QED
      BY <1>3, <2>1, <2>2, <2>3, SeqEqual
  <1>7. FlattenSeq(plain) = SubSeq(t, a + 2, b)
    <2> DEFINE k == a + 2
    <2>1. k \in Nat \ {0} /\ b \in 0 .. Len(t) /\ \A i \in k .. b : seqs[i] = <<t[i]>>
      BY <1>2 DEF L
    <2> HIDE DEF k
    <2>2. FlattenSeq(SubSeq(seqs, k, b)) = SubSeq(t, k, b)
      BY <2>1, PlainPart
    <2>3. QED
      BY <2>2 DEF k
  <1> HIDE DEF one, plain, rest, tail, all
  <1>8. FlattenSeq(all) = FlattenSeq(one) \o FlattenSeq(tail)
    BY <1>3, <1>4, FlattenJoin
  <1>9. FlattenSeq(tail) = FlattenSeq(plain) \o FlattenSeq(rest)
    BY <1>3, <1>5, FlattenJoin
  <1>10. FlattenSeq(one) = tag
    <2> HIDE DEF tag
    <2>1. QED
      BY <1>1, <1>6, FlattenOne
  <1>11. FlattenSeq(all) = tag \o (SubSeq(t, a + 2, b) \o FlattenSeq(rest))
    BY <1>7, <1>8, <1>9, <1>10
  <1>12. QED
    BY <1>11 DEF all, rest, L

(* The characters that a rendered text is made of.                         *)
Alphabet(e) ==
    {e.text[i] : i \in DOMAIN e.text}
        \cup {Tag(Identifier(e.mentions[k]))[j] : k \in DOMAIN e.mentions, j \in 1 .. 2}

Display(e) == [i \in DOMAIN e.text |-> Rendered(e, i)]

(* Where no emoji stands in front of a mention, its offset counts the      *)
(* characters in front of it.                                              *)
CountsCharacters(e) ==
    /\ \A k \in DOMAIN e.mentions :
          /\ e.mentions[k].start \in Nat /\ e.mentions[k].length = 1
          /\ e.mentions[k].start + 1 \in DOMAIN e.text
          /\ e.text[e.mentions[k].start + 1].kind = "placeholder"
    /\ \A k, l \in DOMAIN e.mentions : e.mentions[k].start = e.mentions[l].start => k = l
    /\ \A i \in DOMAIN e.text :
          MentionAt(e, i) = {k \in DOMAIN e.mentions : e.mentions[k].start = i - 1}

LEMMA OffsetsAre ==
    ASSUME NEW e, IsText(e.text), WellPlaced(e), NarrowBefore(e)
    PROVE  CountsCharacters(e)
  <1> DEFINE t == e.text
             ms == e.mentions
             Offset(i) == Utf16Len(SubSeq(t, 1, i - 1))
             A == {t[i] : i \in DOMAIN t}
  <1>1. t \in Seq(A) /\ Len(t) \in Nat /\ DOMAIN t = 1 .. Len(t)
    <2>1. t \in Seq(A)
      BY DEF IsText
    <2> HIDE DEF A, t
    <2>2. QED
      BY <2>1
  <1>2. \A i : MentionAt(e, i) = {k \in DOMAIN ms : ms[k].start = Offset(i)}
    BY DEF MentionAt
  <1> HIDE DEF A
  <1>3. ASSUME NEW i \in DOMAIN t, \A j \in 1 .. i - 1 : t[j].kind # "emoji"
        PROVE  Offset(i) = i - 1
    <2> DEFINE n == i - 1
               s == SubSeq(t, 1, n)
    <2>1. n \in Nat /\ n <= Len(t) /\ 1 \in Nat \ {0} /\ i \in Nat
      BY <1>1
    <2> HIDE DEF n, t
    <2>2. /\ s \in Seq(A) /\ Len(s) = IF 1 <= n THEN n - 1 + 1 ELSE 0
          /\ \A j \in 1 .. n - 1 + 1 : s[j] = t[1 + j - 1]
      BY <1>1, <2>1, SubSeqOf
    <2> HIDE DEF s
    <2>3. Len(s) = n /\ DOMAIN s = 1 .. n /\ \A j \in 1 .. n : s[j] = t[j]
      BY <2>1, <2>2
    <2>4. {j \in DOMAIN s : s[j].kind = "emoji"} = {}
      BY <1>3, <2>3 DEF n
    <2>5. Utf16Len(s) = n + 0
      BY <2>3, <2>4, FS_EmptySet DEF Utf16Len
    <2>6. QED
      BY <2>1, <2>5 DEF s, n
  <1> HIDE DEF Offset
  <1>4. ASSUME NEW i \in DOMAIN t, NEW k \in MentionAt(e, i)
        PROVE  ms[k].start = i - 1
    <2>1. \A j \in 1 .. i - 1 : j \in DOMAIN t /\ j < i
      BY <1>1
    <2>2. \A j \in 1 .. i - 1 : t[j].kind # "emoji"
      BY <1>4, <2>1 DEF NarrowBefore
    <2>3. Offset(i) = i - 1
      BY <1>3, <2>2
    <2>4. QED
      BY <1>2, <1>4, <2>3
  <1>5. ASSUME NEW k \in DOMAIN ms
        PROVE  \E i \in DOMAIN t : /\ t[i].kind = "placeholder" /\ k \in MentionAt(e, i)
                                   /\ ms[k].start + 1 = i
    <2>1. PICK i \in DOMAIN t : t[i].kind = "placeholder" /\ k \in MentionAt(e, i)
      BY DEF WellPlaced
    <2>2. ms[k].start = i - 1 /\ i \in Nat
      BY <1>1, <1>4, <2>1
    <2>3. QED
      BY <2>1, <2>2
  <1>6. ASSUME NEW i \in DOMAIN t
        PROVE  MentionAt(e, i) = {k \in DOMAIN ms : ms[k].start = i - 1}
    <2>1. ASSUME NEW k \in DOMAIN ms, ms[k].start = i - 1 PROVE k \in MentionAt(e, i)
      <3>1. PICK j \in DOMAIN t : k \in MentionAt(e, j) /\ ms[k].start + 1 = j
        BY <1>5
      <3>2. i = j
        BY <1>1, <2>1, <3>1
      <3>3. QED
        BY <3>1, <3>2
    <2>2. \A k \in MentionAt(e, i) : k \in DOMAIN ms
      BY <1>2
    <2>3. QED
      BY <1>4, <2>1, <2>2
  <1>7. QED
    BY <1>5, <1>6 DEF CountsCharacters, WellPlaced

(* A tag where there is a mention, and the character itself elsewhere.     *)
LEMMA DisplayOf ==
    ASSUME NEW e, IsText(e.text), IsText(e.mentions), WellPlaced(e), NarrowBefore(e)
    PROVE  /\ e.text \in Seq(Alphabet(e)) /\ DOMAIN e.text = 1 .. Len(e.text)
           /\ DOMAIN e.mentions = 1 .. Len(e.mentions) /\ Len(e.mentions) \in Nat
           /\ Display(e) \in Seq(Seq(Alphabet(e))) /\ Len(Display(e)) = Len(e.text)
           /\ \A k \in 1 .. Len(e.mentions) :
                 /\ e.mentions[k].start \in 0 .. Len(e.text) - 1 /\ e.mentions[k].length = 1
                 /\ Tag(Identifier(e.mentions[k])) \in Seq(Alphabet(e))
                 /\ Display(e)[e.mentions[k].start + 1] = Tag(Identifier(e.mentions[k]))
           /\ \A i \in 1 .. Len(e.text) :
                 (\A k \in 1 .. Len(e.mentions) : e.mentions[k].start # i - 1)
                    => Display(e)[i] = <<e.text[i]>>
  <1> DEFINE A == Alphabet(e)
             t == e.text
             ms == e.mentions
             L == Len(t)
             M == Len(ms)
             tag(k) == Tag(Identifier(ms[k]))
             R == Display(e)
  <1>1. t \in Seq({t[i] : i \in DOMAIN t}) /\ ms \in Seq({ms[i] : i \in DOMAIN ms})
    BY DEF IsText
  <1>2. L \in Nat /\ M \in Nat /\ DOMAIN t = 1 .. L /\ DOMAIN ms = 1 .. M
    <2> DEFINE S == {t[i] : i \in DOMAIN t}
               S2 == {ms[i] : i \in DOMAIN ms}
    <2>1. t \in Seq(S) /\ ms \in Seq(S2)
      BY <1>1
    <2> HIDE DEF S, S2, t, ms
    <2>2. QED
      BY <2>1
  <1>3. \A i \in 1 .. L : t[i] \in A
    BY <1>2 DEF Alphabet
  <1>4. t \in Seq(A)
    <2> DEFINE S == {t[i] : i \in DOMAIN t}
    <2>1. t \in Seq(S) /\ \A i \in 1 .. L : t[i] \in A
      BY <1>1, <1>3
    <2> HIDE DEF S, A, t
    <2>2. QED
      BY <2>1
  <1>5. \A k \in 1 .. M : tag(k)[1] \in A /\ tag(k)[2] \in A
    BY <1>2 DEF Alphabet
  <1> HIDE DEF A
  <1>6. \A k \in 1 .. M : tag(k) \in Seq(A)
    BY <1>5, TagTyped
  <1>7. \A k \in 1 .. M : /\ ms[k].start \in Nat /\ ms[k].length = 1 /\ ms[k].start + 1 \in 1 .. L
                          /\ \A l \in 1 .. M : ms[k].start = ms[l].start => k = l
    BY <1>2, OffsetsAre DEF CountsCharacters
  <1>8. \A i \in 1 .. L : R[i] = Rendered(e, i)
    BY <1>2 DEF Display
  <1>9. \A i \in 1 .. L : MentionAt(e, i) = {k \in 1 .. M : ms[k].start = i - 1}
    BY <1>2, OffsetsAre DEF CountsCharacters
  <1> HIDE DEF tag
  <1>10. ASSUME NEW k \in 1 .. M
         PROVE  ms[k].start \in 0 .. L - 1 /\ R[ms[k].start + 1] = tag(k)
    <2> DEFINE i == ms[k].start + 1
    <2>1. ms[k].start \in Nat /\ i \in 1 .. L /\ ms[k].start = i - 1 /\ ms[k].start \in 0 .. L - 1
      BY <1>2, <1>7
    <2>2. \A l \in 1 .. M : ms[l].start = ms[k].start => l = k
      BY <1>7
    <2>3. MentionAt(e, i) = {k}
      <3> HIDE DEF i
      <3>1. MentionAt(e, i) = {l \in 1 .. M : ms[l].start = i - 1}
        BY <1>9, <2>1
      <3>2. QED
        BY <2>1, <2>2, <3>1
    <2> HIDE DEF i
    <2>4. Rendered(e, i) = Tag(Identifier(ms[k]))
      BY <2>3 DEF Rendered
    <2>5. R[i] = tag(k)
      BY <1>8, <2>1, <2>4 DEF tag
    <2>6. QED
      BY <2>1, <2>5 DEF i
  <1>11. ASSUME NEW i \in 1 .. L, \A k \in 1 .. M : ms[k].start # i - 1
         PROVE  R[i] = <<t[i]>>
    <2>1. MentionAt(e, i) = {}
      BY <1>9, <1>11
    <2>2. QED
      BY <1>8, <2>1 DEF Rendered
  <1>12. \A i \in 1 .. L : R[i] \in Seq(A)
    <2>1. SUFFICES ASSUME NEW i \in 1 .. L PROVE R[i] \in Seq(A)
      OBVIOUS
    <2>2. CASE \A k \in 1 .. M : ms[k].start # i - 1
      <3>1. R[i] = <<t[i]>> /\ t[i] \in A
        BY <1>3, <1>11, <2>2
      <3>2. QED
        BY <3>1
    <2>3. CASE \E k \in 1 .. M : ms[k].start = i - 1
      <3>1. PICK k \in 1 .. M : ms[k].start = i - 1
        BY <2>3
      <3>2. ms[k].start + 1 = i
        BY <1>2, <3>1
      <3>3. R[i] = tag(k)
        BY <1>10, <3>2
      <3>4. QED
        BY <1>6, <3>3
    <2>4. QED
      BY <2>2, <2>3
  <1>13. R \in Seq(Seq(A)) /\ Len(R) = L
    <2>1. R \in [1 .. L -> Seq(A)]
      <3>1. R = [i \in 1 .. L |-> R[i]]
        BY <1>2 DEF Display
      <3> HIDE DEF R
      <3>2. QED
        BY <1>12, <3>1
    <2> HIDE DEF R, L
    <2>2. QED
      BY <1>2, <2>1, FunctionIsSeq
  <1>14. QED
    BY <1>2, <1>4, <1>6, <1>7, <1>10, <1>11, <1>13 DEF A, tag

(* What _render_mentions returns: the loop has rendered what is behind the *)
(* mention it is at, and left the text in front of it alone.               *)
LEMMA RenderMentionsIs ==
    ASSUME NEW e, IsText(e.text), IsText(e.mentions), WellPlaced(e), NarrowBefore(e)
    PROVE  RenderMentions(e.text, e.mentions) = FlattenSeq(Display(e))
  <1> DEFINE A == Alphabet(e)
             t == e.text
             ms == e.mentions
             L == Len(t)
             M == Len(ms)
             tag(k) == Tag(Identifier(ms[k]))
             R == Display(e)
             out == RenderMentions(t, ms)
  <1>1. /\ t \in Seq(A) /\ DOMAIN t = 1 .. L /\ L \in Nat /\ DOMAIN ms = 1 .. M /\ M \in Nat
        /\ R \in Seq(Seq(A)) /\ Len(R) = L
    BY DisplayOf
  <1>2. \A k \in 1 .. M : /\ ms[k].start \in 0 .. L - 1 /\ ms[k].length = 1
                          /\ tag(k) \in Seq(A) /\ R[ms[k].start + 1] = tag(k)
    BY DisplayOf
  <1>3. \A i \in 1 .. L : (\A k \in 1 .. M : ms[k].start # i - 1) => R[i] = <<t[i]>>
    BY DisplayOf
  <1>4. \A k \in 1 .. M : t[ms[k].start + 1].kind = "placeholder"
    BY <1>1, OffsetsAre DEF CountsCharacters
  <1>5. \A k, l \in 1 .. M : ms[k].start = ms[l].start => k = l
    BY <1>1, OffsetsAre DEF CountsCharacters
  <1>6. ms \in Seq({ms[k] : k \in DOMAIN ms})
    BY DEF IsText
  <1> HIDE DEF A, R
  <1>7. CASE \A i \in DOMAIN t : t[i].kind # "placeholder"
    <2>1. out = t
      BY <1>7 DEF RenderMentions
    <2>2. ASSUME NEW k \in 1 .. M PROVE FALSE
      <3>1. ms[k].start + 1 \in DOMAIN t
        BY <1>1, <1>2
      <3>2. QED
        BY <1>4, <1>7, <3>1
    <2>3. \A i \in 1 .. L : R[i] = <<t[i]>>
      BY <1>3, <2>2
    <2>4. FlattenSeq(R) = t
      BY <1>1, <2>3, FlattenSingles
    <2>5. QED
      BY <2>1, <2>4 DEF R
  <1>8. CASE ~(\A i \in DOMAIN t : t[i].kind # "placeholder")
    <2>1. PICK p \in [1 .. M -> 1 .. M] :
              /\ FromTheEnd(ms) = [n \in 1 .. M |-> ms[p[n]]]
              /\ \A k \in 1 .. M : \E n \in 1 .. M : p[n] = k
              /\ \A m, n \in 1 .. M : m < n => ms[p[n]].start < ms[p[m]].start
      <3>1. \A k \in 1 .. M : ms[k].start \in Nat
        BY <1>2
      <3> DEFINE B == {ms[k] : k \in DOMAIN ms}
      <3>2. ms \in Seq(B)
        BY <1>6
      <3> HIDE DEF B
      <3>3. QED
        BY <1>5, <3>1, <3>2, FromTheEndSorts
    <2> DEFINE B == [n \in 0 .. M |-> IF n = 0 THEN L ELSE ms[p[n]].start]
               front(n) == SubSeq(t, 1, B[n])
               back(n) == FlattenSeq(SubSeq(R, B[n] + 1, L))
               g == [n \in 0 .. M |-> front(n) \o back(n)]
               Def(f) == [n \in 0 .. M |->
                            IF n = 0 THEN t ELSE Splice(f[n - 1], FromTheEnd(ms)[n])]
               f == CHOOSE f : f = Def(f)
    <2>2. /\ B[0] = L
          /\ \A n \in 1 .. M : B[n] = ms[p[n]].start /\ B[n] \in 0 .. B[n - 1] - 1
          /\ \A n \in 0 .. M : B[n] \in 0 .. L
      <3>1. \A n \in 1 .. M : n \in 0 .. M /\ n # 0 /\ n - 1 \in 0 .. M
        BY <1>1
      <3>2. 0 \in 0 .. M /\ B[0] = L
        BY <1>1
      <3>3. \A n \in 1 .. M : B[n] = ms[p[n]].start /\ B[n] \in 0 .. L - 1
        BY <1>2, <2>1, <3>1
      <3> HIDE DEF B
      <3>4. ASSUME NEW n \in 1 .. M PROVE B[n] < B[n - 1]
        <4>1. CASE n = 1
          BY <1>1, <3>2, <3>3, <4>1
        <4>2. CASE n # 1
          <5>1. n - 1 \in 1 .. M /\ n - 1 < n
            BY <1>1, <4>2
          <5>2. ms[p[n]].start < ms[p[n - 1]].start
            BY <2>1, <5>1
          <5>3. QED
            BY <3>3, <5>1, <5>2
        <4>3. QED
          BY <4>1, <4>2
      <3>5. \A n \in 0 .. M : B[n] \in 0 .. L
        <4>1. \A n \in 0 .. M : n = 0 \/ n \in 1 .. M
          BY <1>1
        <4>2. QED
          BY <1>1, <3>2, <3>3, <4>1
      <3>6. \A n \in 1 .. M : B[n] \in 0 .. B[n - 1] - 1
        <4>1. SUFFICES ASSUME NEW n \in 1 .. M PROVE B[n] \in 0 .. B[n - 1] - 1
          OBVIOUS
        <4>2. B[n] \in Nat /\ B[n - 1] \in Nat /\ B[n] < B[n - 1]
          BY <1>1, <3>1, <3>4, <3>5
        <4>3. QED
          BY <4>2
      <3>7. QED
        BY <3>2, <3>3, <3>5, <3>6
    <2> HIDE DEF B
    <2>3. \A n \in 0 .. M : front(n) \in Seq(A) /\ back(n) \in Seq(A)
      <3>1. SUFFICES ASSUME NEW n \in 0 .. M PROVE front(n) \in Seq(A) /\ back(n) \in Seq(A)
        OBVIOUS
      <3> DEFINE b == B[n]
      <3>2. b \in Nat /\ b <= L /\ b + 1 \in Nat \ {0} /\ L <= Len(R)
        BY <1>1, <2>2
      <3> HIDE DEF b
      <3>3. SubSeq(t, 1, b) \in Seq(A) /\ SubSeq(R, b + 1, L) \in Seq(Seq(A))
        BY <1>1, <3>2, SubSeqOf
      <3>4. QED
        BY <3>3, FlattenTyped DEF b
    <2>4. front(0) \o back(0) = t
      <3>1. front(0) = t
        BY <1>1, <2>2, SubSeqFull
      <3>2. SubSeq(R, L + 1, L) = << >>
        BY <1>1, SubSeqEmpty
      <3>3. back(0) = << >>
        BY <2>2, <3>2, EmptyTexts
      <3> HIDE DEF front, back
      <3>4. QED
        BY <1>1, <3>1, <3>3, ConcatEmptySeq
    <2>5. ASSUME NEW n \in 1 .. M
          PROVE  Splice(front(n - 1) \o back(n - 1), FromTheEnd(ms)[n]) = front(n) \o back(n)
      <3> DEFINE b == B[n - 1]
                 k == p[n]
                 a == ms[k].start
                 u == back(n - 1)
      <3>1. n - 1 \in 0 .. M /\ n \in 0 .. M /\ k \in 1 .. M
        <4>1. n - 1 \in 0 .. M /\ n \in 0 .. M
          BY <1>1
        <4>2. k \in 1 .. M
          BY <2>1
        <4>3. QED
          BY <4>1, <4>2
      <3>2. FromTheEnd(ms)[n] = ms[k]
        BY <2>1
      <3>3. b \in 0 .. L /\ B[n] = a /\ a \in 0 .. b - 1
        BY <2>2, <3>1
      <3>4. ms[k].length = 1 /\ tag(k) \in Seq(A) /\ R[a + 1] = tag(k)
        BY <1>2, <3>1
      <3>5. u \in Seq(A)
        BY <2>3, <3>1
      <3>6. ASSUME NEW i \in a + 2 .. b PROVE R[i] = <<t[i]>>
        <4>1. a \in Nat /\ b \in Nat /\ b <= L /\ i \in 1 .. L /\ a < i - 1 /\ i - 1 < b
          <5> HIDE DEF a, b, L
          <5>1. QED
            BY <1>1, <3>3
        <4>2. ASSUME NEW l \in 1 .. M, ms[l].start = i - 1 PROVE FALSE
          <5>1. PICK m \in 1 .. M : p[m] = l
            BY <2>1
          <5>2. ms[p[m]].start = i - 1 /\ ms[p[n]].start = a
            BY <4>2, <5>1
          <5>3. ~(n <= m)
            <6>1. CASE n = m
              BY <4>1, <5>2, <6>1
            <6>2. CASE n < m
              <7>1. ms[p[m]].start < ms[p[n]].start
                BY <2>1, <6>2
              <7>2. QED
                BY <4>1, <5>2, <7>1
            <6>3. QED
              BY <6>1, <6>2
          <5>4. m \in 1 .. n - 1 /\ n - 1 \in 1 .. M
            BY <1>1, <5>3
          <5>5. b = ms[p[n - 1]].start
            BY <2>2, <5>4
          <5>6. CASE m = n - 1
            BY <4>1, <5>2, <5>5, <5>6
          <5>7. CASE m # n - 1
            <6>1. m < n - 1
              BY <5>4, <5>7
            <6>2. ms[p[n - 1]].start < ms[p[m]].start
              BY <2>1, <5>4, <6>1
            <6>3. b < i - 1
              BY <5>2, <5>5, <6>2
            <6>4. i \in Nat
              BY <4>1
            <6>5. QED
              BY ONLY <4>1, <6>3, <6>4
          <5>8. QED
            BY <5>6, <5>7
        <4>3. QED
          BY <1>3, <4>1, <4>2
      <3> HIDE DEF a, b, k, u, tag, back
      <3>7. FlattenSeq(SubSeq(R, a + 1, L))
               = R[a + 1] \o (SubSeq(t, a + 2, b) \o FlattenSeq(SubSeq(R, b + 1, L)))
        BY <1>1, <3>3, <3>6, ShownFromTag
      <3>8. u = FlattenSeq(SubSeq(R, b + 1, L)) /\ back(n) = FlattenSeq(SubSeq(R, a + 1, L))
        BY <3>3 DEF u, back, b
      <3>9. back(n) = tag(k) \o (SubSeq(t, a + 2, b) \o u)
        BY <3>4, <3>7, <3>8
      <3>10. Splice(SubSeq(t, 1, b) \o u, ms[k])
                = SubSeq(t, 1, a) \o (tag(k) \o (SubSeq(t, a + 2, b) \o u))
        <4> DEFINE mention == ms[k]
                   who == tag(k)
                   x == SubSeq(t, 1, b)
                   y == SubSeq(t, 1, a)
                   z == SubSeq(t, a + 2, b)
        <4>1. /\ t \in Seq(A) /\ b \in 0 .. Len(t) /\ u \in Seq(A) /\ a \in 0 .. b - 1
              /\ who \in Seq(A) /\ Mentions(mention, a, who)
          BY <1>1, <3>3, <3>4, <3>5 DEF a, tag, Mentions
        <4>2. CutAt(t, b, a, x, y, z)
          BY DEF CutAt
        <4> HIDE DEF mention, x, y, z, t, who
        <4>3. Splice(x \o u, mention) = y \o (who \o (z \o u))
          BY ONLY <4>1, <4>2, SpliceInFront, SMTT(100)
        <4>4. QED
          BY <4>3 DEF mention, x, y, z, who
      <3>11. front(n) = SubSeq(t, 1, a) /\ front(n - 1) = SubSeq(t, 1, b)
        BY <3>3 DEF b
      <3>12. QED
        BY <3>2, <3>9, <3>10, <3>11 DEF u
    <2>6. g = Def(g)
      <3> HIDE DEF front, back
      <3>1. \A n \in 0 .. M : n # 0 => n \in 1 .. M /\ n - 1 \in 0 .. M
        BY <1>1
      <3>2. \A n \in 0 .. M : g[n] = front(n) \o back(n)
        OBVIOUS
      <3>3. ASSUME NEW n \in 0 .. M PROVE g[n] = Def(g)[n]
        <4>1. CASE n = 0
          BY <2>4, <3>2, <4>1
        <4>2. CASE n # 0
          <5>1. g[n] = Splice(g[n - 1], FromTheEnd(ms)[n])
            BY <2>5, <3>1, <3>2, <4>2
          <5> HIDE DEF g
          <5>2. QED
            BY <4>2, <5>1
        <4>3. QED
          BY <4>1, <4>2
      <3>4. Def(g) = [n \in 0 .. M |-> Def(g)[n]] /\ g = [n \in 0 .. M |-> g[n]]
        OBVIOUS
      <3> HIDE DEF g, Def
      <3>5. QED
        BY <3>3, <3>4
    <2>7. f = Def(f)
      <3> HIDE DEF Def, g
      <3>1. QED
        BY <2>6
    <2>8. out = f[M]
      BY <1>8 DEF RenderMentions
    <2> HIDE DEF f
    <2>9. f[0] = t /\ \A n \in 1 .. M : f[n] = Splice(f[n - 1], FromTheEnd(ms)[n])
      <3>1. 0 \in 0 .. M /\ \A n \in 1 .. M : n \in 0 .. M /\ n # 0
        BY <1>1
      <3>2. \A n \in 0 .. M : f[n] = Def(f)[n]
        BY <2>7
      <3>3. QED
        BY <3>1, <3>2
    <2>10. M \in {n \in 0 .. M : f[n] = g[n]}
      <3> DEFINE T == {n \in 0 .. M : f[n] = g[n]}
      <3> HIDE DEF front, back
      <3>1. \A n \in 0 .. M : g[n] = front(n) \o back(n)
        OBVIOUS
      <3> HIDE DEF g
      <3>2. 0 \in T
        <4>1. 0 \in 0 .. M
          BY <1>1
        <4>2. f[0] = g[0]
          BY <2>4, <2>9, <3>1, <4>1
        <4>3. QED
          BY <4>1, <4>2
      <3>3. ASSUME NEW n \in 1 .. M, n - 1 \in T PROVE n \in T
        <4>1. n \in 0 .. M /\ n - 1 \in 0 .. M
          BY <1>1
        <4>2. f[n] = g[n]
          BY <2>5, <2>9, <3>1, <3>3, <4>1
        <4>3. QED
          BY <4>1, <4>2
      <3> HIDE DEF T
      <3>4. \A n \in 0 .. M : n \in T
        BY <1>1, <3>2, <3>3, UpTo
      <3>5. QED
        BY <1>1, <3>4 DEF T
    <2>11. front(M) = FlattenSeq(SubSeq(R, 1, B[M]))
      <3> DEFINE b == B[M]
      <3>1. b \in 0 .. L /\ b \in Nat
        BY <1>1, <2>2
      <3>2. ASSUME NEW i \in 1 .. b PROVE R[i] = <<t[i]>>
        <4>1. i \in 1 .. L /\ i - 1 < b
          BY <1>1, <3>1
        <4>2. ASSUME NEW l \in 1 .. M, ms[l].start = i - 1 PROVE FALSE
          <5>1. PICK m \in 1 .. M : p[m] = l
            BY <2>1
          <5>2. M \in 1 .. M
            BY <1>1
          <5>3. b = ms[p[M]].start /\ ms[p[m]].start = i - 1
            BY <2>2, <4>2, <5>1, <5>2
          <5>4. CASE m = M
            BY <4>1, <5>3, <5>4
          <5>5. CASE m # M
            <6>1. m < M
              BY <1>1, <5>5
            <6>2. ms[p[M]].start < ms[p[m]].start
              BY <2>1, <5>2, <6>1
            <6>3. QED
              BY <3>1, <4>1, <5>3, <6>2
          <5>6. QED
            BY <5>4, <5>5
        <4>3. QED
          BY <1>3, <4>1, <4>2
      <3> HIDE DEF b
      <3>3. FlattenSeq(SubSeq(R, 1, b)) = SubSeq(t, 1, b)
        <4>1. /\ t \in Seq(A) /\ R \in Seq(Seq(A)) /\ Len(R) = Len(t)
              /\ b \in 0 .. Len(t) /\ 1 \in Nat \ {0}
          BY <1>1, <3>1
        <4> HIDE DEF t
        <4>2. QED
          BY <3>2, <4>1, PlainPart
      <3>4. QED
        BY <3>3 DEF b
    <2>12. front(M) \o back(M) = FlattenSeq(R)
      <3> DEFINE b == B[M]
                 low == SubSeq(R, 1, b)
                 high == SubSeq(R, b + 1, L)
      <3>1. /\ b \in 0 .. L /\ b \in Nat /\ b <= Len(R) /\ b + 1 \in Nat \ {0} /\ L <= Len(R)
            /\ 1 \in 1 .. Len(R) + 1 /\ b \in 1 - 1 .. Len(R) /\ L \in b .. Len(R)
        <4>1. M \in 0 .. M /\ L \in Nat /\ Len(R) = L
          BY <1>1
        <4>2. b \in 0 .. L
          BY <2>2, <4>1
        <4> HIDE DEF b, L
        <4>3. QED
          BY <4>1, <4>2
      <3>2. low \in Seq(Seq(A)) /\ high \in Seq(Seq(A))
        <4> HIDE DEF b
        <4>1. QED
          BY <1>1, <3>1, SubSeqOf
      <3>3. low \o high = R
        <4> HIDE DEF b
        <4>1. low \o high = SubSeq(R, 1, L)
          BY <1>1, <3>1, ConcatAdjacentSubSeq
        <4>2. SubSeq(R, 1, L) = R
          BY <1>1, SubSeqFull
        <4>3. QED
          BY <4>1, <4>2
      <3>4. front(M) = FlattenSeq(low) /\ back(M) = FlattenSeq(high)
        BY <2>11
      <3> HIDE DEF low, high, front, back
      <3>5. FlattenSeq(low \o high) = FlattenSeq(low) \o FlattenSeq(high)
        BY <3>2, FlattenJoin
      <3>6. QED
        BY <3>3, <3>4, <3>5
    <2>13. QED
      <3> HIDE DEF front, back
      <3>1. g[M] = front(M) \o back(M)
        BY <1>1
      <3> HIDE DEF g
      <3>2. f[M] = g[M]
        BY <2>10
      <3>3. QED
        BY <2>8, <2>12, <3>1, <3>2 DEF R
  <1>9. QED
    BY <1>7, <1>8

(* What is relayed of an envelope is what parse_envelope makes of it.      *)
LEMMA EnvelopeOut ==
    ASSUME IInv, Done("envelope")
    PROVE  /\ Out = ParseEnvelope(job.envelope, job.settings)
           /\ IsText(job.envelope.text) /\ IsText(job.envelope.mentions)
           /\ DOMAIN job.settings = Setting
  <1>1. job \in Jobs /\ job.of = "envelope" /\ Out = ResultOf(job)
    BY DEF IInv, Done, Out
  <1>2. job \in EnvelopeJobs
    BY <1>1, JobAssumption DEF Jobs
  <1>3. QED
    BY <1>1, <1>2, JobAssumption DEF ResultOf

(* Every mention that is relayed has become the tag of its own person, and *)
(* every other character of the text is relayed as it was, if no emoji     *)
(* stands in front of a mention.                                           *)
THEOREM MentionsShown == Spec => []MentionsRendered
  <1>1. IInv => MentionsRendered
    <2>1. SUFFICES ASSUME IInv, Done("envelope"), ~Out.dropped,
                          WellPlaced(job.envelope), NarrowBefore(job.envelope)
                   PROVE  Out.text = FlattenSeq([i \in DOMAIN job.envelope.text |->
                                                    Rendered(job.envelope, i)])
      BY DEF MentionsRendered
    <2> DEFINE e == job.envelope
    <2>2. /\ Out = ParseEnvelope(e, job.settings)
          /\ IsText(e.text) /\ IsText(e.mentions) /\ WellPlaced(e) /\ NarrowBefore(e)
      BY <2>1, EnvelopeOut
    <2> HIDE DEF e
    <2>3. Out.text = TextOf(e)
      BY <2>1, <2>2 DEF ParseEnvelope
    <2>4. TextOf(e) = FlattenSeq(Display(e))
      BY <2>2, RenderMentionsIs DEF TextOf
    <2>5. QED
      BY <2>3, <2>4 DEF Display, e
  <1>2. QED
    BY <1>1, ResultInvariance, PTL

(* What a join of sequences holds is in one of them.                       *)
LEMMA FlattenFrom ==
    ASSUME NEW A, NEW seqs \in Seq(Seq(A)), NEW m \in 1 .. Len(FlattenSeq(seqs))
    PROVE  \E k \in 1 .. Len(seqs) : \E i \in 1 .. Len(seqs[k]) :
              FlattenSeq(seqs)[m] = seqs[k][i]
  <1> DEFINE N == Len(seqs)
             From(x, n) == \E k \in 1 .. n : \E i \in 1 .. Len(seqs[k]) : x = seqs[k][i]
  <1>1. N \in Nat /\ N \in 0 .. N /\ \A n \in 1 .. N : seqs[n] \in Seq(A)
    OBVIOUS
  <1>2. PICK flat \in [0 .. N -> Seq(A)] :
            IsFlattening(flat, seqs) /\ FlattenSeq(seqs) = flat[N]
    BY FlattenLoop
  <1> DEFINE T == {n \in 0 .. N : \A j \in 1 .. Len(flat[n]) : From(flat[n][j], n)}
  <1>3. 0 \in T
    BY <1>1, <1>2 DEF IsFlattening
  <1>4. ASSUME NEW n \in 1 .. N, n - 1 \in T PROVE n \in T
    <2> DEFINE x == flat[n - 1]
               y == seqs[n]
               s == flat[n]
    <2>1. /\ n \in 0 .. N /\ n - 1 \in 0 .. N /\ x \in Seq(A) /\ y \in Seq(A)
          /\ s = x \o y /\ n \in Nat
      <3>1. n \in 0 .. N /\ n - 1 \in 0 .. N /\ n \in Nat
        BY <1>1
      <3>2. s = x \o y
        BY <1>2 DEF IsFlattening
      <3> HIDE DEF N
      <3>3. x \in Seq(A) /\ y \in Seq(A)
        BY <1>1, <1>2, <3>1
      <3>4. QED
        BY <3>1, <3>2, <3>3
    <2>2. \A j \in 1 .. Len(x) : From(x[j], n - 1)
      BY <1>4
    <2>3. ASSUME NEW j \in 1 .. Len(s) PROVE From(s[j], n)
      <3> HIDE DEF x, y, s, From
      <3>1. /\ Len(s) = Len(x) + Len(y) /\ Len(x) \in Nat /\ Len(y) \in Nat /\ j \in Nat /\ j >= 1
            /\ j <= Len(s)
            /\ \A i \in 1 .. Len(x) : s[i] = x[i]
            /\ \A i \in 1 .. Len(y) : s[Len(x) + i] = y[i]
        <4>1. j \in Nat /\ j >= 1 /\ j <= Len(s) /\ Len(x) \in Nat /\ Len(y) \in Nat
          BY ONLY <2>1, LenProperties
        <4>2. /\ Len(s) = Len(x) + Len(y)
              /\ \A i \in 1 .. Len(x) : s[i] = x[i]
              /\ \A i \in 1 .. Len(y) : s[Len(x) + i] = y[i]
          BY <2>1, JoinOf
        <4>3. QED
          BY ONLY <4>1, <4>2
      <3>2. CASE j <= Len(x)
        <4>1. s[j] = x[j] /\ From(x[j], n - 1)
          BY <2>2, <3>1, <3>2
        <4>2. 1 .. n - 1 \subseteq 1 .. n
          BY <2>1
        <4>3. QED
          BY <4>1, <4>2 DEF From
      <3>3. CASE ~(j <= Len(x))
        <4> DEFINE i == j - Len(x)
        <4>1. i \in 1 .. Len(y) /\ j = Len(x) + i
          BY <3>1, <3>3
        <4> HIDE DEF i
        <4>2. s[j] = y[i] /\ n \in 1 .. n
          BY <2>1, <3>1, <4>1
        <4>3. QED
          BY <4>1, <4>2 DEF From, y
      <3>4. QED
        BY <3>2, <3>3
    <2> HIDE DEF From
    <2>4. QED
      BY <2>1, <2>3
  <1> HIDE DEF T
  <1>5. N \in T
    BY <1>1, <1>3, <1>4, UpTo
  <1>6. QED
    BY <1>2, <1>5 DEF T

(* The characters of a tag.                                                *)
LEMMA TagIs ==
    ASSUME NEW who
    PROVE  /\ Len(Tag(who)) = 2 /\ Tag(who)[1].kind = "at"
           /\ Tag(who)[2].kind = "tag" /\ Tag(who)[2].who = who
  <1> DEFINE a == [kind |-> "at", at |-> 0]
             b == [kind |-> "tag", at |-> 0, who |-> who]
             s == <<a>> \o <<b>>
  <1>1. Tag(who) = s
    BY DEF Tag, Inserted
  <1>2. a.kind = "at" /\ b.kind = "tag" /\ b.who = who
    OBVIOUS
  <1> HIDE DEF a, b
  <1>3. <<a>> \in Seq({a, b}) /\ <<b>> \in Seq({a, b}) /\ Len(<<a>>) = 1 /\ Len(<<b>>) = 1
    OBVIOUS
  <1>4. /\ Len(s) = 2
        /\ \A i \in 1 .. 1 : s[i] = <<a>>[i]
        /\ \A i \in 1 .. 1 : s[1 + i] = <<b>>[i]
    BY <1>3, ConcatProperties
  <1> HIDE DEF s
  <1>5. s[1] = a /\ s[2] = b
    BY <1>4
  <1>6. QED
    BY <1>1, <1>2, <1>4, <1>5

(* The rendered text shows the account if and only if the text did, or     *)
(* the account is what a mention is rendered as.                           *)
LEMMA ShowsAccountIff ==
    ASSUME NEW e, IsText(e.text), IsText(e.mentions), WellPlaced(e), NarrowBefore(e),
           NEW account
    PROVE  ShowsAccount(account, TextOf(e))
              <=> \/ ShowsAccount(account, e.text)
                  \/ \E k \in DOMAIN e.mentions : account = Identifier(e.mentions[k])
  <1> DEFINE A == Alphabet(e)
             t == e.text
             ms == e.mentions
             L == Len(t)
             M == Len(ms)
             R == Display(e)
             out == FlattenSeq(R)
             OfAccount(c) == c.kind = "tag" /\ c.who = account
  <1>1. /\ t \in Seq(A) /\ DOMAIN t = 1 .. L /\ L \in Nat /\ DOMAIN ms = 1 .. M /\ M \in Nat
        /\ R \in Seq(Seq(A)) /\ Len(R) = L
    BY DisplayOf
  <1>2. \A k \in 1 .. M : /\ ms[k].start \in 0 .. L - 1
                          /\ R[ms[k].start + 1] = Tag(Identifier(ms[k]))
    BY DisplayOf
  <1>3. \A i \in 1 .. L : (\A k \in 1 .. M : ms[k].start # i - 1) => R[i] = <<t[i]>>
    BY DisplayOf
  <1>4. \A k \in 1 .. M : t[ms[k].start + 1].kind = "placeholder"
    BY <1>1, OffsetsAre DEF CountsCharacters
  <1>5. TextOf(e) = out
    BY RenderMentionsIs DEF TextOf
  <1> HIDE DEF A, R
  <1>6. out \in Seq(A) /\ DOMAIN out = 1 .. Len(out)
    <2>1. out \in Seq(A)
      BY <1>1, FlattenTyped
    <2> HIDE DEF out
    <2>2. QED
      BY <2>1
  <1>7. ASSUME NEW m \in 1 .. Len(out), OfAccount(out[m])
        PROVE  \/ \E i \in 1 .. L : OfAccount(t[i])
               \/ \E k \in 1 .. M : account = Identifier(ms[k])
    <2>1. PICK i \in 1 .. L : \E j \in 1 .. Len(R[i]) : out[m] = R[i][j]
      <3>1. R \in Seq(Seq(A)) /\ m \in 1 .. Len(FlattenSeq(R))
        BY <1>1
      <3> HIDE DEF out
      <3>2. \E i \in 1 .. Len(R) : \E j \in 1 .. Len(R[i]) : FlattenSeq(R)[m] = R[i][j]
        BY <3>1, FlattenFrom
      <3>3. QED
        BY <1>1, <3>2 DEF out
    <2>2. PICK j \in 1 .. Len(R[i]) : out[m] = R[i][j]
      BY <2>1
    <2>3. CASE \A k \in 1 .. M : ms[k].start # i - 1
      <3>1. R[i] = <<t[i]>>
        BY <1>3, <2>3
      <3>2. Len(R[i]) = 1 /\ R[i][1] = t[i]
        BY <3>1
      <3>3. out[m] = t[i]
        BY <2>2, <3>2
      <3>4. QED
        BY <1>7, <3>3
    <2>4. CASE \E k \in 1 .. M : ms[k].start = i - 1
      <3>1. PICK k \in 1 .. M : ms[k].start = i - 1
        BY <2>4
      <3>2. ms[k].start + 1 = i
        BY <1>1, <3>1
      <3>3. R[i] = Tag(Identifier(ms[k]))
        BY <1>2, <3>2
      <3> DEFINE who == Identifier(ms[k])
      <3>4. R[i] = Tag(who) /\ who = Identifier(ms[k])
        BY <3>3
      <3> HIDE DEF who
      <3>5. /\ Len(R[i]) = 2 /\ R[i][1].kind = "at" /\ R[i][2].kind = "tag" /\ R[i][2].who = who
        BY <3>4, TagIs
      <3>6. j = 2
        <4>1. j = 1 \/ j = 2
          BY <2>2, <3>5
        <4>2. j # 1
          BY <1>7, <2>2, <3>5
        <4>3. QED
          BY <4>1, <4>2
      <3>7. account = who
        BY <1>7, <2>2, <3>5, <3>6
      <3>8. QED
        BY <3>4, <3>7
    <2>5. QED
      BY <2>3, <2>4
  <1>8. ASSUME NEW i \in 1 .. L, OfAccount(t[i]) PROVE \E m \in 1 .. Len(out) : OfAccount(out[m])
    <2>1. ASSUME NEW k \in 1 .. M, ms[k].start = i - 1 PROVE FALSE
      <3>1. ms[k].start + 1 = i
        BY <1>1, <2>1
      <3>2. t[i].kind = "placeholder"
        BY <1>4, <3>1
      <3>3. QED
        BY <1>8, <3>2
    <2>2. R[i] = <<t[i]>>
      BY <1>3, <2>1
    <2>3. 1 \in 1 .. Len(R[i]) /\ R[i][1] = t[i] /\ i \in 1 .. Len(R)
      BY <1>1, <2>2
    <2>4. PICK m \in 1 .. Len(out) : out[m] = R[i][1]
      BY <1>1, <2>3, FlattenHas
    <2>5. QED
      BY <1>8, <2>3, <2>4
  <1>9. ASSUME NEW k \in 1 .. M, account = Identifier(ms[k])
        PROVE  \E m \in 1 .. Len(out) : OfAccount(out[m])
    <2> DEFINE i == ms[k].start + 1
    <2>1. i \in 1 .. Len(R)
      <3>1. Len(R) = L /\ L \in Nat /\ ms[k].start \in 0 .. L - 1
        BY <1>1, <1>2, <1>9
      <3> HIDE DEF L
      <3>2. QED
        BY ONLY <3>1
    <2>1a. R[i] = Tag(account)
      BY <1>2, <1>9
    <2> HIDE DEF i
    <2>2. 2 \in 1 .. Len(R[i]) /\ OfAccount(R[i][2])
      BY <2>1a, TagIs
    <2>3. PICK m \in 1 .. Len(out) : out[m] = R[i][2]
      BY <1>1, <2>1, <2>2, FlattenHas
    <2>4. QED
      BY <2>2, <2>3
  <1> HIDE DEF out
  <1>10. ShowsAccount(account, TextOf(e)) <=> \E m \in 1 .. Len(out) : OfAccount(out[m])
    BY <1>5, <1>6 DEF ShowsAccount
  <1>11. ShowsAccount(account, e.text) <=> \E i \in 1 .. L : OfAccount(t[i])
    BY <1>1 DEF ShowsAccount
  <1>12. QED
    BY <1>1, <1>7, <1>8, <1>9, <1>10, <1>11

(* A message for the bot is treated as if no mention were required, and    *)
(* one that is not is dropped, where mentions are required and no emoji    *)
(* stands in front of one.                                                 *)
THEOREM MentionsHeard == Spec => []MentionHeard
  <1>1. IInv => MentionHeard
    <2> DEFINE e == job.envelope
               s == job.settings
               free == [s EXCEPT !.requireMention = FALSE]
    <2>1. SUFFICES ASSUME IInv, Done("envelope"), e.group # None, s.requireMention,
                          WellPlaced(e), NarrowBefore(e)
                   PROVE  IF Called(s.account, e) THEN Out = ParseEnvelope(e, free) ELSE Out.dropped
      BY DEF MentionHeard
    <2>2. Out = ParseEnvelope(e, s) /\ IsText(e.text) /\ IsText(e.mentions) /\ DOMAIN s = Setting
      BY <2>1, EnvelopeOut
    <2> HIDE DEF e, s
    <2>3. /\ free.account = s.account /\ free.allowed = s.allowed /\ free.cutoff = s.cutoff
          /\ ~free.requireMention
      BY <2>2 DEF Setting
    <2> HIDE DEF free
    <2>4. Called(s.account, e) <=> BotMentioned(s.account, TextOf(e), e.mentions)
      <3>1. ShowsAccount(s.account, TextOf(e))
               <=> \/ ShowsAccount(s.account, e.text)
                   \/ \E k \in DOMAIN e.mentions : s.account = Identifier(e.mentions[k])
        BY <2>1, <2>2, ShowsAccountIff
      <3>2. QED
        BY <3>1 DEF Called, BotMentioned
    <2>5. CASE Called(s.account, e)
      <3>1. Dropped(e, s) <=> Dropped(e, free)
        BY <2>3, <2>4, <2>5 DEF Dropped
      <3>2. ParseEnvelope(e, s) = ParseEnvelope(e, free)
        BY <3>1 DEF ParseEnvelope
      <3>3. QED
        BY <2>2, <2>5, <3>2
    <2>6. CASE ~Called(s.account, e)
      <3>1. Dropped(e, s)
        BY <2>1, <2>4, <2>6 DEF Dropped
      <3>2. Out.dropped
        BY <2>2, <3>1 DEF ParseEnvelope
      <3>3. QED
        BY <2>6, <3>2
    <2>7. QED
      BY <2>5, <2>6
  <1>2. QED
    BY <1>1, ResultInvariance, PTL

----------------------------------------------------------------------------
(* Markdown.  What remains of a text on its way through the phases is a    *)
(* sequence of its characters, in which each knows its place.              *)

Numbered(T) == IsText(T) /\ \A i \in DOMAIN T : T[i].at = i
Chars(T) == {T[i] : i \in DOMAIN T}

Increasing(u) == \A k, l \in 1 .. Len(u) : k < l => u[k].at < u[l].at

(* Behind h, only newlines that follow newlines are missing in u.          *)
Follows(T, u, h) ==
    \A k \in 1 .. Len(u) - 1 :
        k > h => \A x \in u[k].at + 1 .. u[k + 1].at - 1 :
                    T[x].kind = "newline" /\ T[x - 1].kind = "newline"

(* A character of a numbered text stands at its place.                     *)
LEMMA CharsOf ==
    ASSUME NEW T, Numbered(T)
    PROVE  /\ T \in Seq(Chars(T)) /\ Len(T) \in Nat /\ DOMAIN T = 1 .. Len(T)
           /\ \A i \in 1 .. Len(T) : T[i] \in Chars(T) /\ T[i].at = i
           /\ \A c \in Chars(T) : c.at \in 1 .. Len(T) /\ T[c.at] = c
  <1>1. T \in Seq(Chars(T))
    BY DEF Numbered, IsText, Chars
  <1>2. Len(T) \in Nat /\ DOMAIN T = 1 .. Len(T)
    BY <1>1
  <1>3. QED
    BY <1>1, <1>2 DEF Numbered, Chars

(* Ascending is strictly ascending.                                        *)
LEMMA AscendingOrder ==
    ASSUME NEW S \in SUBSET Nat, IsFiniteSet(S),
           NEW k \in 1 .. Cardinality(S), NEW l \in 1 .. Cardinality(S), k < l
    PROVE  Ascending(S)[k] < Ascending(S)[l]
  <1> DEFINE asc == Ascending(S)
             n == Cardinality(S)
  <1>1. n \in Nat /\ \A m \in 1 .. n : asc[m] \in S /\ Rank(S, asc[m]) = m
    BY AscendingIn DEF Rank
  <1>2. \A a, b \in S : a < b => Rank(S, a) < Rank(S, b)
    BY RankGrows
  <1> HIDE DEF asc
  <1>3. asc[k] \in S /\ asc[l] \in S /\ Rank(S, asc[k]) = k /\ Rank(S, asc[l]) = l
    BY <1>1
  <1> HIDE DEF n
  <1>4. k \in Nat /\ l \in Nat
    BY <1>1 DEF n
  <1>5. asc[k] # asc[l] /\ ~(asc[l] < asc[k])
    <2>1. ASSUME asc[l] < asc[k] PROVE FALSE
      <3>1. Rank(S, asc[l]) < Rank(S, asc[k])
        BY <1>2, <1>3, <2>1
      <3>2. l < k
        BY <1>3, <3>1
      <3>3. QED
        BY ONLY <1>4, <3>2, k < l
    <2>2. ASSUME asc[k] = asc[l] PROVE FALSE
      <3>1. k = l
        BY <1>3, <2>2
      <3>2. QED
        BY ONLY <1>4, <3>1, k < l
    <2>3. QED
      BY <2>1, <2>2
  <1>6. asc[k] \in Nat /\ asc[l] \in Nat
    BY <1>3
  <1>7. QED
    BY <1>5, <1>6 DEF asc

(* Picking keeps the order.                                                *)
LEMMA PickedIs ==
    ASSUME NEW A, NEW t \in Seq(A), NEW S \in SUBSET DOMAIN t
    PROVE  /\ Picked(t, S) \in Seq(A) /\ Cardinality(S) \in Nat
           /\ Len(Picked(t, S)) = Cardinality(S)
           /\ \A k \in 1 .. Cardinality(S) :
                 Ascending(S)[k] \in S /\ Picked(t, S)[k] = t[Ascending(S)[k]]
           /\ S \in SUBSET Nat /\ IsFiniteSet(S)
  <1>1. Len(t) \in Nat /\ S \in SUBSET (1 .. Len(t))
    OBVIOUS
  <1>2. S \in SUBSET Nat /\ IsFiniteSet(S)
    BY <1>1, AscendingOf
  <1>3. /\ Ascending(S) \in [1 .. Cardinality(S) -> S] /\ Cardinality(S) \in Nat
    BY <1>2, AscendingIn
  <1>4. Picked(t, S) = [k \in 1 .. Cardinality(S) |-> t[Ascending(S)[k]]]
    BY <1>3 DEF Picked
  <1>5. \A k \in 1 .. Cardinality(S) : Ascending(S)[k] \in S /\ t[Ascending(S)[k]] \in A
    BY <1>3
  <1> DEFINE n == Cardinality(S)
             f == Picked(t, S)
  <1>6. f \in [1 .. n -> A] /\ n \in Nat
    BY <1>3, <1>4, <1>5
  <1>7. f \in Seq(A) /\ Len(f) = n
    <2> HIDE DEF f, n
    <2>1. QED
      BY <1>6, FunctionIsSeq
  <1>8. QED
    BY <1>2, <1>3, <1>4, <1>5, <1>7

(* A part of such a text is one.                                           *)
LEMMA PartFollows ==
    ASSUME NEW T, NEW A, NEW u \in Seq(A), Increasing(u), Follows(T, u, 0),
           NEW m \in Nat \ {0}, NEW n \in Nat, n <= Len(u)
    PROVE  /\ SubSeq(u, m, n) \in Seq(A) /\ Increasing(SubSeq(u, m, n))
           /\ Follows(T, SubSeq(u, m, n), 0)
  <1> DEFINE s == SubSeq(u, m, n)
  <1>1. /\ s \in Seq(A) /\ Len(s) = IF m <= n THEN n - m + 1 ELSE 0
        /\ \A i \in 1 .. n - m + 1 : s[i] = u[m + i - 1]
    BY SubSeqOf
  <1> HIDE DEF s
  <1>2. Len(u) \in Nat
    OBVIOUS
  <1>3. Increasing(s)
    <2> SUFFICES ASSUME NEW k \in 1 .. Len(s), NEW l \in 1 .. Len(s), k < l
                 PROVE  s[k].at < s[l].at
      BY DEF Increasing
    <2> DEFINE a == m + k - 1
               b == m + l - 1
    <2>1. a \in 1 .. Len(u) /\ b \in 1 .. Len(u) /\ a < b /\ s[k] = u[a] /\ s[l] = u[b]
      BY <1>1, <1>2
    <2> HIDE DEF a, b
    <2>2. QED
      BY <2>1 DEF Increasing
  <1>4. Follows(T, s, 0)
    <2> SUFFICES ASSUME NEW k \in 1 .. Len(s) - 1,
                        NEW x \in s[k].at + 1 .. s[k + 1].at - 1
                 PROVE  T[x].kind = "newline" /\ T[x - 1].kind = "newline"
      BY DEF Follows
    <2> DEFINE a == m + k - 1
    <2>1. a \in 1 .. Len(u) - 1 /\ s[k] = u[a] /\ s[k + 1] = u[a + 1] /\ a > 0
      BY <1>1, <1>2
    <2> HIDE DEF a
    <2>2. x \in u[a].at + 1 .. u[a + 1].at - 1
      BY <2>1
    <2>3. QED
      BY <2>1, <2>2 DEF Follows
  <1>5. QED
    BY <1>1, <1>3, <1>4 DEF s

(* Strip takes a part of a text.                                           *)
LEMMA StripIs ==
    ASSUME NEW A, NEW t \in Seq(A)
    PROVE  \/ Strip(t) = << >>
           \/ \E m \in Nat \ {0}, n \in Nat : n <= Len(t) /\ Strip(t) = SubSeq(t, m, n)
  <1> DEFINE keep == {i \in DOMAIN t : t[i].kind \notin Whitespace}
  <1>1. keep \in SUBSET Nat /\ Len(t) \in Nat /\ \A i \in keep : i \in 1 .. Len(t) /\ i <= Len(t)
    OBVIOUS
  <1>2. Strip(t) = IF keep = {} THEN << >> ELSE SubSeq(t, Min(keep), Max(keep))
    BY DEF Strip
  <1> HIDE DEF keep
  <1>3. ASSUME keep # {} PROVE Min(keep) \in Nat \ {0} /\ Max(keep) \in Nat /\ Max(keep) <= Len(t)
    <2>1. Min(keep) \in keep /\ Max(keep) \in keep
      BY <1>1, <1>3, MinIsLeast, MaxIsGreatest
    <2>2. \A i \in keep : i \in Nat \ {0} /\ i <= Len(t)
      BY <1>1
    <2>3. QED
      BY ONLY <2>1, <2>2
  <1>4. QED
    BY <1>2, <1>3

(* Before the first phase only newlines behind newlines are removed.       *)
LEMMA NormalizedOf ==
    ASSUME NEW T, Numbered(T)
    PROVE  /\ Normalized(T) \in Seq(Chars(T)) /\ Increasing(Normalized(T))
           /\ Follows(T, Normalized(T), 0)
  <1> DEFINE K == {i \in DOMAIN T : ~(i > 2 /\ MarkerAt(T, i - 2, "newline", 3))}
             P == Picked(T, K)
             n == Cardinality(K)
             asc == Ascending(K)
  <1>1. /\ T \in Seq(Chars(T)) /\ Len(T) \in Nat /\ DOMAIN T = 1 .. Len(T)
        /\ \A i \in 1 .. Len(T) : T[i] \in Chars(T) /\ T[i].at = i
    BY CharsOf
  <1>2. /\ P \in Seq(Chars(T)) /\ n \in Nat /\ Len(P) = n
        /\ \A k \in 1 .. n : asc[k] \in K /\ P[k] = T[asc[k]]
        /\ K \in SUBSET Nat /\ IsFiniteSet(K)
    <2>1. K \in SUBSET DOMAIN T
      OBVIOUS
    <2> HIDE DEF K
    <2>2. QED
      BY <1>1, <2>1, PickedIs
  <1>3. \A k \in 1 .. n : asc[k] \in 1 .. Len(T) /\ P[k].at = asc[k]
    BY <1>1, <1>2
  <1>4. Normalized(T) = Strip(P)
    BY DEF Normalized
  <1>5. ASSUME NEW x \in 1 .. Len(T), x \notin K
        PROVE  T[x].kind = "newline" /\ T[x - 1].kind = "newline"
    <2>1. x > 2 /\ MarkerAt(T, x - 2, "newline", 3)
      BY <1>1, <1>5
    <2>2. x \in x - 2 .. (x - 2) + 3 - 1 /\ x - 1 \in x - 2 .. (x - 2) + 3 - 1
      OBVIOUS
    <2>3. QED
      BY <2>1, <2>2 DEF MarkerAt
  <1>6. \A k, l \in 1 .. n : k < l => asc[k] < asc[l]
    <2> HIDE DEF K
    <2>1. QED
      BY <1>2, AscendingOrder
  <1>7. \A k \in 1 .. n, x \in K : asc[k] < x => asc[k + 1] <= x
    <2> HIDE DEF K
    <2>1. QED
      BY <1>2, AscendingGrows
  <1> HIDE DEF asc, n, P, K
  <1>8. Increasing(P)
    BY <1>2, <1>3, <1>6 DEF Increasing
  <1>9. Follows(T, P, 0)
    <2> SUFFICES ASSUME NEW k \in 1 .. Len(P) - 1,
                        NEW x \in P[k].at + 1 .. P[k + 1].at - 1
                 PROVE  T[x].kind = "newline" /\ T[x - 1].kind = "newline"
      BY DEF Follows
    <2>1. k \in 1 .. n /\ k + 1 \in 1 .. n
      BY <1>2
    <2>2. /\ asc[k] \in 1 .. Len(T) /\ asc[k + 1] \in 1 .. Len(T)
          /\ P[k].at = asc[k] /\ P[k + 1].at = asc[k + 1]
      BY <1>3, <2>1
    <2>3. x \in 1 .. Len(T) /\ asc[k] < x /\ ~(asc[k + 1] <= x)
      BY <1>1, <2>2
    <2>4. x \notin K
      BY <1>7, <2>1, <2>3
    <2>5. QED
      BY <1>5, <2>3, <2>4
  <1>10. CASE Strip(P) = << >>
    <2>1. << >> \in Seq(Chars(T)) /\ Len(<< >>) = 0
      BY EmptySeq
    <2>2. QED
      BY <1>4, <1>10, <2>1 DEF Increasing, Follows
  <1>11. CASE \E a \in Nat \ {0}, b \in Nat : b <= Len(P) /\ Strip(P) = SubSeq(P, a, b)
    <2>1. PICK a \in Nat \ {0}, b \in Nat : b <= Len(P) /\ Strip(P) = SubSeq(P, a, b)
      BY <1>11
    <2>2. QED
      BY <1>2, <1>4, <1>8, <1>9, <2>1, PartFollows
  <1>12. QED
    BY <1>2, <1>10, <1>11, StripIs

(* Between two characters behind h there are in the input only those       *)
(* between them and newlines.                                              *)
LEMMA Between ==
    ASSUME NEW T, Numbered(T), NEW u \in Seq(Chars(T)), Increasing(u), NEW h \in Nat,
           Follows(T, u, h), NEW k \in 1 .. Len(u), NEW l \in 1 .. Len(u), h < k, k < l,
           NEW x \in u[k].at + 1 .. u[l].at - 1
    PROVE  (\E m \in k + 1 .. l - 1 : u[m].at = x) \/ T[x].kind = "newline"
  <1>1. /\ Len(u) \in Nat /\ \A m \in 1 .. Len(u) : u[m].at \in Nat
    <2>1. \A c \in Chars(T) : c.at \in Nat
      BY CharsOf
    <2>2. QED
      BY <2>1
  <1> DEFINE S == {m \in k .. l : u[m].at <= x}
             m == Max(S)
  <1>2. u[k].at \in Nat /\ u[l].at \in Nat /\ x \in Nat /\ u[k].at < x /\ x < u[l].at
    BY <1>1
  <1>3. S \in SUBSET Nat /\ k \in S /\ \A i \in S : i <= l
    BY <1>2
  <1>4. m \in S /\ \A i \in S : i <= m
    <2> HIDE DEF S
    <2>1. l \in Nat
      OBVIOUS
    <2>2. QED
      BY <1>3, <2>1, MaxIsGreatest
  <1> HIDE DEF m
  <1>5. /\ m \in k .. l /\ u[m].at <= x /\ m # l
    BY <1>2, <1>4
  <1>6. m \in 1 .. Len(u) - 1 /\ m + 1 \in k .. l /\ m > h /\ m + 1 \in 1 .. Len(u)
    BY <1>1, <1>5
  <1>7. ~(u[m + 1].at <= x)
    <2> SUFFICES ASSUME u[m + 1].at <= x PROVE FALSE
      OBVIOUS
    <2>1. m + 1 \in S
      BY <1>6
    <2>2. QED
      BY <1>4, <1>5, <2>1
  <1>8. CASE u[m].at = x
    <2>1. m # k
      BY <1>2, <1>8
    <2>2. m \in k + 1 .. l - 1
      BY <1>5, <2>1
    <2>3. QED
      BY <1>8, <2>2
  <1>9. CASE u[m].at # x
    <2> DEFINE p == u[m].at
               q == u[m + 1].at
    <2>1. m \in 1 .. Len(u) - 1 /\ m > h /\ m \in 1 .. Len(u) /\ m + 1 \in 1 .. Len(u)
      BY ONLY <1>6, <1>1
    <2>2. p \in Nat /\ q \in Nat
      BY ONLY <1>1, <2>1
    <2>3. p <= x /\ p # x /\ ~(q <= x) /\ x \in Nat
      BY ONLY <1>2, <1>5, <1>7, <1>9
    <2>4. x \in p + 1 .. q - 1
      <3> HIDE DEF p, q
      <3>1. QED
        BY ONLY <2>2, <2>3
    <2>5. QED
      BY ONLY <2>1, <2>4, Follows(T, u, h) DEF Follows
  <1>10. QED
    BY <1>8, <1>9

(* Behind h, what stands behind a character other than a newline stood     *)
(* behind it in the input.                                                 *)
LEMMA NextTo ==
    ASSUME NEW T, Numbered(T), NEW u \in Seq(Chars(T)), Increasing(u), NEW h \in Nat,
           Follows(T, u, h), NEW k \in 1 .. Len(u) - 1, k > h, u[k].kind # "newline"
    PROVE  u[k + 1].at = u[k].at + 1
  <1>1. k \in 1 .. Len(u) /\ k + 1 \in 1 .. Len(u) /\ k < k + 1
    OBVIOUS
  <1>2. u[k] \in Chars(T) /\ u[k + 1] \in Chars(T)
    BY <1>1
  <1>3. u[k].at \in Nat /\ u[k + 1].at \in Nat /\ T[u[k].at] = u[k]
    BY <1>2, CharsOf
  <1>4. u[k].at < u[k + 1].at
    BY <1>1 DEF Increasing
  <1>5. ASSUME u[k + 1].at # u[k].at + 1 PROVE FALSE
    <2> DEFINE p == u[k].at
               q == u[k + 1].at
               x == p + 1
    <2>1. x \in p + 1 .. q - 1 /\ x - 1 = p
      <3>1. p \in Nat /\ q \in Nat /\ p < q /\ q # p + 1
        BY ONLY <1>3, <1>4, <1>5
      <3> HIDE DEF p, q
      <3>2. QED
        BY ONLY <3>1
    <2> HIDE DEF x
    <2>2. T[x - 1].kind = "newline"
      BY ONLY <2>1, k \in 1 .. Len(u) - 1, k > h, Follows(T, u, h) DEF Follows
    <2>3. QED
      BY ONLY <1>3, <2>1, <2>2, u[k].kind # "newline"
  <1>6. QED
    BY <1>5

(* Behind h, markers in a row are in a row of the input.                    *)
LEMMA FenceMoves ==
    ASSUME NEW T, Numbered(T), NEW u \in Seq(Chars(T)), Increasing(u), NEW h \in Nat,
           Follows(T, u, h), NEW j \in Nat, j > h, NEW n \in Nat \ {0}, MarkerAt(u, j, "tick", n)
    PROVE  MarkerAt(T, u[j].at, "tick", n) /\ u[j + (n - 1)].at = u[j].at + (n - 1)
  <1> DEFINE a == u[j].at
             N == n - 1
             M == {m \in 0 .. N : u[j + m].at = a + m}
  <1>1. DOMAIN u = 1 .. Len(u) /\ Len(u) \in Nat /\ N \in Nat
    OBVIOUS
  <1>2. \A i \in j .. j + n - 1 : i \in 1 .. Len(u) /\ u[i].kind = "tick"
    BY <1>1 DEF MarkerAt
  <1>3. ASSUME NEW m \in 0 .. N
        PROVE  /\ j + m \in 1 .. Len(u) /\ u[j + m].kind = "tick"
               /\ u[j + m].at \in 1 .. Len(T) /\ T[u[j + m].at].kind = "tick"
    <2>1. j + m \in j .. j + n - 1
      OBVIOUS
    <2>2. j + m \in 1 .. Len(u) /\ u[j + m].kind = "tick"
      BY <1>2, <2>1
    <2>3. u[j + m] \in Chars(T)
      BY <2>2
    <2>4. QED
      BY <2>2, <2>3, CharsOf
  <1>4. a \in Nat
    <2>1. 0 \in 0 .. N /\ j + 0 = j
      BY <1>1
    <2>2. u[j + 0].at \in 1 .. Len(T)
      BY <1>3, <2>1
    <2>3. u[j + 0].at \in Nat /\ u[j + 0] = u[j]
      BY <2>1, <2>2
    <2>4. QED
      BY <2>3
  <1>5. ASSUME NEW m \in 1 .. N, m - 1 \in M PROVE m \in M
    <2> DEFINE k == j + (m - 1)
    <2>1. m - 1 \in 0 .. N /\ m \in 0 .. N /\ k + 1 = j + m
      OBVIOUS
    <2>2. k \in 1 .. Len(u) /\ u[k].kind # "newline" /\ j + m \in 1 .. Len(u)
      BY <1>3, <2>1
    <2>3. k \in 1 .. Len(u) - 1 /\ k > h
      BY <1>1, <2>1, <2>2
    <2>4. u[k].at = a + (m - 1)
      BY <1>5
    <2> HIDE DEF a, k
    <2>5. u[k + 1].at = u[k].at + 1
      BY <2>2, <2>3, NextTo
    <2>6. u[j + m].at = a + m
      BY <1>4, <2>1, <2>4, <2>5
    <2>7. QED
      BY <2>1, <2>6 DEF a
  <1>6. \A m \in 0 .. N : m \in M
    <2>1. 0 \in M
      <3>1. 0 \in 0 .. N /\ j + 0 = j /\ a + 0 = a
        BY <1>1, <1>4
      <3>2. QED
        BY <3>1
    <2> HIDE DEF M
    <2>2. QED
      BY <1>1, <1>5, <2>1, UpTo
  <1>7. ASSUME NEW y \in a .. a + n - 1 PROVE y \in DOMAIN T /\ T[y].kind = "tick"
    <2> DEFINE m == y - a
    <2>1. m \in 0 .. N /\ a + m = y
      <3> HIDE DEF a
      <3>1. QED
        BY <1>4
    <2> HIDE DEF m
    <2>2. u[j + m].at = y
      BY <1>6, <2>1
    <2>3. QED
      BY <1>3, <2>1, <2>2, CharsOf
  <1>8. N \in 0 .. N
    BY <1>1
  <1>9. QED
    BY <1>6, <1>7, <1>8 DEF MarkerAt

StyleRange ==
    [start : Nat, len : Nat, style : {"MONOSPACE", "BOLD", "STRIKETHROUGH", "ITALIC"},
     of : SUBSET Nat]

(* A style is on the characters it was found for.                          *)
OnPlace(u, s) ==
    s.start + s.len <= Len(u) /\ s.of = {u[k].at : k \in s.start + 1 .. s.start + s.len}

(* What Style records.                                                     *)
LEMMA StyleTyped ==
    ASSUME NEW T, Numbered(T), NEW start \in Nat, NEW of \in Seq(Chars(T)),
           NEW style \in {"MONOSPACE", "BOLD", "STRIKETHROUGH", "ITALIC"}
    PROVE  /\ Style(start, of, style) \in StyleRange
           /\ Style(start, of, style).start = start /\ Style(start, of, style).len = Len(of)
           /\ Style(start, of, style).style = style
           /\ Style(start, of, style).of = {of[i].at : i \in 1 .. Len(of)}
  <1>1. DOMAIN of = 1 .. Len(of) /\ Len(of) \in Nat /\ \A i \in 1 .. Len(of) : of[i] \in Chars(T)
    OBVIOUS
  <1>2. \A i \in 1 .. Len(of) : of[i].at \in Nat
    BY <1>1, CharsOf
  <1>3. {of[i].at : i \in 1 .. Len(of)} \in SUBSET Nat
    BY <1>2
  <1>4. QED
    BY <1>1, <1>3 DEF Style, StyleRange

(* A style stays in place as long as the text up to its end does.          *)
LEMMA OnPlaceAgrees ==
    ASSUME NEW A, NEW u \in Seq(A), NEW v \in Seq(A), NEW h \in Nat, h <= Len(u), h <= Len(v),
           \A k \in 1 .. h : v[k] = u[k],
           NEW s \in StyleRange, OnPlace(u, s), s.start + s.len <= h
    PROVE  OnPlace(v, s)
  <1>1. s.start \in Nat /\ s.len \in Nat
    BY DEF StyleRange
  <1> DEFINE I == s.start + 1 .. s.start + s.len
  <1>2. \A k \in I : v[k] = u[k]
    BY <1>1
  <1>3. {v[k].at : k \in I} = {u[k].at : k \in I}
    <2> HIDE DEF I
    <2>1. QED
      BY <1>2
  <1>4. Len(v) \in Nat
    OBVIOUS
  <1>5. s.start + s.len <= Len(v)
    BY <1>1, <1>4
  <1>6. QED
    BY <1>3, <1>5 DEF OnPlace

LEMMA OnPlaceJoin ==
    ASSUME NEW A, NEW u \in Seq(A), NEW v \in Seq(A), NEW s \in StyleRange, OnPlace(u, s)
    PROVE  OnPlace(u \o v, s)
  <1>1. /\ u \o v \in Seq(A) /\ Len(u \o v) = Len(u) + Len(v)
        /\ \A k \in 1 .. Len(u) : (u \o v)[k] = u[k]
    BY JoinOf
  <1> DEFINE w == u \o v
             h == Len(u)
  <1>2. h \in Nat /\ Len(v) \in Nat
    OBVIOUS
  <1>3. h <= Len(u) /\ h <= Len(w) /\ \A k \in 1 .. h : w[k] = u[k]
    BY <1>1, <1>2
  <1>4. s.start + s.len <= h
    BY DEF OnPlace
  <1> HIDE DEF w, h
  <1>5. w \in Seq(A)
    BY <1>1 DEF w
  <1>6. OnPlace(w, s)
    BY <1>2, <1>3, <1>4, <1>5, OnPlaceAgrees
  <1>7. QED
    BY <1>6 DEF w

(* A style that is recorded when its characters are appended is in place.  *)
LEMMA StyleOnPlace ==
    ASSUME NEW T, Numbered(T), NEW u \in Seq(Chars(T)), NEW of \in Seq(Chars(T)),
           NEW style \in {"MONOSPACE", "BOLD", "STRIKETHROUGH", "ITALIC"}
    PROVE  OnPlace(u \o of, Style(Len(u), of, style))
  <1> DEFINE w == u \o of
             s == Style(Len(u), of, style)
             m == Len(u)
             n == Len(of)
  <1>1. /\ Len(w) = m + n /\ m \in Nat /\ n \in Nat
        /\ \A k \in 1 .. n : w[m + k] = of[k]
    <2>1. Len(u) \in Nat /\ Len(of) \in Nat
      OBVIOUS
    <2>2. QED
      BY <2>1, JoinOf
  <1>2. s.start = m /\ s.len = n /\ s.of = {of[i].at : i \in 1 .. n}
    BY <1>1, StyleTyped
  <1> HIDE DEF w, s, m, n
  <1>3. {of[i].at : i \in 1 .. n} = {w[k].at : k \in m + 1 .. m + n}
    <2>1. ASSUME NEW i \in 1 .. n PROVE of[i].at \in {w[k].at : k \in m + 1 .. m + n}
      <3>1. m + i \in m + 1 .. m + n /\ w[m + i] = of[i]
        BY <1>1
      <3>2. QED
        BY <3>1
    <2>2. ASSUME NEW k \in m + 1 .. m + n PROVE w[k].at \in {of[i].at : i \in 1 .. n}
      <3>1. k - m \in 1 .. n /\ m + (k - m) = k
        BY <1>1
      <3>2. w[k] = of[k - m]
        BY <1>1, <3>1
      <3>3. QED
        BY <3>1, <3>2
    <2>3. QED
      BY <2>1, <2>2
  <1>4. OnPlace(w, s)
    <2> DEFINE I == m + 1 .. m + n
    <2>1. s.start + 1 .. s.start + s.len = I
      BY <1>2
    <2>2. s.of = {w[k].at : k \in I}
      BY <1>2, <1>3
    <2>3. s.start + s.len <= Len(w)
      BY <1>1, <1>2
    <2> HIDE DEF I
    <2>4. QED
      BY <2>1, <2>2, <2>3 DEF OnPlace
  <1>5. QED
    BY <1>4 DEF w, s, m

(* A text whose part from i to c is only what was from a to b.             *)
Middle(u, i, a, b, c) == SubSeq(u, 1, i - 1) \o SubSeq(u, a, b) \o SubSeq(u, c, Len(u))

MiddleIs(u, v, i, a, b, c, n) ==
    /\ n \in Nat /\ Len(v) = (i - 1) + n + (Len(u) - c + 1)
    /\ Len(SubSeq(u, 1, i - 1)) = i - 1 /\ Len(SubSeq(u, a, b)) = n
    /\ \A k \in 1 .. i - 1 : v[k] = u[k]
    /\ \A k \in i .. i - 1 + n : v[k] = u[k - i + a]
    /\ \A k \in i + n .. Len(v) : v[k] = u[k - (i - 1 + n) + c - 1]

(* Where a text with a part taken out of the middle has its characters     *)
(* from.                                                                   *)
LEMMA Spliced ==
    ASSUME NEW A, NEW u \in Seq(A), NEW i \in Nat, NEW a \in Nat, NEW b \in Nat, NEW c \in Nat,
           1 <= i, i <= a, a - 1 <= b, b < c, c <= Len(u) + 1,
           NEW v, v = Middle(u, i, a, b, c),
           NEW n, n = b - a + 1
    PROVE  v \in Seq(A) /\ MiddleIs(u, v, i, a, b, c, n)
  <1> DEFINE x == SubSeq(u, 1, i - 1)
             y == SubSeq(u, a, b)
             z == SubSeq(u, c, Len(u))
             L == Len(u)
  <1>1. /\ L \in Nat /\ n \in Nat /\ b <= L /\ i - 1 \in Nat /\ i - 1 <= L
        /\ 1 \in Nat \ {0} /\ a \in Nat \ {0} /\ c \in Nat \ {0} /\ L <= L
    OBVIOUS
  <1>2. /\ x \in Seq(A) /\ Len(x) = i - 1 /\ \A k \in 1 .. i - 1 : x[k] = u[k]
    <2> DEFINE e == i - 1
    <2>1. e \in Nat /\ e <= Len(u) /\ 1 \in Nat \ {0}
      BY <1>1
    <2> HIDE DEF e
    <2>2. /\ SubSeq(u, 1, e) \in Seq(A) /\ Len(SubSeq(u, 1, e)) = IF 1 <= e THEN e - 1 + 1 ELSE 0
          /\ \A k \in 1 .. e - 1 + 1 : SubSeq(u, 1, e)[k] = u[1 + k - 1]
      BY <2>1, SubSeqOf
    <2>3. /\ SubSeq(u, 1, e) \in Seq(A) /\ Len(SubSeq(u, 1, e)) = e
          /\ \A k \in 1 .. e : SubSeq(u, 1, e)[k] = u[k]
      BY <2>1, <2>2
    <2>4. QED
      BY <2>3 DEF e
  <1>3. /\ y \in Seq(A) /\ Len(y) = n /\ \A k \in 1 .. n : y[k] = u[a + k - 1]
    <2>1. /\ y \in Seq(A) /\ Len(y) = IF a <= b THEN b - a + 1 ELSE 0
          /\ \A k \in 1 .. b - a + 1 : y[k] = u[a + k - 1]
      BY <1>1, SubSeqOf
    <2> HIDE DEF y
    <2>2. QED
      BY <1>1, <2>1
  <1>4. /\ z \in Seq(A) /\ Len(z) = L - c + 1 /\ \A k \in 1 .. L - c + 1 : z[k] = u[c + k - 1]
    <2>1. /\ z \in Seq(A) /\ Len(z) = IF c <= L THEN L - c + 1 ELSE 0
          /\ \A k \in 1 .. L - c + 1 : z[k] = u[c + k - 1]
      <3>1. L \in Nat /\ c \in Nat \ {0} /\ L <= Len(u) /\ z = SubSeq(u, c, L)
        BY <1>1
      <3> HIDE DEF L, z
      <3>2. /\ SubSeq(u, c, L) \in Seq(A)
            /\ Len(SubSeq(u, c, L)) = IF c <= L THEN L - c + 1 ELSE 0
            /\ \A k \in 1 .. L - c + 1 : SubSeq(u, c, L)[k] = u[c + k - 1]
        BY ONLY <3>1, u \in Seq(A), SubSeqOf
      <3>3. QED
        BY ONLY <3>1, <3>2
    <2> HIDE DEF z
    <2>2. QED
      BY <1>1, <2>1
  <1>5. v = (x \o y) \o z
    BY DEF Middle
  <1> HIDE DEF x, y, z, L
  <1> DEFINE w == x \o y
  <1>6. /\ w \in Seq(A) /\ Len(w) = (i - 1) + n
        /\ \A k \in 1 .. i - 1 : w[k] = x[k]
        /\ \A k \in 1 .. n : w[i - 1 + k] = y[k]
    <2>1. /\ x \o y \in Seq(A) /\ Len(x \o y) = Len(x) + Len(y)
          /\ \A k \in 1 .. Len(x) : (x \o y)[k] = x[k]
          /\ \A k \in 1 .. Len(y) : (x \o y)[Len(x) + k] = y[k]
      <3>1. x \in Seq(A) /\ y \in Seq(A)
        BY <1>2, <1>3
      <3>2. QED
        BY ONLY <3>1, JoinOf
    <2>2. QED
      BY <1>2, <1>3, <2>1
  <1> HIDE DEF w
  <1>7. /\ v \in Seq(A) /\ Len(v) = Len(w) + Len(z)
        /\ \A k \in 1 .. Len(w) : v[k] = w[k]
        /\ \A k \in 1 .. Len(z) : v[Len(w) + k] = z[k]
    <2>1. /\ w \o z \in Seq(A) /\ Len(w \o z) = Len(w) + Len(z)
          /\ \A k \in 1 .. Len(w) : (w \o z)[k] = w[k]
          /\ \A k \in 1 .. Len(z) : (w \o z)[Len(w) + k] = z[k]
      <3>1. w \in Seq(A) /\ z \in Seq(A)
        BY <1>4, <1>6
      <3>2. QED
        BY ONLY <3>1, JoinOf
    <2>2. v = w \o z
      BY <1>5 DEF w
    <2>3. QED
      BY <2>1, <2>2
  <1>8. Len(v) = (i - 1) + n + (L - c + 1)
    BY <1>1, <1>4, <1>6, <1>7
  <1>9. ASSUME NEW k \in 1 .. i - 1 PROVE v[k] = u[k]
    <2>1. k \in 1 .. Len(w)
      BY <1>1, <1>6
    <2>2. QED
      BY <1>2, <1>6, <1>7, <2>1
  <1>10. ASSUME NEW k \in i .. i - 1 + n PROVE v[k] = u[k - i + a]
    <2> DEFINE m == k - i + 1
    <2>1. k \in 1 .. Len(w) /\ m \in 1 .. n /\ i - 1 + m = k /\ a + m - 1 = k - i + a
      BY <1>1, <1>6
    <2> HIDE DEF m
    <2>2. w[i - 1 + m] = y[m] /\ y[m] = u[a + m - 1]
      BY <1>3, <1>6, <2>1
    <2>3. QED
      BY <1>7, <2>1, <2>2
  <1>11. ASSUME NEW k \in i + n .. Len(v) PROVE v[k] = u[k - (i - 1 + n) + c - 1]
    <2> DEFINE m == k - (i - 1 + n)
    <2>1. m \in 1 .. L - c + 1 /\ Len(w) + m = k /\ c + m - 1 = k - (i - 1 + n) + c - 1
      <3> DEFINE lv == Len(v)
                 lw == Len(w)
      <3>1. lw = i - 1 + n /\ lv = (i - 1) + n + (L - c + 1) /\ k \in i + n .. lv
        BY <1>6, <1>8
      <3> HIDE DEF lv, lw
      <3>2. m \in 1 .. L - c + 1 /\ lw + m = k /\ c + m - 1 = k - (i - 1 + n) + c - 1
        BY ONLY <1>1, <3>1, i \in Nat, c \in Nat
      <3>3. QED
        BY <3>2 DEF lw
    <2> HIDE DEF m
    <2>2. v[Len(w) + m] = z[m] /\ z[m] = u[c + m - 1]
      BY <1>4, <1>7, <2>1
    <2>3. QED
      BY <2>1, <2>2
  <1>12. QED
    BY <1>1, <1>2, <1>3, <1>7, <1>8, <1>9, <1>10, <1>11 DEF x, y, L, MiddleIs

(* The first character of a kind from i on.                                *)
LEMMA FirstFromIs ==
    ASSUME NEW A, NEW u \in Seq(A), NEW i \in 1 .. Len(u) + 1, NEW kind
    PROVE  /\ FirstFrom(u, i, kind) \in i .. Len(u) + 1
           /\ \A k \in i .. FirstFrom(u, i, kind) - 1 : u[k].kind # kind
  <1> DEFINE S == {j \in DOMAIN u : j >= i /\ u[j].kind = kind} \cup {Len(u) + 1}
  <1>1. Len(u) \in Nat /\ DOMAIN u = 1 .. Len(u)
    OBVIOUS
  <1>2. S \in SUBSET Nat /\ S # {} /\ \A j \in S : j \in i .. Len(u) + 1
    BY <1>1
  <1>3. Min(S) \in S /\ \A j \in S : Min(S) <= j
    <2> HIDE DEF S
    <2>1. QED
      BY <1>2, MinIsLeast
  <1> DEFINE m == Min(S)
  <1>4. FirstFrom(u, i, kind) = m
    BY DEF FirstFrom
  <1> HIDE DEF m
  <1>5. m \in i .. Len(u) + 1 /\ \A j \in S : m <= j
    BY <1>2, <1>3 DEF m
  <1>6. ASSUME NEW k \in i .. m - 1, u[k].kind = kind PROVE FALSE
    <2>1. k \in DOMAIN u /\ k >= i /\ ~(m <= k)
      BY <1>1, <1>5
    <2>2. k \in S
      BY <1>6, <2>1
    <2>3. QED
      BY <1>5, <2>1, <2>2
  <1>7. QED
    BY <1>4, <1>5, <1>6

(* Code is what stands between the fences, without newlines at its end.    *)
LEMMA CodeOfIs ==
    ASSUME NEW A, NEW u \in Seq(A), NEW i \in 1 .. Len(u), NEW j \in i + 3 .. Len(u)
    PROVE  \E a, b \in Nat :
              /\ i + 3 <= a /\ a <= j /\ a - 1 <= b /\ b <= j - 1
              /\ CodeOf(u, i, j) = SubSeq(u, a, b)
              /\ \A k \in b + 1 .. j - 1 : u[k].kind = "newline"
  <1> DEFINE eol == FirstFrom(u, i + 3, "newline")
             a == IF eol < j /\ \A k \in i + 3 .. eol - 1 : u[k].kind \in {"letter", "under"}
                  THEN eol + 1 ELSE i + 3
             S == {k \in a .. j - 1 : u[k].kind # "newline"} \cup {a - 1}
             b == Max(S)
  <1>1. Len(u) \in Nat /\ i \in Nat /\ j \in Nat /\ i + 3 \in 1 .. Len(u) + 1 /\ i + 3 <= j
    OBVIOUS
  <1>2. eol \in i + 3 .. Len(u) + 1
    BY <1>1, FirstFromIs
  <1>3. CodeOf(u, i, j) = SubSeq(u, a, b)
    BY DEF CodeOf
  <1> HIDE DEF eol
  <1>4. a \in Nat /\ i + 3 <= a /\ a <= j
    BY <1>1, <1>2
  <1> HIDE DEF a
  <1>5. S \in SUBSET Nat /\ S # {} /\ (\A k \in S : k <= j /\ a - 1 <= k /\ k <= j - 1)
    BY <1>1, <1>4
  <1>6. b \in S /\ \A k \in S : k <= b
    <2> HIDE DEF S
    <2>1. QED
      BY <1>1, <1>5, MaxIsGreatest
  <1> HIDE DEF b
  <1>7. b \in Nat /\ a - 1 <= b /\ b <= j - 1
    BY <1>5, <1>6
  <1>8. ASSUME NEW k \in b + 1 .. j - 1, u[k].kind # "newline" PROVE FALSE
    <2>1. k \in a .. j - 1 /\ ~(k <= b)
      BY <1>1, <1>4, <1>7
    <2>2. k \in S
      BY <1>8, <2>1
    <2>3. QED
      BY <1>6, <2>1, <2>2
  <1>9. QED
    BY <1>3, <1>4, <1>7, <1>8

(* Three markers in a row.                                                 *)
LEMMA ThreeMarkers ==
    ASSUME NEW A, NEW u \in Seq(A), NEW i \in Nat, NEW kind
    PROVE  MarkerAt(u, i, kind, 3)
              <=> /\ i \in 1 .. Len(u) /\ i + 1 \in 1 .. Len(u) /\ i + 2 \in 1 .. Len(u)
                  /\ u[i].kind = kind /\ u[i + 1].kind = kind /\ u[i + 2].kind = kind
  <1>1. DOMAIN u = 1 .. Len(u) /\ Len(u) \in Nat
    OBVIOUS
  <1>2. \A j : j \in i .. i + 3 - 1 <=> j = i \/ j = i + 1 \/ j = i + 2
    OBVIOUS
  <1>3. QED
    BY <1>1, <1>2 DEF MarkerAt

(* What holds while code blocks are replaced: behind h the text is still   *)
(* that of the input, the blocks taken out so far lie in front, and the    *)
(* last of them ends at h.                                                 *)
Blocked(T, r, h) ==
    /\ r \in [text : Seq(Chars(T)), styles : SUBSET StyleRange]
    /\ h \in Nat /\ h <= Len(r.text) /\ Increasing(r.text) /\ Follows(T, r.text, h)
    /\ \A s \in r.styles : OnPlace(r.text, s) /\ s.start + s.len <= h
    /\ h = 0 \/ \E s \in r.styles : s.start + s.len = h
    /\ \A k \in 1 .. h : ~MarkerAt(r.text, k, "tick", 3)

(* The first opening fence has no tick in front of it, and no closing one  *)
(* comes before the first.                                                 *)
FirstBlock(u, i, j) ==
    /\ i \in 1 .. Len(u) /\ j \in i + 3 .. Len(u) /\ j + 2 <= Len(u)
    /\ MarkerAt(u, i, "tick", 3) /\ MarkerAt(u, j, "tick", 3)
    /\ \A k \in 1 .. i - 1 : ~MarkerAt(u, k, "tick", 3)
    /\ i - 1 \in 1 .. Len(u) => u[i - 1].kind # "tick"
    /\ \A k \in i + 3 .. j - 1 : ~MarkerAt(u, k, "tick", 3)

LEMMA FirstBlockIs ==
    ASSUME NEW A, NEW u \in Seq(A), Openings(u) # {}
    PROVE  FirstBlock(u, Min(Openings(u)), Min(Closings(u, Min(Openings(u)))))
  <1> DEFINE O == Openings(u)
             i == Min(O)
             C == Closings(u, i)
             j == Min(C)
  <1>1. Len(u) \in Nat /\ DOMAIN u = 1 .. Len(u) /\ O \in SUBSET Nat
    BY DEF Openings
  <1>2. i \in O /\ \A y \in O : i <= y
    <2> HIDE DEF O
    <2>1. QED
      BY <1>1, MinIsLeast DEF O
  <1> HIDE DEF i
  <1>3. i \in 1 .. Len(u) /\ i \in Nat /\ MarkerAt(u, i, "tick", 3) /\ C # {}
    BY <1>1, <1>2 DEF Openings
  <1>4. C \in SUBSET Nat /\ \A y : y \in C <=> y \in i + 3 .. Len(u) /\ MarkerAt(u, y, "tick", 3)
    BY <1>3 DEF Closings
  <1>5. j \in C /\ \A y \in C : j <= y
    <2> HIDE DEF C
    <2>1. QED
      BY <1>3, <1>4, MinIsLeast
  <1> HIDE DEF j
  <1>6. j \in i + 3 .. Len(u) /\ MarkerAt(u, j, "tick", 3)
    BY <1>4, <1>5
  <1>7. j + 2 <= Len(u)
    <2>1. j \in Nat
      BY <1>3, <1>6
    <2>2. j + 2 \in 1 .. Len(u)
      BY <1>6, <2>1, ThreeMarkers
    <2>3. QED
      BY <2>2
  <1>8. ASSUME NEW k \in 1 .. i - 1, MarkerAt(u, k, "tick", 3) PROVE FALSE
    <2>1. k \in DOMAIN u /\ ~(i <= k) /\ j \in k + 3 .. Len(u)
      BY <1>1, <1>3, <1>6
    <2>2. j \in Closings(u, k)
      BY <1>6, <2>1 DEF Closings
    <2>3. k \in O
      BY <1>8, <2>1, <2>2 DEF Openings
    <2>4. QED
      BY <1>2, <2>1, <2>3
  <1>9. ASSUME i - 1 \in 1 .. Len(u), u[i - 1].kind = "tick" PROVE FALSE
    <2> DEFINE k == i - 1
    <2>1. k \in Nat /\ k + 1 = i /\ k + 2 = i + 1 /\ k \in 1 .. i - 1
      BY <1>3, <1>9
    <2>2. /\ i \in 1 .. Len(u) /\ i + 1 \in 1 .. Len(u)
          /\ u[i].kind = "tick" /\ u[i + 1].kind = "tick"
      BY <1>3, ThreeMarkers
    <2>3. k \in 1 .. Len(u) /\ u[k].kind = "tick"
      BY <1>9
    <2> HIDE DEF k
    <2>4. MarkerAt(u, k, "tick", 3)
      BY <2>1, <2>2, <2>3, ThreeMarkers
    <2>5. QED
      BY <1>8, <2>1, <2>4
  <1>10. ASSUME NEW k \in i + 3 .. j - 1, MarkerAt(u, k, "tick", 3) PROVE FALSE
    <2>1. k \in i + 3 .. Len(u) /\ ~(j <= k)
      BY <1>1, <1>3, <1>6
    <2>2. QED
      BY <1>4, <1>5, <1>10, <2>1
  <1>11. FirstBlock(u, i, j)
    BY <1>3, <1>6, <1>7, <1>8, <1>9, <1>10 DEF FirstBlock
  <1>12. QED
    BY <1>11 DEF i, j

(* The text after the replacement of a block.                              *)
Parts(u, v, i, a, b, j, n) ==
    /\ n = b - a + 1 /\ n \in Nat /\ Len(v) = (i - 1) + n + (Len(u) - (j + 3) + 1)
    /\ \A k \in 1 .. i - 1 : v[k] = u[k]
    /\ \A k \in i .. i - 1 + n : v[k] = u[k - i + a]
    /\ \A k \in i + n .. Len(v) : v[k] = u[k - (i - 1 + n) + (j + 3) - 1]
IsCode(u, i, a, b, j) ==
    /\ a \in Nat /\ b \in Nat /\ i + 3 <= a /\ a <= j /\ a - 1 <= b /\ b <= j - 1
    /\ \A k \in b + 1 .. j - 1 : u[k].kind = "newline"

LEMMA PartsGrow ==
    ASSUME NEW T, Numbered(T), NEW u \in Seq(Chars(T)), Increasing(u), NEW h \in Nat,
           Follows(T, u, h), NEW i \in Nat, NEW j \in Nat, FirstBlock(u, i, j), i > h,
           NEW a, NEW b, IsCode(u, i, a, b, j),
           NEW v \in Seq(Chars(T)), NEW n, Parts(u, v, i, a, b, j, n)
    PROVE  Increasing(v) /\ Follows(T, v, i - 1 + n)
  <1> DEFINE G(k) == IF k < i THEN k ELSE IF k < i + n THEN k - i + a
                     ELSE k - (i - 1 + n) + (j + 3) - 1
  <1>1. /\ Len(u) \in Nat /\ Len(v) \in Nat /\ n \in Nat /\ a \in Nat /\ b \in Nat
        /\ n = b - a + 1 /\ i + 3 <= a /\ b <= j - 1 /\ 1 <= i /\ j + 2 <= Len(u)
        /\ Len(v) = (i - 1) + n + (Len(u) - (j + 3) + 1)
    BY DEF Parts, IsCode, FirstBlock
  <1>2. ASSUME NEW k \in 1 .. Len(v) PROVE v[k] = u[G(k)] /\ G(k) \in 1 .. Len(u)
    <2>1. CASE k < i
      <3>1. k \in 1 .. i - 1 /\ k \in 1 .. Len(u)
        BY <1>1, <2>1
      <3>2. QED
        BY <2>1, <3>1 DEF Parts
    <2>2. CASE ~(k < i) /\ k < i + n
      <3>1. k \in i .. i - 1 + n /\ k - i + a \in 1 .. Len(u)
        BY <1>1, <2>2
      <3>2. QED
        BY <2>2, <3>1 DEF Parts
    <2>3. CASE ~(k < i) /\ ~(k < i + n)
      <3>1. k \in i + n .. Len(v) /\ k - (i - 1 + n) + (j + 3) - 1 \in 1 .. Len(u)
        BY <1>1, <2>3
      <3>2. QED
        BY <2>3, <3>1 DEF Parts
    <2>4. QED
      BY <2>1, <2>2, <2>3
  <1>3. ASSUME NEW k \in 1 .. Len(v), NEW l \in 1 .. Len(v), k < l PROVE G(k) < G(l)
    BY <1>1, <1>3
  <1>4. Increasing(v)
    <2> HIDE DEF G
    <2>1. QED
      BY <1>2, <1>3 DEF Increasing
  <1>5. Follows(T, v, i - 1 + n)
    <2> SUFFICES ASSUME NEW k \in 1 .. Len(v) - 1, k > i - 1 + n,
                        NEW x \in v[k].at + 1 .. v[k + 1].at - 1
                 PROVE  T[x].kind = "newline" /\ T[x - 1].kind = "newline"
      BY DEF Follows
    <2> DEFINE m == G(k)
    <2>1. k \in 1 .. Len(v) /\ k + 1 \in 1 .. Len(v) /\ G(k + 1) = G(k) + 1 /\ G(k) > h
      <3> DEFINE L == Len(v)
      <3>1. /\ k \in Nat /\ k \in 1 .. L - 1 /\ ~(k < i) /\ ~(k < i + n)
            /\ ~(k + 1 < i) /\ ~(k + 1 < i + n) /\ L \in Nat
        BY <1>1
      <3>2. G(k) = k - (i - 1 + n) + (j + 3) - 1 /\ G(k + 1) = (k + 1) - (i - 1 + n) + (j + 3) - 1
        BY ONLY <3>1
      <3>3. i <= j
        BY DEF FirstBlock
      <3> HIDE DEF G, L
      <3>4. k \in 1 .. L /\ k + 1 \in 1 .. L
        BY ONLY <3>1
      <3>5. G(k + 1) = G(k) + 1 /\ G(k) > h
        BY ONLY <1>1, <3>1, <3>2, <3>3, i \in Nat, j \in Nat, h \in Nat, i > h
      <3>6. QED
        BY <3>4, <3>5 DEF L
    <2>2. v[k] = u[m] /\ v[k + 1] = u[m + 1] /\ m \in 1 .. Len(u) /\ m + 1 \in 1 .. Len(u) /\ m > h
      <3> HIDE DEF G
      <3>1. QED
        BY <1>2, <2>1
    <2> HIDE DEF m
    <2>3. m \in 1 .. Len(u) - 1 /\ x \in u[m].at + 1 .. u[m + 1].at - 1
      BY <1>1, <2>2
    <2>4. QED
      BY <2>2, <2>3 DEF Follows
  <1>6. QED
    BY <1>4, <1>5

(* A code that ends in one or two ticks does not have those behind its     *)
(* closing fence that make a fence with them.                              *)
LEMMA NoTickBehind ==
    ASSUME NEW T, Numbered(T), ~TickBeforeFence(T),
           NEW u \in Seq(Chars(T)), Increasing(u), NEW h \in Nat, Follows(T, u, h),
           NEW i \in Nat, NEW j \in Nat, FirstBlock(u, i, j), i > h,
           NEW a, NEW b, IsCode(u, i, a, b, j),
           NEW n \in 1 .. 2, NEW c, c = b - n + 1, a <= c,
           MarkerAt(u, c, "tick", n), MarkerAt(u, j, "tick", 6 - n)
    PROVE  FALSE
  <1>1. /\ Len(u) \in Nat /\ DOMAIN u = 1 .. Len(u) /\ a \in Nat /\ b \in Nat /\ i + 3 <= a
        /\ b <= j - 1 /\ b \in 1 .. Len(u) /\ j \in 1 .. Len(u) /\ j + 2 <= Len(u)
        /\ b > h /\ h < b /\ j > h /\ c \in Nat /\ c > h /\ c <= b /\ c + (n - 1) = b
        /\ n \in Nat \ {0} /\ 6 - n \in Nat \ {0} /\ i \in 1 .. Len(u)
    <2>1. /\ Len(u) \in Nat /\ DOMAIN u = 1 .. Len(u) /\ a \in Nat /\ b \in Nat /\ i + 3 <= a
          /\ b <= j - 1 /\ j \in 1 .. Len(u) /\ j + 2 <= Len(u) /\ i \in 1 .. Len(u)
      BY DEF IsCode, FirstBlock
    <2>2. n \in Nat \ {0} /\ 6 - n \in Nat \ {0} /\ n <= 2
      OBVIOUS
    <2>3. c \in Nat /\ c <= b /\ c + (n - 1) = b /\ c > h /\ b > h
      BY ONLY <2>1, <2>2, c = b - n + 1, a <= c, h \in Nat, i \in Nat, i > h
    <2>4. j > h /\ b \in 1 .. Len(u)
      BY ONLY <2>1, <2>3, h \in Nat, j \in Nat
    <2>5. QED
      BY ONLY <2>1, <2>2, <2>3, <2>4, h \in Nat
  <1>2. /\ u[j].kind = "tick" /\ u[j + 1].kind = "tick" /\ u[j + 2].kind = "tick"
        /\ j + 1 \in 1 .. Len(u) /\ j + 2 \in 1 .. Len(u)
    BY ThreeMarkers DEF FirstBlock
  <1>3. b # j - 1
    <2> SUFFICES ASSUME b = j - 1 PROVE FALSE
      OBVIOUS
    <2>1. b \in i + 3 .. j - 1 /\ b + 1 = j /\ b + 2 = j + 1
      BY <1>1
    <2>2. MarkerAt(u, b, "tick", 3)
      <3>1. b \in c .. c + n - 1
        BY <1>1
      <3>2. u[b].kind = "tick"
        BY <3>1 DEF MarkerAt
      <3>3. /\ b \in Nat /\ b \in 1 .. Len(u) /\ b + 1 \in 1 .. Len(u) /\ b + 2 \in 1 .. Len(u)
            /\ u[b].kind = "tick" /\ u[b + 1].kind = "tick" /\ u[b + 2].kind = "tick"
        BY <1>1, <1>2, <2>1, <3>2
      <3>4. QED
        BY ONLY <3>3, u \in Seq(Chars(T)), ThreeMarkers
    <2>3. QED
      BY <2>1, <2>2 DEF FirstBlock
  <1> DEFINE f == u[i].at
             g == u[i + 2].at
             p == u[c].at
             e == u[b].at
             m == u[b + 1].at
             q == u[j].at
  <1>4. MarkerAt(T, q, "tick", 6 - n)
    BY <1>1, FenceMoves
  <1>5. MarkerAt(T, p, "tick", n) /\ e = p + (n - 1)
    <2>1. MarkerAt(T, p, "tick", n) /\ u[c + (n - 1)].at = p + (n - 1)
      <3>1. c \in Nat /\ c > h /\ n \in Nat \ {0}
        BY <1>1
      <3>2. QED
        BY ONLY <3>1, Numbered(T), u \in Seq(Chars(T)), Increasing(u), h \in Nat, Follows(T, u, h),
           MarkerAt(u, c, "tick", n), FenceMoves
    <2>2. QED
      BY <1>1, <2>1
  <1>6. MarkerAt(T, f, "tick", 3) /\ g = f + 2
    <2>1. MarkerAt(u, i, "tick", 3) /\ 3 \in Nat \ {0} /\ 3 - 1 = 2
      BY DEF FirstBlock
    <2>2. MarkerAt(T, f, "tick", 3) /\ u[i + (3 - 1)].at = f + (3 - 1)
      BY <2>1, FenceMoves
    <2>3. QED
      BY <2>1, <2>2
  <1>7. /\ \A k \in 1 .. Len(u) : u[k] \in Chars(T)
        /\ \A x \in Chars(T) : x.at \in 1 .. Len(T) /\ T[x.at] = x
        /\ DOMAIN T = 1 .. Len(T) /\ Len(T) \in Nat
    <2>1. \A k \in 1 .. Len(u) : u[k] \in Chars(T)
      OBVIOUS
    <2>2. QED
      BY <2>1, CharsOf
  <1>8. /\ i \in 1 .. Len(u) /\ i + 2 \in 1 .. Len(u) /\ c \in 1 .. Len(u) /\ b + 1 \in 1 .. Len(u)
        /\ i + 2 < c /\ b < b + 1 /\ b + 1 < j /\ b < j
    BY <1>1, <1>3 DEF FirstBlock
  <1>9. /\ f \in DOMAIN T /\ p \in DOMAIN T /\ q \in DOMAIN T
        /\ f \in Nat /\ g \in Nat /\ p \in Nat /\ e \in Nat /\ m \in Nat /\ q \in Nat
    <2>1. \A k \in 1 .. Len(u) : u[k].at \in DOMAIN T /\ u[k].at \in Nat
      <3>1. \A l \in 1 .. Len(T) : l \in Nat
        BY <1>7
      <3>2. QED
        BY <1>7, <3>1
    <2>2. QED
      BY ONLY <1>1, <1>8, <2>1
  <1>10. g < p /\ e < m /\ m < q
    BY <1>1, <1>8 DEF Increasing
  <1>11. ASSUME NEW x \in e + 1 .. q - 1 PROVE T[x].kind = "newline"
    <2>1. (\E l \in b + 1 .. j - 1 : u[l].at = x) \/ T[x].kind = "newline"
      <3>1. h < b /\ b < j /\ b \in 1 .. Len(u) /\ j \in 1 .. Len(u)
        BY <1>1, <1>8
      <3>2. QED
        BY <1>11, <3>1, Between
    <2>2. ASSUME NEW l \in b + 1 .. j - 1, u[l].at = x PROVE T[x].kind = "newline"
      <3>1. u[l].kind = "newline"
        BY DEF IsCode
      <3>2. l \in 1 .. Len(u)
        BY ONLY <1>1, l \in b + 1 .. j - 1
      <3>3. QED
        BY <1>7, <2>2, <3>1, <3>2
    <2>3. QED
      BY <2>1, <2>2
  <1> HIDE DEF f, g, p, e, m, q
  <1>12. f + 3 <= p /\ p + n < q /\ p + n .. q - 1 = e + 1 .. q - 1
    <2>1. e = p + (n - 1) /\ e + 1 = p + n
      BY ONLY <1>5, <1>9, n \in 1 .. 2
    <2>2. f + 3 <= p /\ p + n < q
      <3>1. g = f + 2 /\ g < p /\ f \in Nat /\ g \in Nat /\ p \in Nat
        BY <1>6, <1>9, <1>10
      <3>2. e < m /\ m < q /\ e + 1 = p + n /\ e \in Nat /\ m \in Nat /\ q \in Nat
        BY <1>9, <1>10, <2>1
      <3>3. p + n < q
        <4>1. e + 1 < q
          BY ONLY <3>2
        <4>2. QED
          BY ONLY <3>2, <4>1
      <3>4. QED
        BY ONLY <3>1, <3>3
    <2>3. QED
      BY <2>1, <2>2
  <1>13. QED
    BY <1>4, <1>5, <1>6, <1>9, <1>11, <1>12 DEF TickBeforeFence

(* No fence stands where a block was taken out, so that it is not taken    *)
(* for the beginning of another.                                           *)
LEMMA NoFenceBefore ==
    ASSUME NEW T, Numbered(T), ~TickBeforeFence(T),
           NEW u \in Seq(Chars(T)), Increasing(u), NEW h \in Nat, Follows(T, u, h),
           NEW i \in Nat, NEW j \in Nat, FirstBlock(u, i, j), i > h,
           NEW a, NEW b, IsCode(u, i, a, b, j),
           NEW v \in Seq(Chars(T)), NEW n, Parts(u, v, i, a, b, j, n),
           NEW k \in 1 .. i - 1 + n
    PROVE  ~MarkerAt(v, k, "tick", 3)
  <1> SUFFICES ASSUME MarkerAt(v, k, "tick", 3) PROVE FALSE
    OBVIOUS
  <1>1. /\ Len(u) \in Nat /\ Len(v) \in Nat /\ n \in Nat /\ a \in Nat /\ b \in Nat
        /\ n = b - a + 1 /\ i + 3 <= a /\ b <= j - 1 /\ 1 <= i /\ j + 2 <= Len(u)
        /\ Len(v) = (i - 1) + n + (Len(u) - (j + 3) + 1)
    BY DEF Parts, IsCode, FirstBlock
  <1>2. k \in Nat
    BY <1>1
  <1>3. /\ k \in 1 .. Len(v) /\ k + 1 \in 1 .. Len(v) /\ k + 2 \in 1 .. Len(v)
        /\ v[k].kind = "tick" /\ v[k + 1].kind = "tick" /\ v[k + 2].kind = "tick"
    BY <1>2, ThreeMarkers
  <1>4. ASSUME i - 1 \in 1 .. Len(u), v[i - 1].kind = "tick" PROVE FALSE
    <2>1. v[i - 1] = u[i - 1]
      BY <1>1, <1>4 DEF Parts
    <2>2. QED
      BY <1>4, <2>1 DEF FirstBlock
  <1>5. CASE k < i
    <2>1. CASE k + 2 < i
      <3>1. k \in 1 .. i - 1 /\ k + 1 \in 1 .. i - 1 /\ k + 2 \in 1 .. i - 1
        BY <1>1, <1>2, <1>3, <2>1
      <3>2. v[k] = u[k] /\ v[k + 1] = u[k + 1] /\ v[k + 2] = u[k + 2]
        BY <3>1 DEF Parts
      <3>3. k \in 1 .. Len(u) /\ k + 1 \in 1 .. Len(u) /\ k + 2 \in 1 .. Len(u)
        BY <1>1, <3>1 DEF FirstBlock
      <3>4. MarkerAt(u, k, "tick", 3)
        BY <1>2, <1>3, <3>2, <3>3, ThreeMarkers
      <3>5. QED
        BY <3>1, <3>4 DEF FirstBlock
    <2>2. CASE ~(k + 2 < i)
      <3>1. i - 1 = k \/ i - 1 = k + 1
        BY <1>1, <1>2, <1>5, <2>2
      <3>2. i - 1 \in 1 .. Len(u)
        BY <1>1, <1>2, <1>3, <1>5 DEF FirstBlock
      <3>3. QED
        BY <1>3, <1>4, <3>1, <3>2
    <2>3. QED
      BY <2>1, <2>2
  <1>6. CASE ~(k < i) /\ k + 2 <= i - 1 + n
    <2> DEFINE m == k - i + a
    <2>1. /\ k \in i .. i - 1 + n /\ k + 1 \in i .. i - 1 + n /\ k + 2 \in i .. i - 1 + n
          /\ (k + 1) - i + a = m + 1 /\ (k + 2) - i + a = m + 2
          /\ m \in Nat /\ m \in i + 3 .. j - 1
          /\ m \in 1 .. Len(u) /\ m + 1 \in 1 .. Len(u) /\ m + 2 \in 1 .. Len(u)
      BY <1>1, <1>2, <1>6
    <2>2. v[k] = u[m] /\ v[k + 1] = u[m + 1] /\ v[k + 2] = u[m + 2]
      <3>1. \A l \in i .. i - 1 + n : v[l] = u[l - i + a]
        BY DEF Parts
      <3>2. v[k] = u[m] /\ v[k + 1] = u[(k + 1) - i + a] /\ v[k + 2] = u[(k + 2) - i + a]
        BY <2>1, <3>1
      <3> HIDE DEF m
      <3>3. QED
        BY <2>1, <3>2
    <2> HIDE DEF m
    <2>3. MarkerAt(u, m, "tick", 3)
      BY <1>3, <2>1, <2>2, ThreeMarkers
    <2>4. QED
      BY <2>1, <2>3 DEF FirstBlock
  <1>7. CASE ~(k < i) /\ ~(k + 2 <= i - 1 + n)
    <2> DEFINE e == i - 1 + n
    <2>1. (e = k \/ e = k + 1) /\ (e + 1 = k + 1 \/ e + 1 = k + 2)
      BY <1>1, <1>2, <1>7
    <2>2. v[e].kind = "tick" /\ v[e + 1].kind = "tick" /\ e + 1 \in 1 .. Len(v)
      BY <1>3, <2>1
    <2>3. /\ a <= b /\ e \in i .. i - 1 + n /\ e - i + a = b
          /\ e + 1 \in i + n .. Len(v) /\ (e + 1) - (i - 1 + n) + (j + 3) - 1 = j + 3
          /\ j + 3 \in 1 .. Len(u)
      <3> DEFINE L == Len(u)
                 M == Len(v)
      <3>1. /\ L \in Nat /\ M \in Nat /\ n \in Nat /\ a \in Nat /\ b \in Nat
            /\ n = b - a + 1 /\ i + 3 <= a /\ 1 <= i /\ j + 2 <= L
            /\ M = (i - 1) + n + (L - (j + 3) + 1) /\ e + 1 \in 1 .. M /\ e = i - 1 + n
        BY <1>1, <2>2
      <3>2. i <= k /\ k <= i - 1 + n /\ ~(k + 2 <= i - 1 + n) /\ k \in Nat /\ n # 0
        BY <1>1, <1>2, <1>7
      <3> HIDE DEF e, L, M
      <3>3. /\ a <= b /\ e \in i .. i - 1 + n /\ e - i + a = b
            /\ e + 1 \in i + n .. M /\ (e + 1) - (i - 1 + n) + (j + 3) - 1 = j + 3
            /\ j + 3 \in 1 .. L
        BY ONLY <3>1, <3>2, i \in Nat, j \in Nat
      <3>4. QED
        BY <3>3 DEF L, M
    <2>4. v[e] = u[b] /\ v[e + 1] = u[j + 3]
      <3>1. v[e] = u[e - i + a] /\ v[e + 1] = u[(e + 1) - (i - 1 + n) + (j + 3) - 1]
        BY <2>3 DEF Parts
      <3>2. QED
        BY <2>3, <3>1
    <2>5. /\ a \in Nat /\ b \in Nat /\ i + 3 <= a /\ b <= j - 1 /\ b \in 1 .. Len(u) /\ b \in Nat
          /\ u[b].kind = "tick" /\ u[j + 3].kind = "tick"
      BY <1>1, <2>2, <2>3, <2>4
    <2>6. /\ j \in 1 .. Len(u) /\ j + 1 \in 1 .. Len(u) /\ j + 2 \in 1 .. Len(u)
          /\ u[j].kind = "tick" /\ u[j + 1].kind = "tick" /\ u[j + 2].kind = "tick"
      <3>1. MarkerAt(u, j, "tick", 3) /\ u \in Seq(Chars(T)) /\ j \in Nat
        BY DEF FirstBlock
      <3>2. QED
        BY ONLY <3>1, ThreeMarkers
    <2>7. CASE e = k
      <3>1. e + 2 = k + 2 /\ e + 2 \in i + n .. Len(v)
            /\ (e + 2) - (i - 1 + n) + (j + 3) - 1 = j + 4
        BY <1>1, <1>2, <1>3, <2>3, <2>7
      <3>2. v[e + 2] = u[(e + 2) - (i - 1 + n) + (j + 3) - 1]
        BY <3>1 DEF Parts
      <3>3. u[j + 4].kind = "tick" /\ j + 4 \in 1 .. Len(u)
        <4>1. v[e + 2].kind = "tick" /\ e + 2 \in 1 .. Len(v)
          BY <1>3, <3>1
        <4>2. j + 4 \in 1 .. Len(u)
          <5> DEFINE L == Len(u)
                     M == Len(v)
          <5>1. /\ L \in Nat /\ M \in Nat /\ n \in Nat /\ j \in Nat /\ i \in Nat /\ e = i - 1 + n
                /\ M = (i - 1) + n + (L - (j + 3) + 1) /\ e + 2 \in 1 .. M
            BY <1>1, <4>1
          <5> HIDE DEF e, L, M
          <5>2. j + 4 \in 1 .. L
            BY ONLY <5>1
          <5>3. QED
            BY <5>2 DEF L
        <4> HIDE DEF e
        <4>3. QED
          BY <3>1, <3>2, <4>1, <4>2
      <3>4. MarkerAt(u, j, "tick", 6 - 1)
        <4>1. \A y : y \in j .. j + (6 - 1) - 1 =>
                       y = j \/ y = j + 1 \/ y = j + 2 \/ y = j + 3 \/ y = j + 4
          OBVIOUS
        <4>2. /\ DOMAIN u = 1 .. Len(u) /\ u[j + 3].kind = "tick" /\ j + 3 \in 1 .. Len(u)
              /\ u[j + 4].kind = "tick" /\ j + 4 \in 1 .. Len(u)
          BY <2>3, <2>5, <3>3
        <4>3. QED
          BY ONLY <2>6, <4>1, <4>2 DEF MarkerAt
      <3>5. MarkerAt(u, b, "tick", 1)
        <4>1. \A y : y \in b .. b + 1 - 1 => y = b
          BY <2>5
        <4>2. QED
          BY <2>5, <4>1 DEF MarkerAt
      <3>6. 1 \in 1 .. 2 /\ b = b - 1 + 1
        BY <2>5
      <3>7. QED
        BY <2>3, <3>4, <3>5, <3>6, NoTickBehind
    <2>8. CASE e = k + 1
      <3> DEFINE c == b - 2 + 1
      <3>1. /\ k \in i .. i - 1 + n /\ k - i + a = c /\ c \in Nat /\ a <= c /\ c + 1 = b
            /\ c \in 1 .. Len(u)
        BY <1>1, <1>2, <1>7, <2>3, <2>5, <2>8
      <3>2. v[k] = u[k - i + a]
        BY <3>1 DEF Parts
      <3>3. u[c].kind = "tick"
        <4> HIDE DEF c
        <4>1. QED
          BY <1>3, <3>1, <3>2
      <3>4. MarkerAt(u, j, "tick", 6 - 2)
        <4>1. \A y : y \in j .. j + (6 - 2) - 1 => y = j \/ y = j + 1 \/ y = j + 2 \/ y = j + 3
          OBVIOUS
        <4>2. DOMAIN u = 1 .. Len(u) /\ u[j + 3].kind = "tick" /\ j + 3 \in 1 .. Len(u)
          BY <2>3, <2>5
        <4>3. QED
          BY ONLY <2>6, <4>1, <4>2 DEF MarkerAt
      <3> HIDE DEF c
      <3>5. MarkerAt(u, c, "tick", 2)
        <4>1. \A y : y \in c .. c + 2 - 1 => y = c \/ y = c + 1
          BY <3>1
        <4>2. c \in DOMAIN u /\ c + 1 \in DOMAIN u /\ u[c + 1].kind = "tick"
          BY <2>5, <3>1
        <4>3. QED
          BY ONLY <3>3, <4>1, <4>2 DEF MarkerAt
      <3>6. 2 \in 1 .. 2 /\ c = b - 2 + 1
        BY DEF c
      <3>7. QED
        BY <3>1, <3>4, <3>5, <3>6, NoTickBehind
    <2>9. QED
      BY <2>1, <2>7, <2>8
  <1>8. QED
    BY <1>5, <1>6, <1>7

(* One round of the loop over code blocks.                                 *)
LEMMA ReplacedKeeps ==
    ASSUME NEW T, Numbered(T), ~TickBeforeFence(T),
           NEW r, NEW h, Blocked(T, r, h)
    PROVE  \E g : Blocked(T, Replaced(r), g)
  <1> DEFINE u == r.text
             O == Openings(u)
             i == Min(O)
             j == Min(Closings(u, i))
  <1>1. CASE O = {}
    <2>1. Replaced(r) = r
      BY <1>1 DEF Replaced
    <2>2. QED
      BY <2>1
  <1>2. CASE O # {}
    <2>1. /\ r \in [text : Seq(Chars(T)), styles : SUBSET StyleRange]
          /\ h \in Nat /\ h <= Len(u) /\ Increasing(u) /\ Follows(T, u, h)
          /\ \A s \in r.styles : OnPlace(u, s) /\ s.start + s.len <= h
          /\ \A k \in 1 .. h : ~MarkerAt(u, k, "tick", 3)
      BY DEF Blocked
    <2>2. u \in Seq(Chars(T)) /\ Len(u) \in Nat /\ r.styles \in SUBSET StyleRange
      BY <2>1
    <2>3. FirstBlock(u, i, j)
      BY <1>2, <2>2, FirstBlockIs
    <2> HIDE DEF i, j
    <2>4. i \in 1 .. Len(u) /\ j \in i + 3 .. Len(u) /\ i \in Nat /\ j \in Nat /\ j + 2 <= Len(u)
      BY <2>2, <2>3 DEF FirstBlock
    <2>5. i > h
      <3>1. MarkerAt(u, i, "tick", 3)
        BY <2>3 DEF FirstBlock
      <3>2. QED
        BY <2>1, <2>4, <3>1
    <2>6. PICK a, b \in Nat :
             /\ i + 3 <= a /\ a <= j /\ a - 1 <= b /\ b <= j - 1
             /\ CodeOf(u, i, j) = SubSeq(u, a, b)
             /\ \A k \in b + 1 .. j - 1 : u[k].kind = "newline"
      <3> HIDE DEF u
      <3>1. QED
        BY <2>2, <2>4, CodeOfIs
    <2>7. IsCode(u, i, a, b, j)
      BY <2>6 DEF IsCode
    <2> DEFINE code == SubSeq(u, a, b)
               n == b - a + 1
               front == SubSeq(u, 1, i - 1)
               rest == SubSeq(u, j + 3, Len(u))
               v == front \o code \o rest
               g == i - 1 + n
               st == Style(i - 1, code, "MONOSPACE")
    <2>8. Replaced(r) = [text |-> v, styles |-> r.styles \cup {st}]
      BY <1>2, <2>6 DEF Replaced, i, j
    <2>9. /\ v \in Seq(Chars(T)) /\ Len(front) = i - 1 /\ Len(code) = n
          /\ Parts(u, v, i, a, b, j, n)
      <3> DEFINE c == j + 3
      <3>1. c \in Nat /\ 1 <= i /\ i <= a /\ a - 1 <= b /\ b < c /\ c <= Len(u) + 1
        BY <2>2, <2>4, <2>6
      <3>2. v = Middle(u, i, a, b, c)
        BY DEF Middle
      <3> HIDE DEF v, u, c
      <3>3. v \in Seq(Chars(T)) /\ MiddleIs(u, v, i, a, b, c, n)
        <4> DEFINE A == Chars(T)
        <4>1. /\ u \in Seq(A) /\ i \in Nat /\ a \in Nat /\ b \in Nat /\ n = b - a + 1
              /\ a - 1 <= b
          BY <2>2, <2>4, <3>1
        <4> HIDE DEF n, A
        <4>2. QED
          BY ONLY <3>1, <3>2, <4>1, Spliced DEF A
      <3>4. QED
        BY <3>3 DEF Parts, MiddleIs, c
    <2>10. code \in Seq(Chars(T)) /\ front \in Seq(Chars(T)) /\ rest \in Seq(Chars(T))
      <3>1. a \in Nat \ {0} /\ b <= Len(u) /\ i - 1 \in Nat /\ i - 1 <= Len(u)
            /\ j + 3 \in Nat \ {0} /\ Len(u) <= Len(u)
        BY <2>2, <2>4, <2>6
      <3> HIDE DEF u
      <3>2. QED
        BY <2>2, <3>1, SubSeqOf
    <2>11. st \in StyleRange /\ st.start = i - 1 /\ st.len = n
      <3>1. i - 1 \in Nat
        BY <2>4
      <3>2. code \in Seq(Chars(T)) /\ Len(code) = n
        BY <2>9, <2>10
      <3>3. st = Style(i - 1, code, "MONOSPACE")
        OBVIOUS
      <3> HIDE DEF code, n, st
      <3>4. QED
        BY ONLY <3>1, <3>2, <3>3, Numbered(T), StyleTyped
    <2>12. OnPlace(v, st)
      <3>1. st = Style(Len(front), code, "MONOSPACE")
        BY <2>9
      <3> HIDE DEF front, code, rest, st
      <3>2. OnPlace(front \o code, st)
        BY <2>10, <3>1, StyleOnPlace
      <3>3. front \o code \in Seq(Chars(T))
        BY <2>10
      <3>4. OnPlace((front \o code) \o rest, st)
        BY <2>10, <2>11, <3>2, <3>3, OnPlaceJoin
      <3>5. QED
        BY <3>4
    <2> HIDE DEF u, v, n, st, code, front, rest
    <2>13. n \in Nat /\ g \in Nat /\ g <= Len(v) /\ h <= i - 1 /\ i - 1 <= g
           /\ Len(v) \in Nat /\ i - 1 <= Len(u) /\ g < a + n
      <3> DEFINE L == Len(u)
                 M == Len(v)
      <3>1. /\ n \in Nat /\ M = (i - 1) + n + (L - (j + 3) + 1) /\ M \in Nat /\ L \in Nat
            /\ j + 2 <= L /\ i \in Nat /\ 1 <= i /\ i <= L /\ j \in Nat /\ h \in Nat /\ i > h
            /\ a \in Nat /\ i + 3 <= a /\ g = i - 1 + n
        BY <2>1, <2>2, <2>4, <2>5, <2>6, <2>9 DEF Parts
      <3> HIDE DEF L, M, g
      <3>2. /\ g \in Nat /\ g <= M /\ h <= i - 1 /\ i - 1 <= g /\ i - 1 <= L /\ g < a + n
        BY ONLY <3>1
      <3>3. QED
        BY <3>1, <3>2 DEF L, M
    <2>14. Increasing(v) /\ Follows(T, v, g)
      BY <2>1, <2>2, <2>3, <2>4, <2>5, <2>7, <2>9, PartsGrow
    <2>15. ASSUME NEW s \in r.styles PROVE OnPlace(v, s) /\ s.start + s.len <= g
      <3> HIDE DEF g
      <3>1. s \in StyleRange /\ s.start + s.len <= h
        BY <2>1, <2>2
      <3>2. s.start \in Nat /\ s.len \in Nat
        BY <3>1 DEF StyleRange
      <3>3. \A k \in 1 .. h : v[k] = u[k]
        BY <2>1, <2>4, <2>13, <2>9 DEF Parts
      <3>4. h <= Len(u) /\ h <= Len(v)
        BY <2>1, <2>4, <2>13
      <3>5. OnPlace(v, s)
        BY <2>1, <2>2, <2>9, <3>1, <3>3, <3>4, OnPlaceAgrees
      <3>6. QED
        BY <2>1, <2>4, <2>13, <3>1, <3>2, <3>5
    <2>16. ASSUME NEW k \in 1 .. g PROVE ~MarkerAt(v, k, "tick", 3)
      BY <2>1, <2>2, <2>3, <2>4, <2>5, <2>7, <2>9, NoFenceBefore
    <2>17. st.start + st.len = g /\ st.start + st.len <= g
      <3>1. st.start + st.len = g
        BY <2>11
      <3> HIDE DEF g
      <3>2. QED
        BY <2>13, <3>1
    <2> DEFINE x == [text |-> v, styles |-> r.styles \cup {st}]
    <2>18. /\ x \in [text : Seq(Chars(T)), styles : SUBSET StyleRange] /\ x.text = v
           /\ x.styles = r.styles \cup {st}
      BY <2>2, <2>9, <2>11
    <2> HIDE DEF x, g
    <2>19. Blocked(T, x, g)
      BY <2>12, <2>13, <2>14, <2>15, <2>16, <2>17, <2>18 DEF Blocked
    <2>20. QED
      BY <2>8, <2>19 DEF x
  <1>3. QED
    BY <1>1, <1>2

(* A loop keeps what each step keeps.                                      *)
LEMMA LoopKeeps ==
    ASSUME NEW S, NEW N \in Nat, NEW f, f[0] \in S, \A k \in 1 .. N : f[k - 1] \in S => f[k] \in S
    PROVE  \A k \in 0 .. N : f[k] \in S
  <1> DEFINE T == {k \in 0 .. N : f[k] \in S}
  <1>1. 0 \in T /\ \A k \in 1 .. N : k - 1 \in T => k \in T
    OBVIOUS
  <1> HIDE DEF T
  <1>2. \A k \in 0 .. N : k \in T
    BY <1>1, UpTo
  <1>3. QED
    BY <1>2 DEF T

(* Taking out all the code blocks.                                         *)
LEMMA CodeBlocksOf ==
    ASSUME NEW T, Numbered(T), ~TickBeforeFence(T),
           NEW t, t \in Seq(Chars(T)), Increasing(t), Follows(T, t, 0)
    PROVE  \E h : Blocked(T, CodeBlocks(t), h)
  <1> DEFINE R == [text : Seq(Chars(T)), styles : SUBSET StyleRange]
             S == {r \in R : \E h : Blocked(T, r, h)}
             N == Len(t) \div 6
             base == [text |-> t, styles |-> {}]
             Def(f) == [n \in 0 .. N |-> IF n = 0 THEN base ELSE Replaced(f[n - 1])]
             f == CHOOSE replaced : replaced = Def(replaced)
             D == [k \in 1 .. N |-> [r \in S |-> Replaced(r)]]
  <1>1. N \in Nat
    <2>1. Len(t) \in Nat
      OBVIOUS
    <2> DEFINE L == Len(t)
    <2> HIDE DEF L
    <2>2. L \in Nat => L \div 6 \in Nat
      OBVIOUS
    <2>3. QED
      BY <2>1, <2>2 DEF L
  <1>2. base \in S
    <2>1. base \in R /\ base.text = t /\ base.styles = {}
      OBVIOUS
    <2>2. 0 \in Nat /\ 0 <= Len(t) /\ 1 .. 0 = {}
      OBVIOUS
    <2> HIDE DEF base
    <2>3. Blocked(T, base, 0)
      BY <2>1, <2>2 DEF Blocked
    <2>4. QED
      BY <2>1, <2>3
  <1>3. \A r \in S : Replaced(r) \in S
    <2> SUFFICES ASSUME NEW r \in S PROVE Replaced(r) \in S
      OBVIOUS
    <2>1. PICK h : Blocked(T, r, h)
      OBVIOUS
    <2>2. PICK g : Blocked(T, Replaced(r), g)
      BY <2>1, ReplacedKeeps
    <2>3. QED
      BY <2>2 DEF Blocked
  <1> HIDE DEF S, N, base
  <1>4. D \in Steps(S, N)
    BY <1>3 DEF Steps
  <1>5. PICK g : IsFold(g, base, D, N) /\ \A k \in 0 .. N : g[k] \in S
    <2> HIDE DEF D
    <2>1. QED
      BY <1>1, <1>2, <1>4, FoldExists
  <1>6. g = Def(g)
    <2>1. \A k \in 0 .. N : k # 0 => k - 1 \in 0 .. N /\ k \in 1 .. N
      BY <1>1
    <2>2. \A k \in 1 .. N : g[k - 1] \in S => D[k][g[k - 1]] = Replaced(g[k - 1])
      OBVIOUS
    <2> HIDE DEF D
    <2>3. \A k \in 0 .. N : (IF k = 0 THEN base ELSE D[k][g[k - 1]]) = Def(g)[k]
      BY <1>5, <2>1, <2>2
    <2>4. QED
      BY <1>5, <2>3 DEF IsFold
  <1>7. f = Def(f)
    <2> HIDE DEF Def
    <2>1. QED
      BY <1>6
  <1>8. CodeBlocks(t) = f[N]
    BY DEF CodeBlocks, N, base
  <1> HIDE DEF f
  <1>9. f[0] = base /\ \A k \in 1 .. N : f[k] = Replaced(f[k - 1])
    <2>1. 0 \in 0 .. N /\ \A k \in 1 .. N : k \in 0 .. N /\ k # 0
      BY <1>1
    <2>2. \A k \in 0 .. N : f[k] = Def(f)[k]
      BY <1>7
    <2>3. QED
      BY <2>1, <2>2
  <1>10. \A k \in 0 .. N : f[k] \in S
    <2>1. f[0] \in S /\ \A k \in 1 .. N : f[k - 1] \in S => f[k] \in S
      BY <1>2, <1>3, <1>9
    <2>2. QED
      BY <1>1, <2>1, LoopKeeps
  <1>11. N \in 0 .. N
    BY <1>1
  <1>12. QED
    BY <1>8, <1>10, <1>11 DEF S

(* Where a heading begins and ends, and that the next one is behind it.    *)
Behind(t, h) == h \in Nat /\ h <= Len(t) /\ \A i \in Headings(t) : h < i

LEMMA HeadingIs ==
    ASSUME NEW A, NEW t \in Seq(A), ~HeadingOfHeading(t), NEW h, Behind(t, h), NEW i \in Headings(t),
           NEW first, first = HeadingStart(t, i), NEW eol, eol = FirstFrom(t, first, "newline")
    PROVE  /\ i \in 1 .. Len(t) /\ h < i /\ first \in i + 1 .. Len(t) + 1
           /\ eol \in first .. Len(t) + 1
           /\ \A g \in Headings(t) : i < g => eol < g
  <1>1. Len(t) \in Nat /\ DOMAIN t = 1 .. Len(t) /\ i \in 1 .. Len(t) /\ h \in Nat
    BY DEF Headings, Behind
  <1>2. PICK n \in 1 .. 6 : /\ MarkerAt(t, i, "hash", n) /\ i + n \in DOMAIN t
                            /\ t[i + n].kind \in Whitespace
    BY DEF Headings
  <1> DEFINE B == {j \in i .. Len(t) : t[j].kind # "hash"}
             blank == Min(B)
             E == {j \in blank .. Len(t) : t[j].kind \notin Whitespace} \cup {Len(t) + 1}
  <1>3. t[i].kind = "hash"
    <2>1. i \in i .. i + n - 1
      BY <1>1
    <2>2. QED
      BY <1>2, <2>1 DEF MarkerAt
  <1>4. h < i
    BY DEF Behind
  <1>5. B # {} /\ B \in SUBSET Nat
    <2>1. i + n \in B
      BY <1>1, <1>2 DEF Whitespace
    <2>2. QED
      BY <1>1, <2>1
  <1>6. blank \in B /\ \A j \in B : blank <= j
    <2> HIDE DEF B
    <2>1. QED
      BY <1>5, MinIsLeast
  <1> HIDE DEF blank
  <1>7. /\ blank \in i + 1 .. Len(t)
        /\ \A j \in i .. blank - 1 : j \in 1 .. Len(t) /\ t[j].kind = "hash"
    <2>1. blank \in i .. Len(t) /\ blank # i
      BY <1>3, <1>6
    <2>2. ASSUME NEW j \in i .. blank - 1 PROVE j \in 1 .. Len(t) /\ t[j].kind = "hash"
      <3>1. j \in i .. Len(t) /\ ~(blank <= j)
        BY <1>1, <2>1
      <3>2. QED
        BY <1>1, <1>6, <3>1
    <2>3. QED
      BY <1>1, <2>1, <2>2
  <1>8. E # {} /\ E \in SUBSET Nat /\ \A j \in E : j \in blank .. Len(t) + 1
    BY <1>1, <1>7
  <1>9. first = Min(E)
    BY DEF HeadingStart, blank
  <1>10. first \in E /\ \A j \in E : first <= j
    <2> HIDE DEF E
    <2>1. QED
      BY <1>8, <1>9, MinIsLeast
  <1>11. /\ first \in blank .. Len(t) + 1
         /\ \A j \in blank .. first - 1 : t[j].kind \in Whitespace
    <2>1. first \in blank .. Len(t) + 1
      BY <1>8, <1>10
    <2>2. ASSUME NEW j \in blank .. first - 1, t[j].kind \notin Whitespace PROVE FALSE
      <3>1. j \in blank .. Len(t) /\ ~(first <= j)
        BY <1>1, <1>7, <2>1
      <3>2. j \in E
        BY <2>2, <3>1
      <3>3. QED
        BY <1>10, <3>1, <3>2
    <2>3. QED
      BY <2>1, <2>2
  <1> HIDE DEF B, E
  <1>12. first \in i + 1 .. Len(t) + 1 /\ first \in 1 .. Len(t) + 1
    BY <1>1, <1>7, <1>11
  <1>13. /\ eol \in first .. Len(t) + 1
         /\ \A k \in first .. eol - 1 : t[k].kind # "newline"
    BY <1>12, FirstFromIs
  <1>14. ASSUME NEW g \in Headings(t), i < g PROVE eol < g
    <2>1. /\ g \in 1 .. Len(t) /\ (g = 1 \/ t[g - 1].kind = "newline")
          /\ \E y \in 1 .. 6 : MarkerAt(t, g, "hash", y)
      BY <1>1 DEF Headings
    <2> DEFINE m == g - 1
    <2>2. m \in i .. Len(t) /\ t[m].kind = "newline" /\ m \in Nat
      BY <1>1, <1>14, <2>1
    <2>3. ~(m \in i .. blank - 1)
      BY <1>7, <2>2
    <2>4. t[g].kind = "hash"
      <3>1. PICK y \in 1 .. 6 : MarkerAt(t, g, "hash", y)
        BY <2>1
      <3>2. g \in g .. g + y - 1
        BY <2>1
      <3>3. QED
        BY <3>1, <3>2 DEF MarkerAt
    <2>5. ~(g \in blank .. first - 1)
      BY <1>11, <2>4 DEF Whitespace
    <2>6. g # first
      BY DEF HeadingOfHeading
    <2>7. m \in first .. Len(t)
      BY <1>1, <1>7, <1>11, <2>1, <2>2, <2>3, <2>5, <2>6
    <2>8. ~(m \in first .. eol - 1)
      BY <1>13, <2>2
    <2> HIDE DEF m
    <2>9. eol <= m
      BY <1>1, <1>12, <1>13, <2>7, <2>8
    <2>10. QED
      BY <1>12, <1>13, <2>1, <2>9 DEF m
  <1>15. QED
    BY <1>1, <1>4, <1>12, <1>13, <1>14

(* Appending a later part of an increasing text.                           *)
Before(x, t, a) == \A l \in 1 .. Len(x), m \in a .. Len(t) : x[l].at < t[m].at

LEMMA AppendPart ==
    ASSUME NEW A, NEW t \in Seq(A), Increasing(t), NEW x \in Seq(A), Increasing(x),
           NEW a \in Nat \ {0}, Before(x, t, a),
           NEW b \in Nat \ {0}, NEW c \in Nat \ {0}, a <= b, b <= c, c <= Len(t) + 1,
           NEW y, y = x \o SubSeq(t, b, c - 1)
    PROVE  y \in Seq(A) /\ Increasing(y) /\ Before(y, t, c)
  <1> DEFINE z == SubSeq(t, b, c - 1)
             e == c - 1
  <1>1. /\ z \in Seq(A) /\ Len(z) = c - b /\ \A k \in 1 .. c - b : z[k] = t[b + k - 1]
        /\ Len(t) \in Nat /\ e \in Nat /\ e <= Len(t) /\ Len(x) \in Nat
    <2>1. Len(t) \in Nat /\ e \in Nat /\ e <= Len(t) /\ Len(x) \in Nat
      OBVIOUS
    <2>2. /\ SubSeq(t, b, e) \in Seq(A)
          /\ Len(SubSeq(t, b, e)) = IF b <= e THEN e - b + 1 ELSE 0
          /\ \A k \in 1 .. e - b + 1 : SubSeq(t, b, e)[k] = t[b + k - 1]
      <3> HIDE DEF e
      <3>1. QED
        BY <2>1, SubSeqOf
    <2>3. z = SubSeq(t, b, e)
      OBVIOUS
    <2> HIDE DEF z
    <2>4. QED
      BY <2>1, <2>2, <2>3
  <1> HIDE DEF z
  <1>2. /\ y \in Seq(A) /\ Len(y) = Len(x) + Len(z)
        /\ \A k \in 1 .. Len(x) : y[k] = x[k]
        /\ \A k \in 1 .. Len(z) : y[Len(x) + k] = z[k]
    <2>1. y = x \o z
      BY DEF z
    <2>2. x \in Seq(A) /\ z \in Seq(A)
      BY <1>1
    <2>3. /\ x \o z \in Seq(A) /\ Len(x \o z) = Len(x) + Len(z)
          /\ \A k \in 1 .. Len(x) : (x \o z)[k] = x[k]
          /\ \A k \in 1 .. Len(z) : (x \o z)[Len(x) + k] = z[k]
      BY ONLY <2>2, JoinOf
    <2>4. QED
      BY <2>1, <2>3
  <1>3. ASSUME NEW k \in 1 .. Len(y)
        PROVE  \/ k \in 1 .. Len(x) /\ y[k] = x[k]
               \/ /\ k > Len(x) /\ y[k] = t[b + (k - Len(x)) - 1]
                  /\ b + (k - Len(x)) - 1 \in b .. c - 1
    <2>1. CASE k <= Len(x)
      BY <1>1, <1>2, <2>1
    <2>2. CASE k > Len(x)
      <3> DEFINE m == k - Len(x)
                 X == Len(x)
                 L == Len(y)
      <3>1. m \in 1 .. c - b /\ Len(x) + m = k
        <4>1. X \in Nat /\ L = X + (c - b) /\ k > X /\ k \in 1 .. L /\ m = k - X
          BY <1>1, <1>2, <2>2
        <4> HIDE DEF m, X, L
        <4>2. m \in 1 .. c - b /\ X + m = k
          BY ONLY <4>1, b \in Nat \ {0}, c \in Nat \ {0}, b <= c
        <4>3. QED
          BY <4>2 DEF X
      <3> HIDE DEF m
      <3>2. y[Len(x) + m] = z[m] /\ z[m] = t[b + m - 1]
        <4>1. m \in 1 .. Len(z)
          BY ONLY <1>1, <3>1
        <4>2. QED
          BY ONLY <1>1, <1>2, <3>1, <4>1
      <3>3. b + m - 1 \in b .. c - 1
        BY ONLY <3>1, b \in Nat \ {0}, c \in Nat \ {0}
      <3>4. QED
        BY <2>2, <3>1, <3>2, <3>3 DEF m
    <2>3. QED
      BY <1>1, <2>1, <2>2
  <1>4. Increasing(y)
    <2> SUFFICES ASSUME NEW k \in 1 .. Len(y), NEW l \in 1 .. Len(y), k < l
                 PROVE  y[k].at < y[l].at
      BY DEF Increasing
    <2> DEFINE p == b + (k - Len(x)) - 1
               q == b + (l - Len(x)) - 1
    <2>1. CASE k \in 1 .. Len(x) /\ y[k] = x[k] /\ l \in 1 .. Len(x) /\ y[l] = x[l]
      BY <2>1 DEF Increasing
    <2>2. CASE k \in 1 .. Len(x) /\ y[k] = x[k] /\ y[l] = t[q] /\ q \in b .. c - 1
      <3>1. q \in a .. Len(t)
        <4> DEFINE L == Len(t)
        <4>1. L \in Nat /\ c <= L + 1 /\ q \in b .. c - 1
          BY <1>1, <2>2
        <4> HIDE DEF q, L
        <4>2. q \in a .. L
          BY ONLY <4>1, a \in Nat \ {0}, b \in Nat \ {0}, c \in Nat \ {0}, a <= b
        <4>3. QED
          BY <4>2 DEF L
      <3> HIDE DEF q
      <3>2. QED
        BY <2>2, <3>1 DEF Before
    <2>3. CASE k > Len(x) /\ y[k] = t[p] /\ p \in b .. c - 1 /\ y[l] = t[q] /\ q \in b .. c - 1
      <3>3. p < q
        <4>1. Len(x) \in Nat /\ k \in Int /\ l \in Int
          BY <1>1
        <4>2. QED
          BY ONLY <4>1, b \in Nat \ {0}, k < l
      <3> HIDE DEF p, q
      <3>1. p \in 1 .. Len(t) /\ q \in 1 .. Len(t) /\ p < q
        <4> DEFINE L == Len(t)
        <4>1. L \in Nat /\ c <= L + 1 /\ p \in b .. c - 1 /\ q \in b .. c - 1
          BY <1>1, <2>3
        <4> HIDE DEF L
        <4>2. p \in 1 .. L /\ q \in 1 .. L
          BY ONLY <4>1, b \in Nat \ {0}, c \in Nat \ {0}
        <4>3. QED
          BY <3>3, <4>2 DEF L
      <3>2. QED
        BY <2>3, <3>1 DEF Increasing
    <2>4. ~(k > Len(x) /\ l \in 1 .. Len(x))
      BY <1>1
    <2>5. QED
      BY <1>3, <2>1, <2>2, <2>3, <2>4
  <1>5. Before(y, t, c)
    <2> SUFFICES ASSUME NEW k \in 1 .. Len(y), NEW m \in c .. Len(t) PROVE y[k].at < t[m].at
      BY DEF Before
    <2>1. m \in a .. Len(t) /\ m \in 1 .. Len(t) /\ m > c - 1
      BY <1>1
    <2>2. CASE k \in 1 .. Len(x) /\ y[k] = x[k]
      BY <2>1, <2>2 DEF Before
    <2>3. CASE \E p \in b .. c - 1 : y[k] = t[p]
      <3>1. PICK p \in b .. c - 1 : y[k] = t[p]
        BY <2>3
      <3>2. p \in 1 .. Len(t) /\ p < m
        BY <1>1, <2>1
      <3>3. QED
        BY <2>1, <3>1, <3>2 DEF Increasing
    <2>4. QED
      BY <1>3, <2>2, <2>3
  <1>6. QED
    BY <1>2, <1>4, <1>5

HeadedRange(T, t) ==
    [text : Seq(Chars(T)), next : 1 .. Len(t) + 1, styles : SUBSET StyleRange]

(* The loop over headings.                                                 *)
HeadingLoop(T, t, styles, f, q) ==
    /\ q = Cardinality(Headings(t)) /\ q \in Nat
    /\ \A k \in 0 .. q : f[k] \in HeadedRange(T, t)
    /\ f[0] = [text |-> << >>, next |-> 1, styles |-> styles]
    /\ \A k \in 1 .. q : f[k] = StripHeading(t, f[k - 1], Ascending(Headings(t))[k])
    /\ HeadingsStripped(t, styles)
          = [text |-> f[q].text \o SubSeq(t, f[q].next, Len(t)), styles |-> f[q].styles]

(* Where a text and its headings are.                                      *)
LEMMA HeadingsAre ==
    ASSUME NEW A, NEW t \in Seq(A)
    PROVE  /\ Headings(t) \in SUBSET (1 .. Len(t)) /\ Headings(t) \in SUBSET Nat
           /\ IsFiniteSet(Headings(t)) /\ Cardinality(Headings(t)) \in Nat
           /\ Len(Ascending(Headings(t))) = Cardinality(Headings(t))
           /\ \A k \in 1 .. Cardinality(Headings(t)) : Ascending(Headings(t))[k] \in Headings(t)
           /\ \A k, l \in 1 .. Cardinality(Headings(t)) :
                 k < l => Ascending(Headings(t))[k] < Ascending(Headings(t))[l]
  <1> DEFINE S == Headings(t)
  <1>1. Len(t) \in Nat /\ S \in SUBSET (1 .. Len(t))
    BY DEF Headings
  <1> HIDE DEF S
  <1>2. /\ S \in SUBSET Nat /\ IsFiniteSet(S) /\ Len(Ascending(S)) = Cardinality(S)
        /\ \A k \in 1 .. Len(Ascending(S)) : Ascending(S)[k] \in S
    BY <1>1, AscendingOf
  <1>3. Cardinality(S) \in Nat
    BY <1>2, FS_CardinalityType
  <1>4. \A k, l \in 1 .. Cardinality(S) : k < l => Ascending(S)[k] < Ascending(S)[l]
    BY <1>2, AscendingOrder
  <1>5. QED
    BY <1>1, <1>2, <1>3, <1>4 DEF S

(* A heading at i gives way to what stands from first up to eol.           *)
Heads(T, t, h, out, i, first, eol) ==
    /\ i \in 1 .. Len(t) /\ h < i /\ first <= eol /\ eol <= Len(t) + 1
    /\ \A g \in Headings(t) : i < g => eol < g
    /\ StripHeading(t, out, i) \in HeadedRange(T, t)
    /\ out.text \o SubSeq(t, out.next, i - 1) \in Seq(Chars(T))
    /\ SubSeq(t, first, eol - 1) \in Seq(Chars(T))
    /\ StripHeading(t, out, i)
          = [text |-> out.text \o SubSeq(t, out.next, i - 1) \o SubSeq(t, first, eol - 1),
             next |-> eol,
             styles |-> out.styles \cup
                {Style(Len(out.text \o SubSeq(t, out.next, i - 1)),
                       SubSeq(t, first, eol - 1), "BOLD")}]

(* What one heading does.                                                  *)
LEMMA StripHeadingIs ==
    ASSUME NEW T, Numbered(T), NEW t \in Seq(Chars(T)), Increasing(t), ~HeadingOfHeading(t),
           NEW h, Behind(t, h), NEW i \in Headings(t),
           NEW out \in HeadedRange(T, t)
    PROVE  /\ StripHeading(t, out, i) \in HeadedRange(T, t)
           /\ \E first \in i + 1 .. Len(t) + 1, eol \in Nat : Heads(T, t, h, out, i, first, eol)
  <1> DEFINE first == HeadingStart(t, i)
             eol == FirstFrom(t, first, "newline")
             heading == SubSeq(t, first, eol - 1)
             before == out.text \o SubSeq(t, out.next, i - 1)
             st == Style(Len(before), heading, "BOLD")
  <1>1. StripHeading(t, out, i)
           = [text |-> before \o heading, next |-> eol, styles |-> out.styles \cup {st}]
    BY DEF StripHeading
  <1>2. /\ i \in 1 .. Len(t) /\ h < i /\ first \in i + 1 .. Len(t) + 1
        /\ eol \in first .. Len(t) + 1
        /\ \A g \in Headings(t) : i < g => eol < g
    BY HeadingIs
  <1>3. Len(t) \in Nat
    OBVIOUS
  <1>4. heading \in Seq(Chars(T))
    <2> DEFINE e == eol - 1
    <2> HIDE DEF first, eol
    <2>1. first \in Nat \ {0} /\ e \in Nat /\ e <= Len(t)
      BY <1>2, <1>3
    <2> HIDE DEF e
    <2>2. SubSeq(t, first, e) \in Seq(Chars(T))
      BY <2>1, SubSeqOf
    <2>3. QED
      BY <2>2 DEF e
  <1>5. before \in Seq(Chars(T)) /\ out.styles \in SUBSET StyleRange
    <2>1. out.text \in Seq(Chars(T)) /\ out.next \in 1 .. Len(t) + 1
          /\ out.styles \in SUBSET StyleRange
      BY DEF HeadedRange
    <2> DEFINE e == i - 1
               m == out.next
    <2>2. m \in Nat \ {0} /\ e \in Nat /\ e <= Len(t)
      BY <1>2, <1>3, <2>1
    <2> HIDE DEF e, m
    <2>3. SubSeq(t, m, e) \in Seq(Chars(T))
      BY <2>2, SubSeqOf
    <2>4. out.text \o SubSeq(t, m, e) \in Seq(Chars(T))
      BY <2>1, <2>3, JoinOf
    <2>5. QED
      BY <2>1, <2>4 DEF e, m
  <1>6. st \in StyleRange
    <2> HIDE DEF before, heading
    <2>1. Len(before) \in Nat
      BY <1>5
    <2>2. QED
      BY <1>4, <2>1, StyleTyped
  <1>7. before \o heading \in Seq(Chars(T))
    <2> HIDE DEF before, heading
    <2>1. QED
      BY <1>4, <1>5, JoinOf
  <1> HIDE DEF st, before, heading, eol, first
  <1>8. eol \in 1 .. Len(t) + 1 /\ eol \in Nat /\ first <= eol /\ eol <= Len(t) + 1
    BY <1>2, <1>3
  <1>9. StripHeading(t, out, i) \in HeadedRange(T, t)
    BY <1>1, <1>5, <1>6, <1>7, <1>8 DEF HeadedRange
  <1>10. QED
    BY <1>1, <1>2, <1>4, <1>5, <1>8, <1>9 DEF st, before, heading, Heads

LEMMA HeadingLoopRuns ==
    ASSUME NEW T, Numbered(T), NEW t \in Seq(Chars(T)), Increasing(t), ~HeadingOfHeading(t),
           NEW h, Behind(t, h), NEW styles \in SUBSET StyleRange
    PROVE  \E f, q : HeadingLoop(T, t, styles, f, q)
  <1> DEFINE S == HeadedRange(T, t)
             heads == Ascending(Headings(t))
             N == Len(heads)
             base == [text |-> << >>, next |-> 1, styles |-> styles]
             Def(f) == [n \in 0 .. N |-> IF n = 0 THEN base
                                         ELSE StripHeading(t, f[n - 1], heads[n])]
             f == CHOOSE stripped : stripped = Def(stripped)
             D == [k \in 1 .. N |-> [r \in S |-> StripHeading(t, r, heads[k])]]
  <1>1. N \in Nat /\ N = Cardinality(Headings(t)) /\ \A k \in 1 .. N : heads[k] \in Headings(t)
    BY HeadingsAre
  <1>2. base \in S
    <2>1. << >> \in Seq(Chars(T)) /\ 1 \in 1 .. Len(t) + 1
      BY EmptySeq
    <2>2. QED
      BY <2>1 DEF HeadedRange
  <1>3. \A k \in 1 .. N, r \in S : StripHeading(t, r, heads[k]) \in S
    BY <1>1, StripHeadingIs
  <1>4. HeadingsStripped(t, styles)
           = [text |-> f[N].text \o SubSeq(t, f[N].next, Len(t)), styles |-> f[N].styles]
    BY DEF HeadingsStripped
  <1> HIDE DEF S, N, base
  <1>5. D \in Steps(S, N)
    <2> HIDE DEF heads
    <2>1. QED
      BY <1>3 DEF Steps
  <1>6. PICK g : IsFold(g, base, D, N) /\ \A k \in 0 .. N : g[k] \in S
    <2> HIDE DEF D
    <2>1. QED
      BY <1>1, <1>2, <1>5, FoldExists
  <1> HIDE DEF heads
  <1>7. g = Def(g)
    <2>1. \A k \in 0 .. N : k # 0 => k - 1 \in 0 .. N /\ k \in 1 .. N
      BY <1>1
    <2>2. \A k \in 1 .. N : g[k - 1] \in S => D[k][g[k - 1]] = StripHeading(t, g[k - 1], heads[k])
      OBVIOUS
    <2> HIDE DEF D
    <2>3. \A k \in 0 .. N : (IF k = 0 THEN base ELSE D[k][g[k - 1]]) = Def(g)[k]
      BY <1>6, <2>1, <2>2
    <2>4. QED
      BY <1>6, <2>3 DEF IsFold
  <1>8. f = Def(f)
    <2> HIDE DEF Def
    <2>1. QED
      BY <1>7
  <1> HIDE DEF f
  <1>9. f[0] = base /\ \A k \in 1 .. N : f[k] = StripHeading(t, f[k - 1], heads[k])
    <2>1. 0 \in 0 .. N /\ \A k \in 1 .. N : k \in 0 .. N /\ k # 0
      BY <1>1
    <2>2. \A k \in 0 .. N : f[k] = Def(f)[k]
      BY <1>8
    <2>3. QED
      BY <2>1, <2>2
  <1>10. \A k \in 0 .. N : f[k] \in S
    <2>1. f[0] \in S /\ \A k \in 1 .. N : f[k - 1] \in S => f[k] \in S
      BY <1>2, <1>3, <1>9
    <2>2. QED
      BY <1>1, <2>1, LoopKeeps
  <1>11. HeadingLoop(T, t, styles, f, N)
    BY <1>1, <1>4, <1>9, <1>10 DEF HeadingLoop, S, base, heads
  <1>12. QED
    BY <1>11

(* What holds after k headings: the next one begins where the text goes on *)
(* or later, and every style stays in place in whatever is added.          *)
HeadingsGone(T, t, h, out, k) ==
    /\ Increasing(out.text) /\ Before(out.text, t, out.next)
    /\ \A l \in k + 1 .. Cardinality(Headings(t)) : out.next <= Ascending(Headings(t))[l]
    /\ \A s \in out.styles, e \in 1 .. Len(t) + 1 :
          out.next <= e /\ h < e => OnPlace(out.text \o SubSeq(t, out.next, e - 1), s)

LEMMA StripHeadingKeeps ==
    ASSUME NEW T, Numbered(T), NEW t \in Seq(Chars(T)), Increasing(t), ~HeadingOfHeading(t),
           NEW h, Behind(t, h),
           NEW k \in 1 .. Cardinality(Headings(t)), NEW out \in HeadedRange(T, t),
           HeadingsGone(T, t, h, out, k - 1)
    PROVE  HeadingsGone(T, t, h, StripHeading(t, out, Ascending(Headings(t))[k]), k)
  <1> DEFINE i == Ascending(Headings(t))[k]
             q == Cardinality(Headings(t))
             before == out.text \o SubSeq(t, out.next, i - 1)
             new == StripHeading(t, out, i)
  <1>1. /\ i \in Headings(t) /\ q \in Nat /\ Len(t) \in Nat
        /\ \A l \in 1 .. q : Ascending(Headings(t))[l] \in Headings(t)
        /\ \A l \in 1 .. q : k < l => i < Ascending(Headings(t))[l]
        /\ \A l \in 1 .. q : Ascending(Headings(t))[l] \in Nat
    BY HeadingsAre
  <1> HIDE DEF i
  <1>2. PICK first \in i + 1 .. Len(t) + 1, eol \in Nat :
              /\ i \in 1 .. Len(t) /\ h < i /\ first <= eol /\ eol <= Len(t) + 1
              /\ \A g \in Headings(t) : i < g => eol < g
              /\ new \in HeadedRange(T, t)
              /\ before \in Seq(Chars(T))
              /\ SubSeq(t, first, eol - 1) \in Seq(Chars(T))
              /\ new = [text |-> before \o SubSeq(t, first, eol - 1), next |-> eol,
                        styles |-> out.styles \cup
                           {Style(Len(before), SubSeq(t, first, eol - 1), "BOLD")}]
    <2>1. PICK first \in i + 1 .. Len(t) + 1, eol \in Nat : Heads(T, t, h, out, i, first, eol)
      BY <1>1, StripHeadingIs
    <2>2. QED
      BY <2>1 DEF Heads
  <1> DEFINE heading == SubSeq(t, first, eol - 1)
             st == Style(Len(before), heading, "BOLD")
  <1>3. out.text \in Seq(Chars(T)) /\ out.next \in 1 .. Len(t) + 1 /\ out.styles \in SUBSET StyleRange
    BY DEF HeadedRange
  <1>4. k \in (k - 1) + 1 .. q
    BY <1>1
  <1>5. out.next <= i
    BY <1>4 DEF HeadingsGone, i
  <1>6. Increasing(before) /\ Before(before, t, i)
    <2> DEFINE m == out.next
               x == out.text
    <2>1. /\ m \in Nat \ {0} /\ i \in Nat \ {0} /\ m <= m /\ m <= i /\ i <= Len(t) + 1
          /\ x \in Seq(Chars(T))
      <3>1. /\ m \in 1 .. Len(t) + 1 /\ i \in 1 .. Len(t) /\ m <= i /\ Len(t) \in Nat
            /\ x \in Seq(Chars(T))
        BY ONLY <1>1, <1>2, <1>3, <1>5
      <3> HIDE DEF m, x
      <3>2. QED
        BY ONLY <3>1
    <2>2. Increasing(x) /\ Before(x, t, m)
      BY DEF HeadingsGone
    <2>3. before = x \o SubSeq(t, m, i - 1)
      OBVIOUS
    <2> HIDE DEF m, x, before
    <2>4. QED
      BY <2>1, <2>2, <2>3, AppendPart
  <1>7. \A s \in out.styles : OnPlace(before, s)
    <2>1. i \in 1 .. Len(t) + 1 /\ h < i
      BY <1>1, <1>2
    <2>2. QED
      BY <1>5, <2>1 DEF HeadingsGone
  <1> HIDE DEF before, new
  <1>8. Increasing(before \o heading) /\ Before(before \o heading, t, eol)
    <2> DEFINE y == before \o heading
    <2>1. /\ i \in Nat \ {0} /\ first \in Nat \ {0} /\ eol \in Nat \ {0} /\ i <= first
          /\ first <= eol /\ eol <= Len(t) + 1
      BY <1>1, <1>2
    <2>2. y = before \o SubSeq(t, first, eol - 1)
      OBVIOUS
    <2> HIDE DEF y
    <2>3. Increasing(y) /\ Before(y, t, eol)
      BY <1>2, <1>6, <2>1, <2>2, AppendPart
    <2>4. QED
      BY <2>3 DEF y
  <1>9. heading \in Seq(Chars(T)) /\ st \in StyleRange
    <2>1. heading \in Seq(Chars(T)) /\ Len(before) \in Nat
      BY <1>2
    <2> HIDE DEF heading
    <2>2. QED
      BY <2>1, StyleTyped
  <1>10. /\ new.text = before \o heading /\ new.next = eol /\ new.styles = out.styles \cup {st}
         /\ new.text \in Seq(Chars(T))
    <2>1. new.text = before \o heading /\ new.next = eol /\ new.styles = out.styles \cup {st}
      BY <1>2
    <2>2. QED
      BY <1>2, <2>1 DEF HeadedRange
  <1> HIDE DEF heading
  <1>11. \A s \in new.styles : s \in StyleRange /\ OnPlace(new.text, s)
    <2>1. OnPlace(before \o heading, st)
      BY <1>2, <1>9, StyleOnPlace
    <2> HIDE DEF st
    <2>2. \A s \in out.styles : s \in StyleRange /\ OnPlace(before \o heading, s)
      BY <1>2, <1>3, <1>7, <1>9, OnPlaceJoin
    <2>3. QED
      BY <1>9, <1>10, <2>1, <2>2
  <1>12. ASSUME NEW s \in new.styles, NEW e \in 1 .. Len(t) + 1, new.next <= e, h < e
         PROVE  OnPlace(new.text \o SubSeq(t, new.next, e - 1), s)
    <2> DEFINE m == new.next
               d == e - 1
    <2>1. m \in Nat \ {0} /\ d \in Nat /\ d <= Len(t)
      BY <1>1, <1>2, <1>10
    <2> HIDE DEF m, d
    <2>2. SubSeq(t, m, d) \in Seq(Chars(T))
      BY <2>1, SubSeqOf
    <2>3. OnPlace(new.text \o SubSeq(t, m, d), s)
      BY <1>10, <1>11, <2>2, OnPlaceJoin
    <2>4. QED
      BY <2>3 DEF m, d
  <1>13. ASSUME NEW l \in k + 1 .. q PROVE new.next <= Ascending(Headings(t))[l]
    <2>1. l \in 1 .. q /\ k < l
      BY <1>1
    <2>2. eol < Ascending(Headings(t))[l]
      BY <1>1, <1>2, <2>1
    <2>3. QED
      BY <1>1, <1>2, <1>10, <2>1, <2>2
  <1>14. HeadingsGone(T, t, h, new, k)
    BY <1>8, <1>10, <1>12, <1>13 DEF HeadingsGone
  <1>15. QED
    BY <1>14 DEF new, i

(* Stripping the headings keeps all styles in place.                       *)
LEMMA HeadingsOf ==
    ASSUME NEW T, Numbered(T), NEW r, NEW h, Blocked(T, r, h),
           ~HeadingUpToCode(r), ~HeadingOfHeading(r.text)
    PROVE  /\ HeadingsStripped(r.text, r.styles) \in [text : Seq(Chars(T)), styles : SUBSET StyleRange]
           /\ Increasing(HeadingsStripped(r.text, r.styles).text)
           /\ \A s \in HeadingsStripped(r.text, r.styles).styles :
                 OnPlace(HeadingsStripped(r.text, r.styles).text, s)
  <1> DEFINE t == r.text
  <1>1. /\ t \in Seq(Chars(T)) /\ r.styles \in SUBSET StyleRange
        /\ h \in Nat /\ h <= Len(t) /\ Increasing(t) /\ ~HeadingOfHeading(t)
        /\ \A s \in r.styles : OnPlace(t, s) /\ s.start + s.len <= h
        /\ h = 0 \/ \E s \in r.styles : s.start + s.len = h
        /\ \A i \in Headings(t), s \in r.styles : ~(i <= s.start + s.len)
    BY DEF Blocked, HeadingUpToCode
  <1> HIDE DEF t
  <1>2. Behind(t, h) /\ Len(t) \in Nat
    <2> SUFFICES ASSUME NEW i \in Headings(t) PROVE h < i
      BY <1>1 DEF Behind
    <2>1. i \in 1 .. Len(t) /\ Len(t) \in Nat
      BY <1>1, HeadingsAre
    <2>2. h = 0 \/ ~(i <= h)
      BY <1>1
    <2>3. QED
      BY <1>1, <2>1, <2>2
  <1>3. PICK f, q : HeadingLoop(T, t, r.styles, f, q)
    BY <1>1, <1>2, HeadingLoopRuns
  <1>4. /\ q = Cardinality(Headings(t)) /\ q \in Nat
        /\ \A k \in 0 .. q : f[k] \in HeadedRange(T, t)
        /\ f[0] = [text |-> << >>, next |-> 1, styles |-> r.styles]
        /\ \A k \in 1 .. q : f[k] = StripHeading(t, f[k - 1], Ascending(Headings(t))[k])
        /\ HeadingsStripped(t, r.styles)
              = [text |-> f[q].text \o SubSeq(t, f[q].next, Len(t)), styles |-> f[q].styles]
    BY <1>3 DEF HeadingLoop
  <1>5. HeadingsGone(T, t, h, f[0], 0)
    <2>1. f[0].text = << >> /\ f[0].next = 1 /\ f[0].styles = r.styles /\ Len(<< >>) = 0
      BY <1>4
    <2>2. Increasing(f[0].text) /\ Before(f[0].text, t, f[0].next)
      BY <2>1 DEF Increasing, Before
    <2>3. \A l \in 0 + 1 .. Cardinality(Headings(t)) : f[0].next <= Ascending(Headings(t))[l]
      <3>1. \A l \in 1 .. q : Ascending(Headings(t))[l] \in 1 .. Len(t)
        BY <1>1, <1>4, HeadingsAre
      <3>2. QED
        BY <1>4, <2>1, <3>1
    <2>4. ASSUME NEW s \in r.styles, NEW e \in 1 .. Len(t) + 1, h < e
          PROVE  OnPlace(<< >> \o SubSeq(t, 1, e - 1), s)
      <3> DEFINE d == e - 1
                 v == SubSeq(t, 1, d)
      <3>1. d \in Nat /\ d <= Len(t) /\ h <= d /\ 1 \in Nat \ {0}
        BY <1>1, <1>2, <2>4
      <3> HIDE DEF d
      <3>2. /\ v \in Seq(Chars(T)) /\ Len(v) = IF 1 <= d THEN d - 1 + 1 ELSE 0
            /\ \A k \in 1 .. d - 1 + 1 : v[k] = t[1 + k - 1]
        BY <1>1, <3>1, SubSeqOf
      <3> HIDE DEF v
      <3>3. v \in Seq(Chars(T)) /\ Len(v) = d /\ \A k \in 1 .. d : v[k] = t[k]
        BY <3>1, <3>2
      <3>4. s \in StyleRange /\ OnPlace(t, s) /\ s.start + s.len <= h
        BY <1>1, <2>4
      <3>5. h <= Len(v) /\ \A k \in 1 .. h : v[k] = t[k]
        BY <1>1, <3>1, <3>3
      <3>6. OnPlace(v, s)
        BY <1>1, <3>3, <3>4, <3>5, OnPlaceAgrees
      <3>7. << >> \o v = v
        BY <3>3
      <3>8. QED
        BY <3>6, <3>7 DEF v, d
    <2>5. QED
      BY <2>1, <2>2, <2>3, <2>4 DEF HeadingsGone
  <1> DEFINE I == {k \in 0 .. q : HeadingsGone(T, t, h, f[k], k)}
  <1>6. ASSUME NEW k \in 1 .. q, k - 1 \in I PROVE k \in I
    <2>1. k \in 0 .. q /\ k - 1 \in 0 .. q /\ HeadingsGone(T, t, h, f[k - 1], k - 1)
      BY <1>4, <1>6
    <2>2. f[k - 1] \in HeadedRange(T, t) /\ f[k] = StripHeading(t, f[k - 1], Ascending(Headings(t))[k])
      BY <1>4, <2>1
    <2>3. HeadingsGone(T, t, h, f[k], k)
      BY <1>1, <1>2, <1>4, <2>1, <2>2, StripHeadingKeeps
    <2>4. QED
      BY <2>1, <2>3
  <1>7. 0 \in I /\ q \in 0 .. q
    BY <1>4, <1>5
  <1>8. \A k \in 0 .. q : k \in I
    <2> HIDE DEF I
    <2>1. QED
      BY <1>4, <1>6, <1>7, UpTo
  <1> DEFINE out == f[q]
             d == Len(t) + 1
             v == out.text \o SubSeq(t, out.next, d - 1)
  <1>9. HeadingsGone(T, t, h, out, q) /\ out \in HeadedRange(T, t)
    BY <1>4, <1>7, <1>8
  <1> HIDE DEF out, I
  <1>10. out.text \in Seq(Chars(T)) /\ out.next \in 1 .. Len(t) + 1 /\ out.styles \in SUBSET StyleRange
    BY <1>9 DEF HeadedRange
  <1>11. v \in Seq(Chars(T)) /\ Increasing(v)
    <2> DEFINE m == out.next
               x == out.text
    <2>1. /\ m \in Nat \ {0} /\ d \in Nat \ {0} /\ m <= m /\ m <= d /\ d <= Len(t) + 1
          /\ x \in Seq(Chars(T))
      BY <1>2, <1>10
    <2>2. Increasing(x) /\ Before(x, t, m)
      BY <1>9 DEF HeadingsGone
    <2>3. v = x \o SubSeq(t, m, d - 1)
      OBVIOUS
    <2> HIDE DEF m, x, v, d
    <2>4. QED
      BY <1>1, <2>1, <2>2, <2>3, AppendPart
  <1>12. \A s \in out.styles : OnPlace(v, s)
    <2>1. d \in 1 .. Len(t) + 1 /\ out.next <= d /\ h < d
      BY <1>1, <1>2, <1>10
    <2>2. QED
      BY <1>9, <2>1 DEF HeadingsGone
  <1>13. HeadingsStripped(t, r.styles) = [text |-> v, styles |-> out.styles]
    <2>1. d - 1 = Len(t)
      BY <1>2
    <2>2. QED
      BY <1>4, <2>1 DEF out
  <1> HIDE DEF v
  <1>14. QED
    BY <1>10, <1>11, <1>12, <1>13 DEF t

PatternRange == {Patterns[k] : k \in 1 .. 6}

(* A match has at least one character between its markers.                 *)
MatchRange(t) ==
    {m \in [from : 1 .. Len(t), to : 1 .. Len(t), pattern : PatternRange] :
        m.from + m.pattern.n + m.pattern.n <= m.to}

LEMMA PatternsAre ==
    /\ Len(Patterns) = 6 /\ DOMAIN Patterns = 1 .. 6
    /\ \A p \in PatternRange :
          p.n \in {1, 2} /\ p.style \in {"MONOSPACE", "BOLD", "STRIKETHROUGH", "ITALIC"}
  <1>1. Len(Patterns) = 6 /\ DOMAIN Patterns = 1 .. 6
    BY DEF Patterns
  <1>2. ASSUME NEW p \in PatternRange
        PROVE  p.n \in {1, 2} /\ p.style \in {"MONOSPACE", "BOLD", "STRIKETHROUGH", "ITALIC"}
    <2>1. PICK k \in 1 .. 6 : p = Patterns[k]
      BY DEF PatternRange
    <2>2. k = 1 \/ k = 2 \/ k = 3 \/ k = 4 \/ k = 5 \/ k = 6
      BY <2>1
    <2>3. QED
      BY <2>1, <2>2 DEF Patterns, Pattern
  <1>3. QED
    BY <1>1, <1>2

ScanRange(t) == [found : Seq(MatchRange(t)), next : Nat]

(* What is found at i is a match.                                          *)
LEMMA ScannedTyped ==
    ASSUME NEW A, NEW t \in Seq(A), NEW p \in PatternRange, NEW out \in ScanRange(t),
           NEW i \in 1 .. Len(t)
    PROVE  Scanned(t, p, out, i) \in ScanRange(t)
  <1> DEFINE S == Ends(t, i, p)
             e == Min(S)
             n == p.n
             m == [from |-> i, to |-> e + n - 1, pattern |-> p]
  <1>1. CASE i < out.next \/ S = {}
    BY <1>1 DEF Scanned
  <1>2. CASE ~(i < out.next \/ S = {})
    <2>1. /\ Len(t) \in Nat /\ DOMAIN t = 1 .. Len(t) /\ n \in {1, 2}
          /\ out.found \in Seq(MatchRange(t))
      BY PatternsAre DEF ScanRange
    <2>2. S \in SUBSET Nat /\ S # {}
      BY <1>2, <2>1 DEF Ends
    <2>3. e \in S
      <3> HIDE DEF S
      <3>1. QED
        BY <2>2, MinIsLeast
    <2> HIDE DEF e
    <2>4. e \in i + n + 1 .. Len(t) /\ MarkerAt(t, e, p.kind, n)
      BY <2>3 DEF Ends
    <2>5. e + n - 1 \in 1 .. Len(t)
      <3>1. e + n - 1 \in e .. e + n - 1
        BY <2>1, <2>4
      <3>2. QED
        BY <2>1, <2>4, <3>1 DEF MarkerAt
    <2>6. i + n + n <= e + n - 1 /\ e + n \in Nat
      BY <2>1, <2>4
    <2>7. m \in MatchRange(t)
      BY <2>5, <2>6 DEF MatchRange
    <2>8. Scanned(t, p, out, i) = [found |-> Append(out.found, m), next |-> e + n]
      BY <1>2 DEF Scanned, e
    <2> HIDE DEF m
    <2>9. Append(out.found, m) \in Seq(MatchRange(t))
      BY <2>1, <2>7, AppendProperties
    <2>10. QED
      BY <2>6, <2>8, <2>9 DEF ScanRange
  <1>3. QED
    BY <1>1, <1>2

LEMMA MatchesTyped ==
    ASSUME NEW A, NEW t \in Seq(A), NEW p \in PatternRange
    PROVE  Matches(t, p) \in Seq(MatchRange(t))
  <1> DEFINE S == ScanRange(t)
             N == Len(t)
             base == [found |-> << >>, next |-> 1]
             Def(f) == [i \in 0 .. N |-> IF i = 0 THEN base ELSE Scanned(t, p, f[i - 1], i)]
             f == CHOOSE scanned : scanned = Def(scanned)
             D == [k \in 1 .. N |-> [r \in S |-> Scanned(t, p, r, k)]]
  <1>1. N \in Nat
    OBVIOUS
  <1>2. base \in S
    <2>1. << >> \in Seq(MatchRange(t))
      BY EmptySeq
    <2>2. QED
      BY <2>1 DEF ScanRange
  <1>3. \A k \in 1 .. N, r \in S : Scanned(t, p, r, k) \in S
    BY ScannedTyped
  <1>4. Matches(t, p) = f[N].found
    BY DEF Matches
  <1> HIDE DEF S, N, base
  <1>5. D \in Steps(S, N)
    BY <1>3 DEF Steps
  <1>6. PICK g : IsFold(g, base, D, N) /\ \A k \in 0 .. N : g[k] \in S
    <2> HIDE DEF D
    <2>1. QED
      BY <1>1, <1>2, <1>5, FoldExists
  <1>7. g = Def(g)
    <2>1. \A k \in 0 .. N : k # 0 => k - 1 \in 0 .. N /\ k \in 1 .. N
      BY <1>1
    <2>2. \A k \in 1 .. N : g[k - 1] \in S => D[k][g[k - 1]] = Scanned(t, p, g[k - 1], k)
      OBVIOUS
    <2> HIDE DEF D
    <2>3. \A k \in 0 .. N : (IF k = 0 THEN base ELSE D[k][g[k - 1]]) = Def(g)[k]
      BY <1>6, <2>1, <2>2
    <2>4. QED
      BY <1>6, <2>3 DEF IsFold
  <1>8. f = Def(f)
    <2> HIDE DEF Def
    <2>1. QED
      BY <1>7
  <1> HIDE DEF f
  <1>9. f[0] = base /\ \A k \in 1 .. N : f[k] = Scanned(t, p, f[k - 1], k)
    <2>1. 0 \in 0 .. N /\ \A k \in 1 .. N : k \in 0 .. N /\ k # 0
      BY <1>1
    <2>2. \A k \in 0 .. N : f[k] = Def(f)[k]
      BY <1>8
    <2>3. QED
      BY <2>1, <2>2
  <1>10. \A k \in 0 .. N : f[k] \in S
    <2>1. f[0] \in S /\ \A k \in 1 .. N : f[k - 1] \in S => f[k] \in S
      BY <1>2, <1>3, <1>9
    <2>2. QED
      BY <1>1, <2>1, LoopKeeps
  <1>11. N \in 0 .. N
    BY <1>1
  <1>12. QED
    BY <1>4, <1>10, <1>11 DEF S, ScanRange

(* Matches that are taken neither overlap nor touch what is code.          *)
Apart(x, y) == x.to < y.from \/ y.to < x.from

TakenRange(t, styles) ==
    {X \in SUBSET MatchRange(t) :
        /\ \A x, y \in X : x = y \/ Apart(x, y)
        /\ \A x \in X, c \in TakenBy(styles) : Apart(x, c)}

LEMMA TakenTyped ==
    ASSUME NEW t, NEW styles, NEW X \in TakenRange(t, styles), NEW m \in MatchRange(t)
    PROVE  Taken(styles, X, m) \in TakenRange(t, styles)
  <1> DEFINE W == TakenBy(styles) \cup {[from |-> x.from, to |-> x.to] : x \in X}
  <1>1. CASE ~Free(m, W)
    BY <1>1 DEF Taken
  <1>2. CASE Free(m, W)
    <2>1. Taken(styles, X, m) = X \cup {m}
      BY <1>2 DEF Taken
    <2>2. \A c \in TakenBy(styles) : Apart(m, c)
      BY <1>2 DEF Free, Apart
    <2>3. ASSUME NEW x \in X PROVE Apart(m, x) /\ Apart(x, m)
      <3> DEFINE r == [from |-> x.from, to |-> x.to]
      <3>1. r \in W
        OBVIOUS
      <3>2. r.to < m.from \/ m.to < r.from
        <4> HIDE DEF r
        <4>1. QED
          BY <1>2, <3>1 DEF Free
      <3>3. QED
        BY <3>2 DEF Apart
    <2>4. /\ X \in SUBSET MatchRange(t) /\ \A x, y \in X : x = y \/ Apart(x, y)
          /\ \A x \in X, c \in TakenBy(styles) : Apart(x, c)
      BY DEF TakenRange
    <2>5. X \cup {m} \in TakenRange(t, styles)
      BY <2>2, <2>3, <2>4 DEF TakenRange
    <2>6. QED
      BY <2>1, <2>5
  <1>3. QED
    BY <1>1, <1>2

LEMMA InlineIs ==
    ASSUME NEW A, NEW t \in Seq(A), NEW styles
    PROVE  Inline(t, styles) \in TakenRange(t, styles)
  <1> DEFINE M == MatchRange(t)
             all == [k \in DOMAIN Patterns |-> Matches(t, Patterns[k])]
             found == FlattenSeq(all)
             S == TakenRange(t, styles)
             N == Len(found)
             base == {}
             Def(f) == [n \in 0 .. N |-> IF n = 0 THEN {} ELSE Taken(styles, f[n - 1], found[n])]
             f == CHOOSE taken : taken = Def(taken)
             D == [k \in 1 .. N |-> [X \in S |-> Taken(styles, X, found[k])]]
  <1>1. found \in Seq(M) /\ N \in Nat
    <2>1. \A k \in 1 .. 6 : Matches(t, Patterns[k]) \in Seq(M)
      BY MatchesTyped DEF PatternRange
    <2>2. all \in [1 .. 6 -> Seq(M)] /\ 6 \in Nat
      BY <2>1, PatternsAre
    <2> HIDE DEF all, M
    <2>3. all \in Seq(Seq(M))
      BY <2>2, FunctionIsSeq
    <2>4. found \in Seq(M)
      BY <2>3, FlattenTyped
    <2> HIDE DEF found
    <2>5. QED
      BY <2>4
  <1>2. {} \in S
    BY DEF TakenRange
  <1>3. Inline(t, styles) = f[N]
    BY DEF Inline
  <1> HIDE DEF found, M
  <1>4. \A k \in 1 .. N, X \in S : Taken(styles, X, found[k]) \in S
    <2>1. \A k \in 1 .. N : found[k] \in M
      BY <1>1
    <2>2. QED
      BY <2>1, TakenTyped DEF M
  <1> HIDE DEF S, N
  <1>5. D \in Steps(S, N)
    BY <1>4 DEF Steps
  <1>6. PICK g : IsFold(g, {}, D, N) /\ \A k \in 0 .. N : g[k] \in S
    <2> HIDE DEF D
    <2>1. QED
      BY <1>1, <1>2, <1>5, FoldExists
  <1>7. g = Def(g)
    <2>1. \A k \in 0 .. N : k # 0 => k - 1 \in 0 .. N /\ k \in 1 .. N
      BY <1>1
    <2>2. \A k \in 1 .. N : g[k - 1] \in S => D[k][g[k - 1]] = Taken(styles, g[k - 1], found[k])
      OBVIOUS
    <2> HIDE DEF D
    <2>3. \A k \in 0 .. N : (IF k = 0 THEN {} ELSE D[k][g[k - 1]]) = Def(g)[k]
      BY <1>6, <2>1, <2>2
    <2>4. QED
      BY <1>6, <2>3 DEF IsFold
  <1>8. f = Def(f)
    <2> HIDE DEF Def
    <2>1. QED
      BY <1>7
  <1> HIDE DEF f
  <1>9. f[0] = {} /\ \A k \in 1 .. N : f[k] = Taken(styles, f[k - 1], found[k])
    <2>1. 0 \in 0 .. N /\ \A k \in 1 .. N : k \in 0 .. N /\ k # 0
      BY <1>1
    <2>2. \A k \in 0 .. N : f[k] = Def(f)[k]
      BY <1>8
    <2>3. QED
      BY <2>1, <2>2
  <1>10. \A k \in 0 .. N : f[k] \in S
    <2>1. f[0] \in S /\ \A k \in 1 .. N : f[k - 1] \in S => f[k] \in S
      BY <1>2, <1>4, <1>9
    <2>2. QED
      BY <1>1, <2>1, LoopKeeps
  <1>11. N \in 0 .. N
    BY <1>1
  <1>12. QED
    BY <1>3, <1>10, <1>11 DEF S

(* Ranks: how many elements there are up to a place.                       *)
LEMMA RankIs ==
    ASSUME NEW S \in SUBSET Nat, IsFiniteSet(S), NEW a \in Nat, NEW b \in Nat, a <= b
    PROVE  /\ Rank(S, a) \in Nat /\ Rank(S, b) \in Nat /\ Rank(S, a) <= Rank(S, b)
           /\ Rank(S, b) <= Cardinality(S) /\ Cardinality(S) \in Nat
           /\ \A x \in S : a < x /\ x <= b => Rank(S, a) < Rank(S, b)
  <1> DEFINE p == Below(S, a)
             q == Below(S, b)
  <1>1. q \in SUBSET S /\ p \in SUBSET q
    <2>1. \A i \in S : i \in Nat
      OBVIOUS
    <2>2. \A i \in S : i <= a => i <= b
      BY <2>1
    <2>3. QED
      BY <2>2 DEF Below
  <1>2. /\ IsFiniteSet(q) /\ IsFiniteSet(p) /\ Cardinality(p) <= Cardinality(q)
        /\ Cardinality(q) <= Cardinality(S)
        /\ Cardinality(q) = Cardinality(p) => q = p
    BY <1>1, FS_Subset
  <1>3. Cardinality(p) \in Nat /\ Cardinality(q) \in Nat /\ Cardinality(S) \in Nat
    BY <1>2, FS_CardinalityType
  <1>4. ASSUME NEW x \in S, a < x, x <= b PROVE p # q
    <2>1. x \in Nat /\ ~(x <= a)
      BY <1>4
    <2>2. x \in q /\ x \notin p
      BY <1>4, <2>1 DEF Below
    <2>3. QED
      BY <2>2
  <1> HIDE DEF p, q
  <1>5. Rank(S, a) = Cardinality(p) /\ Rank(S, b) = Cardinality(q)
    BY DEF Rank, p, q
  <1> DEFINE m == Cardinality(p)
             n == Cardinality(q)
             c == Cardinality(S)
  <1>6. m \in Nat /\ n \in Nat /\ c \in Nat /\ m <= n /\ n <= c
    BY <1>2, <1>3
  <1>7. \A x \in S : a < x /\ x <= b => m # n
    BY <1>2, <1>4
  <1> HIDE DEF m, n, c
  <1>8. \A x \in S : a < x /\ x <= b => m < n
    BY <1>6, <1>7
  <1>9. QED
    BY <1>5, <1>6, <1>8 DEF m, n, c

(* Without elements in between the rank does not grow.                     *)
LEMMA RankStays ==
    ASSUME NEW S \in SUBSET Nat, NEW a \in Nat, NEW b \in Nat, a <= b,
           \A x \in S : ~(a < x /\ x <= b)
    PROVE  Rank(S, a) = Rank(S, b)
  <1>1. \A x \in S : x <= a <=> x <= b
    <2> SUFFICES ASSUME NEW x \in S PROVE x <= a <=> x <= b
      OBVIOUS
    <2>1. x \in Nat /\ ~(a < x /\ x <= b)
      OBVIOUS
    <2>2. QED
      BY <2>1
  <1>2. Below(S, a) = Below(S, b)
    BY <1>1 DEF Below
  <1>3. QED
    BY <1>2 DEF Rank

(* K is what of the places up to L is not in R.                            *)
Halves(L, R, K) == L \in Nat /\ R \in SUBSET (1 .. L) /\ K = (1 .. L) \ R

(* What is kept and what is removed up to a place is all there is.         *)
LEMMA RanksAdd ==
    ASSUME NEW L, NEW R, NEW K, Halves(L, R, K), NEW x \in 0 .. L
    PROVE  /\ R \in SUBSET Nat /\ K \in SUBSET Nat /\ IsFiniteSet(R) /\ IsFiniteSet(K)
           /\ Rank(R, x) \in Nat /\ Rank(K, x) \in Nat /\ Rank(R, x) + Rank(K, x) = x
  <1> USE DEF Halves
  <1>1. K \in SUBSET (1 .. L)
    OBVIOUS
  <1>2. R \in SUBSET Nat /\ K \in SUBSET Nat /\ IsFiniteSet(R) /\ IsFiniteSet(K)
    BY <1>1, AscendingOf
  <1> DEFINE p == Below(R, x)
             q == Below(K, x)
  <1>3. p \cup q = 1 .. x /\ p \cap q = {}
    <2>1. \A i : i \in 1 .. x <=> i \in 1 .. L /\ i <= x
      OBVIOUS
    <2>2. \A i : i \in 1 .. L <=> i \in R \/ i \in K
      OBVIOUS
    <2>3. \A i : ~(i \in R /\ i \in K)
      OBVIOUS
    <2>4. QED
      BY <2>1, <2>2, <2>3 DEF Below
  <1>4. IsFiniteSet(p) /\ IsFiniteSet(q)
    <2>1. p \in SUBSET R /\ q \in SUBSET K
      BY DEF Below
    <2>2. QED
      BY <1>2, <2>1, FS_Subset
  <1> HIDE DEF p, q
  <1>5. Cardinality(p) \in Nat /\ Cardinality(q) \in Nat
    BY <1>4, FS_CardinalityType
  <1>6. Cardinality(p \cup q) = Cardinality(p) + Cardinality(q) - Cardinality(p \cap q)
    BY <1>4, FS_Union
  <1>7. Cardinality(p \cap q) = 0
    BY <1>3, FS_EmptySet
  <1>8. Cardinality(1 .. x) = x
    <2>1. x \in Int /\ 1 \in Int /\ x \in Nat
      OBVIOUS
    <2>2. Cardinality(1 .. x) = IF 1 > x THEN 0 ELSE x - 1 + 1
      BY <2>1, FS_Interval
    <2>3. QED
      BY <2>1, <2>2
  <1> DEFINE m == Cardinality(p)
             n == Cardinality(q)
  <1>9. m \in Nat /\ n \in Nat /\ x = m + n - 0
    BY <1>3, <1>5, <1>6, <1>7, <1>8
  <1>10. Rank(R, x) = m /\ Rank(K, x) = n
    BY DEF Rank, p, q
  <1> HIDE DEF m, n
  <1>11. m + n = x
    BY <1>9
  <1>12. QED
    BY <1>2, <1>9, <1>10, <1>11

(* _adj counts the characters that are kept up to a place.                 *)
LEMMA AdjustedIs ==
    ASSUME NEW L, NEW R, NEW K, Halves(L, R, K), NEW x \in 0 .. L
    PROVE  Adjusted(x, R) = Rank(K, x)
  <1>1. Adjusted(x, R) = x - Rank(R, x)
    BY DEF Adjusted, Rank, Below
  <1>2. Rank(R, x) \in Nat /\ Rank(K, x) \in Nat /\ Rank(R, x) + Rank(K, x) = x
    BY RanksAdd
  <1> DEFINE m == Rank(R, x)
             n == Rank(K, x)
  <1>3. m \in Nat /\ n \in Nat /\ m + n = x
    BY <1>2
  <1> HIDE DEF m, n
  <1>4. x - m = n
    BY <1>3
  <1>5. QED
    BY <1>1, <1>4 DEF m, n

(* Where nothing is removed every character counts.                        *)
LEMMA NothingRemoved ==
    ASSUME NEW L, NEW R, NEW K, Halves(L, R, K),
           NEW a \in 0 .. L, NEW b \in a .. L, \A x \in a + 1 .. b : x \notin R
    PROVE  a + 1 .. b \subseteq K /\ Rank(K, b) = Rank(K, a) + (b - a)
  <1>1. a \in Nat /\ b \in Nat /\ b \in 0 .. L /\ a <= b
    BY DEF Halves
  <1>2. a + 1 .. b \subseteq K
    BY <1>1 DEF Halves
  <1>3. \A x \in R : ~(a < x /\ x <= b)
    <2> SUFFICES ASSUME NEW x \in R, a < x, x <= b PROVE FALSE
      OBVIOUS
    <2>1. x \in Nat
      BY DEF Halves
    <2>2. x \in a + 1 .. b
      BY <1>1, <2>1
    <2>3. QED
      BY <2>2
  <1>4. R \in SUBSET Nat /\ Rank(R, a) + Rank(K, a) = a /\ Rank(R, b) + Rank(K, b) = b
        /\ Rank(R, a) \in Nat /\ Rank(K, a) \in Nat /\ Rank(K, b) \in Nat
    BY <1>1, RanksAdd
  <1>5. Rank(R, a) = Rank(R, b)
    BY <1>1, <1>3, <1>4, RankStays
  <1> DEFINE m == Rank(R, a)
             p == Rank(K, a)
             q == Rank(K, b)
  <1>6. m \in Nat /\ p \in Nat /\ q \in Nat /\ m + p = a /\ m + q = b
    BY <1>4, <1>5
  <1> HIDE DEF m, p, q
  <1>7. q = p + (b - a)
    BY <1>1, <1>6
  <1>8. QED
    BY <1>2, <1>7 DEF p, q

(* What a text keeps of a part of it.                                      *)
Kept(t, K, a, b) == {Picked(t, K)[k].at : k \in Rank(K, a) + 1 .. Rank(K, b)}
Ats(u) == {u[k].at : k \in 1 .. Len(u)}

LEMMA KeptIs ==
    ASSUME NEW A, NEW t \in Seq(A), Increasing(t), \A i \in 1 .. Len(t) : t[i].at \in Nat,
           NEW K \in SUBSET (1 .. Len(t)), NEW a \in 0 .. Len(t), NEW b \in a .. Len(t)
    PROVE  /\ Rank(K, b) <= Len(Picked(t, K))
           /\ Kept(t, K, a, b) = {t[i].at : i \in a + 1 .. b} \cap Ats(Picked(t, K))
           /\ a + 1 .. b \subseteq K => {t[i].at : i \in a + 1 .. b} \subseteq Ats(Picked(t, K))
  <1> DEFINE plain == Picked(t, K)
             n == Cardinality(K)
             asc == Ascending(K)
             ra == Rank(K, a)
             rb == Rank(K, b)
  <1>1. Len(t) \in Nat /\ DOMAIN t = 1 .. Len(t) /\ a \in Nat /\ b \in Nat /\ a <= b /\ b <= Len(t)
    OBVIOUS
  <1>2. /\ Len(plain) = n /\ n \in Nat /\ K \in SUBSET Nat /\ IsFiniteSet(K)
        /\ \A k \in 1 .. n : asc[k] \in K /\ plain[k] = t[asc[k]]
    <2>1. K \in SUBSET DOMAIN t
      BY <1>1
    <2>2. QED
      BY <2>1, PickedIs
  <1>3. ra \in Nat /\ rb \in Nat /\ rb <= n
    BY <1>1, <1>2, RankIs
  <1>4. \A k \in 1 .. n : Rank(K, asc[k]) = k
    BY <1>2, AscendingIn DEF Rank
  <1>5. ASSUME NEW x \in Nat, NEW k \in 1 .. n PROVE k <= Rank(K, x) <=> asc[k] <= x
    <2> HIDE DEF asc, n, plain
    <2>1. asc[k] \in K /\ asc[k] \in Nat /\ Rank(K, asc[k]) = k /\ k \in Nat
      <3>1. asc[k] \in K /\ Rank(K, asc[k]) = k
        BY <1>2, <1>4
      <3>2. k \in Nat
        BY <1>2
      <3>3. asc[k] \in Nat
        BY <1>2, <3>1
      <3>4. QED
        BY <3>1, <3>2, <3>3
    <2>2. CASE asc[k] <= x
      <3>1. Rank(K, asc[k]) <= Rank(K, x)
        BY <1>2, <2>1, <2>2, RankIs
      <3>2. QED
        BY <2>1, <2>2, <3>1
    <2>3. CASE ~(asc[k] <= x)
      <3>1. x <= asc[k] /\ x < asc[k] /\ asc[k] <= asc[k]
        BY <2>1, <2>3
      <3>2. Rank(K, x) < Rank(K, asc[k]) /\ Rank(K, x) \in Nat
        BY <1>2, <2>1, <3>1, RankIs
      <3> DEFINE r == Rank(K, x)
      <3>3. r \in Nat /\ r < k
        BY <2>1, <3>2
      <3> HIDE DEF r
      <3>4. ~(k <= r)
        BY <2>1, <3>3
      <3>5. QED
        BY <2>3, <3>4 DEF r
    <2>4. QED
      BY <2>2, <2>3
  <1>6. ASSUME NEW k \in 1 .. n PROVE k \in ra + 1 .. rb <=> asc[k] \in a + 1 .. b
    <2>1. (k <= ra <=> asc[k] <= a) /\ (k <= rb <=> asc[k] <= b)
      BY <1>1, <1>5
    <2>2. asc[k] \in Nat /\ k \in Nat
      <3> HIDE DEF asc, n
      <3>1. asc[k] \in K
        BY <1>2
      <3>2. k \in Nat
        BY <1>2
      <3>3. QED
        BY <1>2, <3>1, <3>2
    <2> HIDE DEF asc, ra, rb, n
    <2>3. QED
      BY <1>1, <1>3, <2>1, <2>2
  <1>7. \A i, j \in 1 .. Len(t) : t[i].at = t[j].at => i = j
    <2> SUFFICES ASSUME NEW i \in 1 .. Len(t), NEW j \in 1 .. Len(t), t[i].at = t[j].at, i # j
                 PROVE  FALSE
      OBVIOUS
    <2>1. i < j \/ j < i
      BY <1>1
    <2>2. t[i].at < t[j].at \/ t[j].at < t[i].at
      BY <2>1 DEF Increasing
    <2>3. t[i].at \in Nat /\ t[j].at \in Nat
      OBVIOUS
    <2>4. QED
      BY <2>2, <2>3
  <1>8. \A k \in 1 .. n : asc[k] \in 1 .. Len(t)
    BY <1>2
  <1>9. Kept(t, K, a, b) = {plain[k].at : k \in ra + 1 .. rb}
    BY DEF Kept
  <1>10. Ats(plain) = {plain[k].at : k \in 1 .. n}
    BY <1>2 DEF Ats
  <1>11. \A k \in ra + 1 .. rb : k \in 1 .. n
    <2> HIDE DEF ra, rb, n
    <2>1. QED
      BY <1>2, <1>3
  <1>12. ASSUME NEW i \in K PROVE \E k \in 1 .. n : asc[k] = i
    BY <1>2, AscendingAtRank
  <1> HIDE DEF asc, ra, rb, n, plain
  <1>13. ASSUME NEW k \in ra + 1 .. rb
         PROVE  plain[k].at \in {t[i].at : i \in a + 1 .. b} /\ plain[k].at \in Ats(plain)
    <2>1. k \in 1 .. n /\ asc[k] \in a + 1 .. b /\ plain[k] = t[asc[k]]
      BY <1>2, <1>6, <1>11
    <2>2. QED
      BY <1>10, <2>1
  <1>14. ASSUME NEW i \in a + 1 .. b, NEW k \in 1 .. n, plain[k].at = t[i].at
         PROVE  plain[k].at \in {plain[l].at : l \in ra + 1 .. rb}
    <2>1. i \in 1 .. Len(t) /\ asc[k] \in 1 .. Len(t) /\ t[asc[k]].at = t[i].at
      BY <1>1, <1>2, <1>8, <1>14
    <2>2. asc[k] = i
      BY <1>7, <2>1
    <2>3. k \in ra + 1 .. rb
      BY <1>6, <2>2
    <2>4. QED
      BY <2>3
  <1>15. {plain[k].at : k \in ra + 1 .. rb} = {t[i].at : i \in a + 1 .. b} \cap Ats(plain)
    <2> DEFINE chars == {plain[k].at : k \in ra + 1 .. rb}
               part == {t[i].at : i \in a + 1 .. b}
               places == Ats(plain)
    <2>1. ASSUME NEW x \in chars PROVE x \in part /\ x \in places
      BY ONLY <1>13, <2>1
    <2>2. ASSUME NEW x \in part, x \in places PROVE x \in chars
      <3>1. PICK i \in a + 1 .. b : x = t[i].at
        BY ONLY <2>2
      <3>2. PICK k \in 1 .. n : x = plain[k].at
        BY ONLY <1>10, <2>2
      <3>3. QED
        BY ONLY <1>14, <3>1, <3>2
    <2> HIDE DEF chars, part, places
    <2>3. chars = part \cap places
      BY ONLY <2>1, <2>2
    <2>4. QED
      BY <2>3 DEF chars, part, places
  <1>16. ASSUME a + 1 .. b \subseteq K, NEW i \in a + 1 .. b PROVE t[i].at \in Ats(plain)
    <2>1. PICK k \in 1 .. n : asc[k] = i
      BY <1>12, <1>16
    <2>2. plain[k] = t[i]
      BY <1>2, <2>1
    <2>3. QED
      BY <1>10, <2>2
  <1>17. QED
    BY <1>2, <1>3, <1>9, <1>15, <1>16 DEF plain, rb

(* Code units: an emoji has two.                                           *)
Emoji(u) == {i \in 1 .. Len(u) : u[i].kind = "emoji"}
Width(u, k) == k + Rank(Emoji(u), k)

LEMMA EmojiAre ==
    ASSUME NEW A, NEW u \in Seq(A)
    PROVE  /\ Len(u) \in Nat /\ DOMAIN u = 1 .. Len(u)
           /\ Emoji(u) \in SUBSET (1 .. Len(u)) /\ Emoji(u) \in SUBSET Nat /\ IsFiniteSet(Emoji(u))
  <1>1. Len(u) \in Nat /\ DOMAIN u = 1 .. Len(u)
    OBVIOUS
  <1>2. Emoji(u) \in SUBSET (1 .. Len(u))
    BY DEF Emoji
  <1>3. QED
    BY <1>1, <1>2, AscendingOf

LEMMA WidthGrows ==
    ASSUME NEW A, NEW u \in Seq(A), NEW x \in Nat, NEW y \in Nat
    PROVE  /\ Width(u, x) \in Nat /\ Width(u, y) \in Nat
           /\ x < y => Width(u, x) < Width(u, y)
           /\ x <= y <=> Width(u, x) <= Width(u, y)
  <1> DEFINE S == Emoji(u)
             p == Rank(S, x)
             q == Rank(S, y)
  <1>1. S \in SUBSET Nat /\ IsFiniteSet(S)
    BY EmojiAre
  <1> HIDE DEF S
  <1>2. p \in Nat /\ q \in Nat
    <2>1. x <= x /\ y <= y
      OBVIOUS
    <2>2. QED
      BY <1>1, <2>1, RankIs
  <1>3. (x <= y => p <= q) /\ (y <= x => q <= p)
    BY <1>1, RankIs
  <1>4. Width(u, x) = x + p /\ Width(u, y) = y + q
    BY DEF Width, S
  <1> HIDE DEF p, q
  <1>5. QED
    BY <1>2, <1>3, <1>4

(* _utf16_len of a part of a text.                                         *)
LEMMA Utf16Is ==
    ASSUME NEW A, NEW u \in Seq(A), NEW x \in 0 .. Len(u), NEW y \in x .. Len(u)
    PROVE  Utf16Len(SubSeq(u, x + 1, y)) = Width(u, y) - Width(u, x)
  <1> DEFINE S == Emoji(u)
             z == SubSeq(u, x + 1, y)
             F == {i \in DOMAIN z : z[i].kind = "emoji"}
             G == {j + x : j \in F}
             d == y - x
  <1>1. Len(u) \in Nat /\ x \in Nat /\ y \in Nat /\ x <= y /\ y <= Len(u) /\ d \in Nat
    OBVIOUS
  <1>2. S \in SUBSET Nat /\ IsFiniteSet(S) /\ S \in SUBSET (1 .. Len(u))
    BY EmojiAre
  <1>3. /\ z \in Seq(A) /\ Len(z) = d /\ \A k \in 1 .. d : z[k] = u[x + k]
    <2> DEFINE a == x + 1
    <2>1. a \in Nat \ {0}
      BY <1>1
    <2> HIDE DEF a
    <2>2. /\ SubSeq(u, a, y) \in Seq(A)
          /\ Len(SubSeq(u, a, y)) = IF a <= y THEN y - a + 1 ELSE 0
          /\ \A i \in 1 .. y - a + 1 : SubSeq(u, a, y)[i] = u[a + i - 1]
      BY <1>1, <2>1, SubSeqOf
    <2>3. z = SubSeq(u, a, y) /\ a = x + 1
      BY DEF a
    <2> HIDE DEF z
    <2>4. y - a + 1 = d /\ (IF a <= y THEN y - a + 1 ELSE 0) = d
          /\ \A i \in 1 .. d : a + i - 1 = x + i
      BY <1>1, <2>3
    <2> HIDE DEF d
    <2>5. QED
      BY <2>2, <2>3, <2>4
  <1> HIDE DEF z
  <1>4. DOMAIN z = 1 .. d
    BY <1>3
  <1>5. F = {i \in 1 .. d : u[x + i].kind = "emoji"}
    BY <1>3, <1>4
  <1>6. F \in SUBSET (1 .. d)
    BY <1>5
  <1>7. F \in SUBSET Nat /\ IsFiniteSet(F)
    <2> HIDE DEF F, d
    <2>1. QED
      BY <1>1, <1>6, AscendingOf
  <1>8. IsFiniteSet(G) /\ Cardinality(G) = Cardinality(F)
    <2> HIDE DEF F
    <2>1. QED
      BY <1>1, <1>7, ShiftedSize
  <1> DEFINE P == Below(S, x)
             Q == Below(S, y)
  <1>9. Q = P \cup G /\ P \cap G = {}
    <2>1. ASSUME NEW i \in Q PROVE i \in P \/ i \in G
      <3>1. i \in S /\ i \in 1 .. Len(u) /\ i <= y /\ i \in Nat
        BY <1>1, <1>2 DEF Below
      <3>2. CASE i <= x
        BY <3>1, <3>2 DEF Below
      <3>3. CASE ~(i <= x)
        <4>1. i - x \in 1 .. d /\ x + (i - x) = i /\ (i - x) + x = i
          BY <1>1, <3>1, <3>3
        <4>2. u[i].kind = "emoji"
          BY <3>1 DEF Emoji
        <4>3. i - x \in F
          BY <1>5, <4>1, <4>2
        <4>4. QED
          BY <4>1, <4>3
      <3>4. QED
        BY <3>2, <3>3
    <2>2. ASSUME NEW i \in P PROVE i \in Q /\ i \in Nat /\ i <= x
      <3>1. i \in S /\ i <= x /\ i \in Nat
        BY <1>2 DEF Below
      <3>2. i <= y
        BY <1>1, <3>1
      <3>3. QED
        BY <3>1, <3>2 DEF Below
    <2>3. ASSUME NEW i \in G PROVE i \in Q /\ ~(i <= x)
      <3>1. PICK j \in F : i = j + x
        OBVIOUS
      <3>2. j \in 1 .. d /\ u[x + j].kind = "emoji"
        BY <1>5
      <3>3. i \in 1 .. Len(u) /\ i <= y /\ ~(i <= x) /\ x + j = i
        BY <1>1, <3>1, <3>2
      <3>4. i \in S
        BY <3>2, <3>3 DEF Emoji
      <3>5. QED
        BY <3>3, <3>4 DEF Below
    <2> HIDE DEF P, Q, G
    <2>4. QED
      BY <2>1, <2>2, <2>3
  <1> HIDE DEF G, F
  <1>10. IsFiniteSet(P)
    <2>1. P \in SUBSET S
      BY DEF Below
    <2>2. QED
      BY <1>2, <2>1, FS_Subset
  <1>11. Cardinality(Q) = Cardinality(P) + Cardinality(G) - Cardinality(P \cap G)
    BY <1>8, <1>9, <1>10, FS_Union
  <1>12. Cardinality(P \cap G) = 0
    BY <1>9, FS_EmptySet
  <1> DEFINE p == Cardinality(P)
             q == Cardinality(Q)
             g == Cardinality(G)
  <1>13. p \in Nat /\ g \in Nat /\ q = p + g - 0
    BY <1>8, <1>10, <1>11, <1>12, FS_CardinalityType
  <1>14. Width(u, x) = x + p /\ Width(u, y) = y + q
    BY DEF Width, Rank
  <1>15. Utf16Len(z) = d + g
    BY <1>3, <1>8 DEF Utf16Len, F
  <1> HIDE DEF p, q, g
  <1>16. d + g = (y + q) - (x + p)
    BY <1>1, <1>13
  <1>17. QED
    BY <1>14, <1>15, <1>16 DEF z

(* Counting the units one by one gives the same.                           *)
LEMMA UnitsIs ==
    ASSUME NEW A, NEW u \in Seq(A), NEW k \in 0 .. Len(u)
    PROVE  Units(u)[k] = Width(u, k)
  <1> DEFINE N == Len(u)
             S == Emoji(u)
             one(n) == IF u[n].kind = "emoji" THEN 2 ELSE 1
             Def(f) == [n \in 0 .. N |-> IF n = 0 THEN 0 ELSE f[n - 1] + one(n)]
             f == CHOOSE units : units = Def(units)
             g == [n \in 0 .. N |-> Width(u, n)]
  <1>1. N \in Nat /\ S \in SUBSET Nat /\ IsFiniteSet(S) /\ S \in SUBSET (1 .. N)
    BY EmojiAre
  <1>2. \A n \in Nat : Rank(S, n) \in Nat
    <2>1. \A n \in Nat : n <= n
      OBVIOUS
    <2>2. QED
      BY <1>1, <2>1, RankIs
  <1>3. ASSUME NEW n \in 1 .. N PROVE Width(u, n) = Width(u, n - 1) + one(n)
    <2> DEFINE m == n - 1
    <2>1. n \in Nat /\ m \in Nat /\ m <= n
      BY <1>1
    <2>2. CASE n \notin S
      <3>1. \A x \in S : ~(m < x /\ x <= n)
        <4> SUFFICES ASSUME NEW x \in S, m < x, x <= n PROVE FALSE
          OBVIOUS
        <4>1. x \in Nat
          BY <1>1
        <4>2. x = n
          BY <2>1, <4>1
        <4>3. QED
          BY <2>2, <4>2
      <3> DEFINE a == Rank(S, m)
                 b == Rank(S, n)
      <3>2. a = b
        <4> HIDE DEF S, m
        <4>1. QED
          BY <1>1, <2>1, <3>1, RankStays
      <3>3. one(n) = 1
        BY <2>2 DEF Emoji
      <3>4. Width(u, n) = n + b /\ Width(u, n - 1) = m + a /\ a \in Nat /\ b \in Nat
        BY <1>2, <2>1 DEF Width
      <3> HIDE DEF a, b, one
      <3>5. QED
        BY <2>1, <3>2, <3>3, <3>4
    <2>3. CASE n \in S
      <3> DEFINE P == Below(S, m)
                 Q == Below(S, n)
                 a == Cardinality(P)
                 b == Cardinality(Q)
      <3>1. Q = P \cup {n} /\ n \notin P
        <4>1. \A x \in S : x <= n <=> x <= m \/ x = n
          <5> SUFFICES ASSUME NEW x \in S PROVE x <= n <=> x <= m \/ x = n
            OBVIOUS
          <5>1. x \in Nat
            BY <1>1
          <5>2. QED
            BY <2>1, <5>1
        <4>2. ~(n <= m)
          BY <2>1
        <4> HIDE DEF S, m
        <4>3. QED
          BY <2>3, <4>1, <4>2 DEF Below
      <3>2. IsFiniteSet(P)
        <4>1. P \in SUBSET S
          BY DEF Below
        <4>2. QED
          BY <1>1, <4>1, FS_Subset
      <3> HIDE DEF P, Q
      <3>3. b = a + 1 /\ a \in Nat
        BY <3>1, <3>2, FS_AddElement, FS_CardinalityType
      <3>4. one(n) = 2
        BY <2>3 DEF Emoji
      <3>5. Width(u, n) = n + b /\ Width(u, n - 1) = m + a
        BY DEF Width, Rank, P, Q
      <3> HIDE DEF a, b, one
      <3>6. QED
        BY <2>1, <3>3, <3>4, <3>5
    <2>4. QED
      BY <2>2, <2>3
  <1>4. Width(u, 0) = 0
    <2>1. Below(S, 0) = {}
      <3>1. \A x \in S : ~(x <= 0)
        BY <1>1
      <3>2. QED
        BY <3>1 DEF Below
    <2>2. Rank(S, 0) = 0
      BY <2>1, FS_EmptySet DEF Rank
    <2>3. QED
      BY <2>2 DEF Width
  <1> HIDE DEF one
  <1>5. g = Def(g)
    <2>1. \A n \in 0 .. N : n # 0 => n \in 1 .. N /\ n - 1 \in 0 .. N
      BY <1>1
    <2>2. \A n \in 0 .. N : Width(u, n) = IF n = 0 THEN 0 ELSE g[n - 1] + one(n)
      BY <1>3, <1>4, <2>1
    <2>3. QED
      BY <2>2
  <1>6. f = Def(f)
    <2> HIDE DEF Def, g
    <2>1. QED
      BY <1>5
  <1>7. Units(u) = f
    BY DEF Units, one
  <1> HIDE DEF f
  <1>8. f[0] = 0 /\ \A n \in 1 .. N : f[n] = f[n - 1] + one(n)
    <2>1. 0 \in 0 .. N /\ \A n \in 1 .. N : n \in 0 .. N /\ n # 0
      BY <1>1
    <2>2. \A n \in 0 .. N : f[n] = Def(f)[n]
      BY <1>6
    <2>3. QED
      BY <2>1, <2>2
  <1> DEFINE T == {n \in 0 .. N : f[n] = Width(u, n)}
  <1>9. 0 \in T /\ \A n \in 1 .. N : n - 1 \in T => n \in T
    BY <1>1, <1>3, <1>4, <1>8
  <1>10. k \in T
    <2> HIDE DEF T
    <2>1. QED
      BY <1>1, <1>9, UpTo
  <1>11. QED
    BY <1>7, <1>10

(* What a style covers whose bounds are those of two places.               *)
LEMMA CoveredIs ==
    ASSUME NEW A, NEW u \in Seq(A), NEW x \in 0 .. Len(u), NEW y \in x .. Len(u),
           NEW s, s.start = Width(u, x), s.start + s.len = Width(u, y)
    PROVE  Covered(u, s) = {u[k].at : k \in x + 1 .. y}
  <1>1. Len(u) \in Nat /\ DOMAIN u = 1 .. Len(u) /\ x \in Nat /\ y \in Nat /\ y <= Len(u)
    OBVIOUS
  <1>2. ASSUME NEW i \in 1 .. Len(u)
        PROVE  (Units(u)[i - 1] >= s.start /\ Units(u)[i] <= s.start + s.len) <=> i \in x + 1 .. y
    <2> DEFINE h == i - 1
    <2>1. h \in 0 .. Len(u) /\ i \in 0 .. Len(u) /\ h \in Nat /\ i \in Nat
      BY <1>1
    <2> HIDE DEF h
    <2>2. Units(u)[h] = Width(u, h) /\ Units(u)[i] = Width(u, i)
      BY <2>1, UnitsIs
    <2>3. (x <= h <=> Width(u, x) <= Width(u, h)) /\ Width(u, x) \in Nat /\ Width(u, h) \in Nat
      BY <1>1, <2>1, WidthGrows
    <2>4. i <= y <=> Width(u, i) <= Width(u, y)
      BY <1>1, <2>1, WidthGrows
    <2>5. Width(u, h) >= Width(u, x) <=> Width(u, x) <= Width(u, h)
      BY <2>3
    <2>6. (x <= h /\ i <= y) <=> i \in x + 1 .. y
      BY <1>1, <2>1 DEF h
    <2>7. QED
      BY <2>2, <2>3, <2>4, <2>5, <2>6 DEF h
  <1> DEFINE I == {i \in DOMAIN u : /\ Units(u)[i - 1] >= s.start
                                    /\ Units(u)[i] <= s.start + s.len}
  <1>3. I = x + 1 .. y
    <2>1. \A i \in x + 1 .. y : i \in 1 .. Len(u)
      BY <1>1
    <2>2. QED
      BY <1>1, <1>2, <2>1
  <1>4. Covered(u, s) = {u[k].at : k \in I}
    BY DEF Covered
  <1> HIDE DEF I
  <1>5. QED
    BY <1>3, <1>4

(* A style is on what is left of a part of the text, code on all of it.    *)
Placed(t, K, s) ==
    /\ s \in StyleRange
    /\ \E a \in 0 .. Len(t) : \E b \in a .. Len(t) :
          /\ s.start = Rank(K, a) /\ s.start + s.len = Rank(K, b)
          /\ s.of = {t[i].at : i \in a + 1 .. b}
          /\ s.style = "MONOSPACE" => a + 1 .. b \subseteq K

(* What is removed are the markers of the matches.                         *)
Markers(m) == m.from .. m.from + m.pattern.n - 1 \cup m.to - m.pattern.n + 1 .. m.to

LEMMA RemovalsAre ==
    ASSUME NEW t, Len(t) \in Nat, NEW X \in SUBSET MatchRange(t)
    PROVE  /\ Removals(X) \in SUBSET (1 .. Len(t))
           /\ \A x \in Removals(X) : \E m \in X : x \in Markers(m)
           /\ \A m \in X : /\ m.pattern.n \in {1, 2} /\ m.from \in Nat /\ m.to \in Nat
                           /\ 1 <= m.from /\ m.to <= Len(t)
                           /\ m.from + m.pattern.n + m.pattern.n <= m.to
                           /\ \A x \in Markers(m) : x \in Nat /\ m.from <= x /\ x <= m.to
  <1>1. \A x \in Removals(X) : \E m \in X : x \in Markers(m)
    BY DEF Removals, Markers
  <1>2. ASSUME NEW m \in X
        PROVE  /\ m.pattern.n \in {1, 2} /\ m.from \in Nat /\ m.to \in Nat
               /\ 1 <= m.from /\ m.to <= Len(t)
               /\ m.from + m.pattern.n + m.pattern.n <= m.to
               /\ \A x \in Markers(m) : x \in Nat /\ m.from <= x /\ x <= m.to
    <2>1. /\ m.from \in 1 .. Len(t) /\ m.to \in 1 .. Len(t) /\ m.pattern \in PatternRange
          /\ m.from + m.pattern.n + m.pattern.n <= m.to
      BY DEF MatchRange
    <2>2. m.pattern.n \in {1, 2}
      BY <2>1, PatternsAre
    <2> DEFINE a == m.from
               b == m.to
               n == m.pattern.n
    <2>3. a \in Nat /\ b \in Nat /\ n \in {1, 2} /\ 1 <= a /\ b <= Len(t) /\ a + n + n <= b
      BY <2>1, <2>2
    <2>4. Markers(m) = a .. a + n - 1 \cup b - n + 1 .. b
      BY DEF Markers
    <2> HIDE DEF a, b, n
    <2>5. \A x \in Markers(m) : x \in Nat /\ a <= x /\ x <= b
      BY <2>3, <2>4
    <2>6. QED
      BY <2>3, <2>5 DEF a, b, n
  <1>3. ASSUME NEW x \in Removals(X) PROVE x \in 1 .. Len(t)
    <2>1. PICK m \in X : x \in Markers(m)
      BY <1>1
    <2>2. x \in Nat /\ m.from <= x /\ x <= m.to /\ 1 <= m.from /\ m.to <= Len(t)
          /\ m.from \in Nat /\ m.to \in Nat
      BY <1>2, <2>1
    <2> DEFINE a == m.from
               b == m.to
    <2> HIDE DEF a, b
    <2>3. x \in Nat /\ a <= x /\ x <= b /\ 1 <= a /\ b <= Len(t) /\ a \in Nat /\ b \in Nat
      BY <2>2 DEF a, b
    <2>4. QED
      BY <2>3
  <1>4. QED
    BY <1>1, <1>2, <1>3

(* The styles of the first two phases, adjusted.                           *)
LEMMA PriorPlaced ==
    ASSUME NEW A, NEW t \in Seq(A), NEW styles \in SUBSET StyleRange,
           NEW X \in TakenRange(t, styles), NEW R, R = Removals(X),
           NEW K, Halves(Len(t), R, K), NEW s \in styles, OnPlace(t, s)
    PROVE  Placed(t, K, [s EXCEPT !.start = Adjusted(s.start, R),
                                  !.len = Adjusted(s.start + s.len, R) - Adjusted(s.start, R)])
  <1> DEFINE a == s.start
             b == s.start + s.len
             p == Adjusted(a, R)
             q == Adjusted(b, R)
             new == [s EXCEPT !.start = p, !.len = q - p]
  <1>1. /\ s \in StyleRange /\ s.start \in Nat /\ s.len \in Nat /\ Len(t) \in Nat
        /\ X \in SUBSET MatchRange(t)
    BY DEF StyleRange, TakenRange
  <1>2. a \in 0 .. Len(t) /\ b \in a .. Len(t) /\ b \in 0 .. Len(t) /\ a \in Nat /\ b \in Nat /\ a <= b
    BY <1>1 DEF OnPlace
  <1>3. s.of = {t[i].at : i \in a + 1 .. b}
    BY DEF OnPlace
  <1>4. s.style = "MONOSPACE" => \A x \in a + 1 .. b : x \notin R
    <2> SUFFICES ASSUME s.style = "MONOSPACE", NEW x \in a + 1 .. b, x \in R PROVE FALSE
      OBVIOUS
    <2>1. PICK m \in X : x \in Markers(m)
      BY <1>1, RemovalsAre
    <2>2. x \in Nat /\ m.from <= x /\ x <= m.to /\ m.from \in Nat /\ m.to \in Nat
      BY <1>1, <2>1, RemovalsAre
    <2> DEFINE c == [from |-> s.start + 1, to |-> s.start + s.len]
    <2>3. c \in TakenBy(styles)
      BY DEF TakenBy
    <2>4. Apart(m, c)
      <3> HIDE DEF c
      <3>1. QED
        BY <2>3 DEF TakenRange
    <2>5. m.to < a + 1 \/ b < m.from
      BY <2>4 DEF Apart
    <2> DEFINE e == m.from
               g == m.to
    <2>6. e <= x /\ x <= g /\ e \in Nat /\ g \in Nat /\ (g < a + 1 \/ b < e)
      BY <2>2, <2>5
    <2> HIDE DEF a, b, e, g
    <2>7. QED
      BY <1>2, <2>2, <2>6
  <1> HIDE DEF a, b
  <1>5. p = Rank(K, a) /\ q = Rank(K, b)
    BY <1>2, AdjustedIs
  <1>6. p \in Nat /\ q \in Nat /\ p <= q
    <2>1. K \in SUBSET Nat /\ IsFiniteSet(K)
      BY <1>2, RanksAdd
    <2>2. QED
      BY <1>2, <1>5, <2>1, RankIs
  <1> HIDE DEF p, q
  <1>7. q - p \in Nat /\ p + (q - p) = q
    BY <1>6
  <1>8. /\ new \in StyleRange /\ new.start = p /\ new.len = q - p /\ new.of = s.of
        /\ new.style = s.style
    BY <1>1, <1>6, <1>7 DEF StyleRange
  <1> HIDE DEF new
  <1>9. new.start = Rank(K, a) /\ new.start + new.len = Rank(K, b)
    BY <1>5, <1>7, <1>8
  <1>10. new.style = "MONOSPACE" => a + 1 .. b \subseteq K
    <2> SUFFICES ASSUME new.style = "MONOSPACE" PROVE a + 1 .. b \subseteq K
      OBVIOUS
    <2>1. \A x \in a + 1 .. b : x \notin R
      BY <1>4, <1>8
    <2>2. QED
      BY <1>2, <2>1, NothingRemoved
  <1>11. Placed(t, K, new)
    BY <1>2, <1>3, <1>8, <1>9, <1>10 DEF Placed
  <1>12. QED
    BY <1>11 DEF new, p, q, a, b

(* The styles of the inline patterns.                                      *)
LEMMA InlinePlaced ==
    ASSUME NEW T, Numbered(T), NEW t \in Seq(Chars(T)), NEW styles,
           NEW X \in TakenRange(t, styles), NEW R, R = Removals(X),
           NEW K, Halves(Len(t), R, K), NEW m \in X
    PROVE  Placed(t, K, Style(Cardinality({i \in K : i < m.from + m.pattern.n}),
                              SubSeq(t, m.from + m.pattern.n, m.to - m.pattern.n),
                              m.pattern.style))
  <1> DEFINE n == m.pattern.n
             first == m.from + n
             a == first - 1
             b == m.to - n
             z == SubSeq(t, first, b)
             start == Cardinality({i \in K : i < first})
             st == Style(start, z, m.pattern.style)
             d == b - a
  <1>1. /\ Len(t) \in Nat /\ X \in SUBSET MatchRange(t)
        /\ \A x, y \in X : x = y \/ Apart(x, y)
    BY DEF TakenRange
  <1>2. /\ n \in {1, 2} /\ m.from \in Nat /\ m.to \in Nat /\ 1 <= m.from /\ m.to <= Len(t)
        /\ m.from + n + n <= m.to
    BY <1>1, RemovalsAre
  <1>3. /\ a \in 0 .. Len(t) /\ b \in a .. Len(t) /\ a \in Nat /\ b \in Nat /\ a <= b
        /\ first = a + 1 /\ first \in Nat \ {0} /\ d \in Nat /\ b <= Len(t)
        /\ b - first + 1 = d /\ (IF first <= b THEN b - first + 1 ELSE 0) = d
        /\ \A i \in 1 .. d : first + i - 1 = a + i
    <2> DEFINE f == m.from
               g == m.to
    <2>1. n \in {1, 2} /\ f \in Nat /\ g \in Nat /\ 1 <= f /\ g <= Len(t) /\ f + n + n <= g
      BY <1>2
    <2>2. first = f + n /\ a = f + n - 1 /\ b = g - n /\ d = (g - n) - (f + n - 1)
      BY <1>2
    <2> HIDE DEF n, f, g, first, a, b, d
    <2>3. QED
      BY <1>1, <2>1, <2>2
  <1>4. m.pattern.style \in {"MONOSPACE", "BOLD", "STRIKETHROUGH", "ITALIC"}
    BY PatternsAre DEF TakenRange, MatchRange
  <1>5. \A x \in a + 1 .. b : x \notin R
    <2> SUFFICES ASSUME NEW x \in a + 1 .. b, x \in R PROVE FALSE
      OBVIOUS
    <2>1. PICK l \in X : x \in Markers(l)
      BY <1>1, RemovalsAre
    <2>2. x \in Nat /\ l.from <= x /\ x <= l.to /\ l.from \in Nat /\ l.to \in Nat
      BY <1>1, <2>1, RemovalsAre
    <2> DEFINE f == m.from
               g == m.to
    <2>3. a = f + n - 1 /\ b = g - n /\ f \in Nat /\ g \in Nat /\ n \in {1, 2}
      BY <1>2
    <2>4. CASE l = m
      <3>1. x \in f .. f + n - 1 \/ x \in g - n + 1 .. g
        BY <2>1, <2>4 DEF Markers
      <3> HIDE DEF a, b, f, g, n
      <3>2. QED
        BY <1>3, <2>3, <3>1
    <2>5. CASE l # m
      <3>1. l.to < f \/ g < l.from
        BY <1>1, <2>5 DEF Apart
      <3> DEFINE c == l.from
                 e == l.to
      <3>2. c <= x /\ x <= e /\ c \in Nat /\ e \in Nat /\ (e < f \/ g < c)
        BY <2>2, <3>1
      <3> HIDE DEF a, b, f, g, n, c, e
      <3>3. QED
        BY <1>3, <2>3, <3>2
    <2>6. QED
      BY <2>4, <2>5
  <1>6. start = Rank(K, a)
    <2>1. \A i \in K : i \in Nat
      BY DEF Halves
    <2> HIDE DEF first, a
    <2>2. \A i \in K : i < first <=> i <= a
      BY <1>3, <2>1
    <2>3. {i \in K : i < first} = Below(K, a)
      BY <2>2 DEF Below
    <2>4. QED
      BY <2>3 DEF Rank
  <1> HIDE DEF n, first, a, b, d, start
  <1>7. /\ z \in Seq(Chars(T)) /\ Len(z) = d /\ \A i \in 1 .. d : z[i] = t[a + i]
    <2>1. /\ z \in Seq(Chars(T))
          /\ Len(z) = IF first <= b THEN b - first + 1 ELSE 0
          /\ \A i \in 1 .. b - first + 1 : z[i] = t[first + i - 1]
      BY <1>3, SubSeqOf
    <2> HIDE DEF z
    <2>2. Len(z) = d
      BY <1>3, <2>1
    <2>3. \A i \in 1 .. d : z[i] = t[first + i - 1]
      BY <1>3, <2>1
    <2>4. \A i \in 1 .. d : first + i - 1 = a + i
      BY <1>3
    <2>5. QED
      BY <2>1, <2>2, <2>3, <2>4
  <1> HIDE DEF z
  <1>8. a + 1 .. b \subseteq K /\ Rank(K, b) = Rank(K, a) + d
    <2>1. a + 1 .. b \subseteq K /\ Rank(K, b) = Rank(K, a) + (b - a)
      BY <1>3, <1>5, NothingRemoved
    <2>2. QED
      BY <2>1 DEF d
  <1>9. Rank(K, a) \in Nat
    BY <1>3, RanksAdd
  <1>10. /\ st \in StyleRange /\ st.start = start /\ st.len = d
         /\ st.of = {z[i].at : i \in 1 .. Len(z)}
    <2> DEFINE style == m.pattern.style
    <2>1. /\ start \in Nat /\ z \in Seq(Chars(T)) /\ Len(z) = d /\ st = Style(start, z, style)
          /\ style \in {"MONOSPACE", "BOLD", "STRIKETHROUGH", "ITALIC"}
      BY <1>4, <1>6, <1>7, <1>9
    <2> HIDE DEF style, st, z, start, d
    <2>2. /\ Style(start, z, style) \in StyleRange
          /\ Style(start, z, style).start = start /\ Style(start, z, style).len = Len(z)
          /\ Style(start, z, style).of = {z[i].at : i \in 1 .. Len(z)}
      BY ONLY <2>1, Numbered(T), StyleTyped
    <2>3. QED
      BY ONLY <2>1, <2>2
  <1>11. {z[i].at : i \in 1 .. d} = {t[i].at : i \in a + 1 .. b}
    <2>1. ASSUME NEW i \in 1 .. d PROVE z[i].at \in {t[j].at : j \in a + 1 .. b}
      <3>1. a + i \in a + 1 .. b
        BY <1>3 DEF d
      <3>2. QED
        BY <1>7, <3>1
    <2>2. ASSUME NEW j \in a + 1 .. b PROVE t[j].at \in {z[i].at : i \in 1 .. d}
      <3>1. j - a \in 1 .. d /\ a + (j - a) = j
        BY <1>3 DEF d
      <3>2. z[j - a] = t[j]
        BY <1>7, <3>1
      <3>3. QED
        BY <3>1, <3>2
    <2>3. QED
      BY <2>1, <2>2
  <1> HIDE DEF st
  <1>12. st.of = {t[i].at : i \in a + 1 .. b}
    BY <1>7, <1>10, <1>11
  <1>13. st.start = Rank(K, a) /\ st.start + st.len = Rank(K, b)
    BY <1>6, <1>8, <1>10
  <1>14. Placed(t, K, st)
    BY <1>3, <1>8, <1>10, <1>12, <1>13 DEF Placed
  <1>15. QED
    BY <1>14 DEF st, start, z, b, first, n

(* A style is where it should be: it covers what is left of what it is     *)
(* for, and code is left whole.                                            *)
RightlyOn(plain, s) ==
    /\ Covered(plain, s) = s.of \cap Ats(plain)
    /\ s.style = "MONOSPACE" => s.of \subseteq Ats(plain)

(* In code units.                                                          *)
InUnits(plain, s) ==
    [s EXCEPT !.start = Utf16Len(SubSeq(plain, 1, s.start)),
              !.len = Utf16Len(SubSeq(plain, s.start + 1, s.start + s.len))]

LEMMA InUnitsIs ==
    ASSUME NEW A, NEW t \in Seq(A), Increasing(t), \A i \in 1 .. Len(t) : t[i].at \in Nat,
           NEW K \in SUBSET (1 .. Len(t)), NEW s, Placed(t, K, s)
    PROVE  RightlyOn(Picked(t, K), InUnits(Picked(t, K), s))
  <1> DEFINE plain == Picked(t, K)
             x == s.start
             y == s.start + s.len
             p == Utf16Len(SubSeq(plain, 1, x))
             l == Utf16Len(SubSeq(plain, x + 1, y))
             new == [s EXCEPT !.start = p, !.len = l]
  <1> DEFINE On(a, b) ==
                /\ x = Rank(K, a) /\ y = Rank(K, b) /\ s.of = {t[i].at : i \in a + 1 .. b}
                /\ s.style = "MONOSPACE" => a + 1 .. b \subseteq K
  <1>0. PICK a \in 0 .. Len(t) : \E b \in a .. Len(t) : On(a, b)
    BY DEF Placed
  <1>1. PICK b \in a .. Len(t) : On(a, b)
    BY <1>0
  <1>2. /\ y <= Len(plain)
        /\ {plain[k].at : k \in x + 1 .. y} = s.of \cap Ats(plain)
        /\ s.style = "MONOSPACE" => s.of \subseteq Ats(plain)
    <2>1. /\ Rank(K, b) <= Len(plain)
          /\ Kept(t, K, a, b) = {t[i].at : i \in a + 1 .. b} \cap Ats(plain)
          /\ a + 1 .. b \subseteq K => {t[i].at : i \in a + 1 .. b} \subseteq Ats(plain)
      BY KeptIs
    <2>2. Kept(t, K, a, b) = {plain[k].at : k \in x + 1 .. y}
      BY <1>1 DEF Kept
    <2> HIDE DEF plain, x, y
    <2>3. QED
      BY <1>1, <2>1, <2>2
  <1>3. s \in StyleRange /\ x \in Nat /\ s.len \in Nat /\ y \in Nat /\ x <= y
    BY DEF Placed, StyleRange
  <1>4. plain \in Seq(A) /\ Len(plain) \in Nat
    <2>1. K \in SUBSET DOMAIN t
      OBVIOUS
    <2>2. plain \in Seq(A)
      BY <2>1, PickedIs
    <2> HIDE DEF plain
    <2>3. QED
      BY <2>2
  <1> HIDE DEF plain, x, y
  <1>5. x \in 0 .. Len(plain) /\ y \in x .. Len(plain) /\ 0 \in 0 .. Len(plain) /\ x \in 0 .. Len(plain)
    BY <1>2, <1>3, <1>4
  <1>6. l = Width(plain, y) - Width(plain, x)
    BY <1>4, <1>5, Utf16Is
  <1>7. p = Width(plain, x)
    <2>1. x \in 0 .. Len(plain) /\ 0 + 1 = 1
      BY <1>5
    <2>2. Utf16Len(SubSeq(plain, 0 + 1, x)) = Width(plain, x) - Width(plain, 0)
      BY <1>4, <1>5, Utf16Is
    <2>3. Width(plain, 0) = 0
      <3>1. Emoji(plain) \in SUBSET (1 .. Len(plain))
        BY <1>4, EmojiAre
      <3>2. \A i \in Emoji(plain) : ~(i <= 0)
        BY <1>4, <3>1
      <3>3. Below(Emoji(plain), 0) = {}
        BY <3>2 DEF Below
      <3>4. Rank(Emoji(plain), 0) = 0
        BY <3>3, FS_EmptySet DEF Rank
      <3>5. QED
        BY <3>4 DEF Width
    <2>4. Width(plain, x) \in Nat
      BY <1>3, <1>4, WidthGrows
    <2> DEFINE w == Width(plain, x)
    <2>5. w \in Nat /\ p = w - 0
      BY <2>1, <2>2, <2>3, <2>4
    <2> HIDE DEF p, w
    <2>6. p = w
      BY <2>5
    <2>7. QED
      BY <2>6 DEF w
  <1>8. /\ Width(plain, x) \in Nat /\ Width(plain, y) \in Nat
        /\ Width(plain, x) <= Width(plain, y)
    BY <1>3, <1>4, WidthGrows
  <1> HIDE DEF p, l
  <1>9. /\ new.start = p /\ new.len = l /\ new.of = s.of /\ new.style = s.style
    BY <1>3 DEF StyleRange
  <1>10. p + l = Width(plain, y)
    <2> DEFINE w == Width(plain, x)
               v == Width(plain, y)
    <2>1. w \in Nat /\ v \in Nat /\ p = w /\ l = v - w
      BY <1>6, <1>7, <1>8
    <2> HIDE DEF w, v
    <2>2. p + l = v
      BY <2>1
    <2>3. QED
      BY <2>2 DEF v
  <1> HIDE DEF new
  <1>11. new.start = Width(plain, x) /\ new.start + new.len = Width(plain, y)
    BY <1>7, <1>9, <1>10
  <1>12. Covered(plain, new) = {plain[k].at : k \in x + 1 .. y}
    BY <1>4, <1>5, <1>11, CoveredIs
  <1>13. RightlyOn(plain, new)
    BY <1>2, <1>9, <1>12 DEF RightlyOn
  <1>14. InUnits(plain, s) = new
    BY DEF InUnits, new, p, l, x, y
  <1>15. QED
    BY <1>13, <1>14 DEF plain

(* What goes into the last phase.                                          *)
LEMMA HeadedOf ==
    ASSUME NEW T, Numbered(T), ~TickBeforeFence(T), NEW blocks, blocks = CodeBlocks(Normalized(T)),
           ~HeadingUpToCode(blocks), ~HeadingOfHeading(blocks.text),
           NEW headed, headed = HeadingsStripped(blocks.text, blocks.styles)
    PROVE  /\ headed \in [text : Seq(Chars(T)), styles : SUBSET StyleRange]
           /\ Increasing(headed.text) /\ \A s \in headed.styles : OnPlace(headed.text, s)
  <1> DEFINE t == Normalized(T)
  <1>1. t \in Seq(Chars(T)) /\ Increasing(t) /\ Follows(T, t, 0)
    BY NormalizedOf
  <1> HIDE DEF t
  <1>2. PICK h : Blocked(T, CodeBlocks(t), h)
    BY <1>1, CodeBlocksOf
  <1>3. Blocked(T, blocks, h)
    BY <1>2 DEF t
  <1>4. QED
    BY <1>3, HeadingsOf

LEMMA MarkdownIs ==
    ASSUME NEW T, Numbered(T), ~TickBeforeFence(T),
           ~HeadingUpToCode(CodeBlocks(Normalized(T))),
           ~HeadingOfHeading(CodeBlocks(Normalized(T)).text)
    PROVE  /\ DOMAIN MarkdownToSignal(T).text = 1 .. Len(MarkdownToSignal(T).text)
           /\ \A s \in MarkdownToSignal(T).styles : RightlyOn(MarkdownToSignal(T).text, s)
  <1> DEFINE blocks == CodeBlocks(Normalized(T))
             headed == HeadingsStripped(blocks.text, blocks.styles)
             t == headed.text
             styles == headed.styles
             X == Inline(t, styles)
             R == Removals(X)
             K == DOMAIN t \ R
             plain == Picked(t, K)
             priorOf(s) == [s EXCEPT !.start = Adjusted(s.start, R),
                                !.len = Adjusted(s.start + s.len, R) - Adjusted(s.start, R)]
             inlineOf(m) == Style(Cardinality({i \in K : i < m.from + m.pattern.n}),
                                  SubSeq(t, m.from + m.pattern.n, m.to - m.pattern.n),
                                  m.pattern.style)
             prior == {priorOf(s) : s \in styles}
             inline == {inlineOf(m) : m \in X}
             valid == {s \in prior : s.len > 0} \cup inline
             all == {InUnits(plain, s) : s \in {r \in valid : r.start + r.len <= Len(plain)}}
  <1>1. MarkdownToSignal(T) = [text |-> plain, styles |-> all]
    BY DEF MarkdownToSignal, InUnits
  <1>2. /\ t \in Seq(Chars(T)) /\ styles \in SUBSET StyleRange
        /\ Increasing(t) /\ \A s \in styles : OnPlace(t, s)
    <2>1. /\ headed \in [text : Seq(Chars(T)), styles : SUBSET StyleRange]
          /\ Increasing(headed.text) /\ \A s \in headed.styles : OnPlace(headed.text, s)
      BY HeadedOf
    <2> HIDE DEF headed
    <2>2. QED
      BY <2>1
  <1> HIDE DEF blocks, headed
  <1> HIDE DEF t, styles
  <1>3. Len(t) \in Nat /\ DOMAIN t = 1 .. Len(t) /\ \A i \in 1 .. Len(t) : t[i].at \in Nat
    <2>1. \A c \in Chars(T) : c.at \in Nat
      BY CharsOf
    <2>2. QED
      BY <1>2, <2>1
  <1>4. X \in TakenRange(t, styles)
    BY <1>2, InlineIs
  <1> HIDE DEF X
  <1>5. R \in SUBSET (1 .. Len(t))
    <2>1. X \in SUBSET MatchRange(t)
      BY <1>4 DEF TakenRange
    <2>2. QED
      BY <1>3, <2>1, RemovalsAre
  <1>6. R = Removals(X)
    OBVIOUS
  <1> HIDE DEF R
  <1>7. Halves(Len(t), R, K) /\ K \in SUBSET (1 .. Len(t)) /\ K \in SUBSET DOMAIN t
    BY <1>3, <1>5 DEF Halves
  <1> HIDE DEF K
  <1>8. \A s \in styles : Placed(t, K, priorOf(s))
    BY <1>2, <1>4, <1>6, <1>7, PriorPlaced
  <1>9. \A m \in X : Placed(t, K, inlineOf(m))
    BY <1>2, <1>4, <1>6, <1>7, InlinePlaced
  <1>10. \A s \in valid : Placed(t, K, s)
    <2> HIDE DEF priorOf, inlineOf
    <2>1. QED
      BY <1>8, <1>9
  <1> HIDE DEF valid, priorOf, inlineOf
  <1>11. \A s \in valid : RightlyOn(plain, InUnits(plain, s))
    BY <1>2, <1>3, <1>7, <1>10, InUnitsIs
  <1>12. plain \in Seq(Chars(T))
    BY <1>2, <1>7, PickedIs
  <1> HIDE DEF plain
  <1>13. DOMAIN plain = 1 .. Len(plain)
    BY <1>12
  <1>14. \A s \in all : RightlyOn(plain, s)
    BY <1>11
  <1> HIDE DEF all
  <1>15. QED
    BY <1>1, <1>13, <1>14

LEMMA MarkdownOut ==
    ASSUME IInv, Styled
    PROVE  /\ DOMAIN Out.text = 1 .. Len(Out.text) /\ Surviving = Ats(Out.text)
           /\ \A s \in Out.styles : RightlyOn(Out.text, s)
  <1>1. job \in MarkdownJobs /\ Out = MarkdownToSignal(job.text)
    <2>1. job.of = "markdown" /\ Done("markdown")
      BY DEF Styled, Done
    <2>2. job \in MarkdownJobs
      BY <2>1, JobAssumption DEF IInv, Jobs
    <2>3. Out = ResultOf(job)
      BY <2>1 DEF IInv, Done, Out
    <2>4. QED
      BY <2>1, <2>2, <2>3 DEF ResultOf
  <1>2. Numbered(job.text)
    BY <1>1, JobAssumption DEF Numbered
  <1> DEFINE T == job.text
  <1>3. /\ Numbered(T) /\ ~TickBeforeFence(T) /\ ~HeadingUpToCode(CodeBlocks(Normalized(T)))
        /\ ~HeadingOfHeading(CodeBlocks(Normalized(T)).text)
    BY <1>2 DEF Styled, Blocks
  <1> HIDE DEF T
  <1>4. /\ DOMAIN MarkdownToSignal(T).text = 1 .. Len(MarkdownToSignal(T).text)
        /\ \A s \in MarkdownToSignal(T).styles : RightlyOn(MarkdownToSignal(T).text, s)
    BY <1>3, MarkdownIs
  <1>5. Out = MarkdownToSignal(T)
    BY <1>1 DEF T
  <1>6. Surviving = {Out.text[k].at : k \in DOMAIN Out.text}
    BY DEF Surviving
  <1>7. QED
    BY <1>4, <1>5, <1>6 DEF Ats

(* Each style is on exactly those characters it was found for that are     *)
(* still there, after all markers have been removed and wherever emoji     *)
(* stand: the offsets that the three phases record and _adj and _utf16_len *)
(* rework hit (signal_client.py:96-216).  Left out are a heading in front  *)
(* of a code block or in it, a heading whose text is the next heading, and *)
(* code that ends in ticks which make a fence with those behind it.        *)
THEOREM StylesOnContent == Spec => []StylesCoverContent
  <1>1. IInv => StylesCoverContent
    <2> SUFFICES ASSUME IInv, Styled, NEW s \in Out.styles
                 PROVE  Covered(Out.text, s) = s.of \cap Surviving
      BY DEF StylesCoverContent
    <2>1. Surviving = Ats(Out.text) /\ RightlyOn(Out.text, s)
      BY MarkdownOut
    <2>2. QED
      BY <2>1 DEF RightlyOn
  <1>2. QED
    BY <1>1, ResultInvariance, PTL

(* Nothing in code is taken for inline markup: whatever a code style is    *)
(* for is still in the text that is sent (signal_client.py:148-176), but   *)
(* for the shapes left out above.                                          *)
THEOREM CodeLiteral == Spec => []CodeStaysLiteral
  <1>1. IInv => CodeStaysLiteral
    <2> SUFFICES ASSUME IInv, Styled, NEW s \in Out.styles, s.style = "MONOSPACE"
                 PROVE  s.of \subseteq Surviving
      BY DEF CodeStaysLiteral
    <2>1. Surviving = Ats(Out.text) /\ RightlyOn(Out.text, s)
      BY MarkdownOut
    <2>2. QED
      BY <2>1 DEF RightlyOn
  <1>2. QED
    BY <1>1, ResultInvariance, PTL
=============================================================================
