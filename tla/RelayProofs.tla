---------------------------- MODULE RelayProofs ----------------------------
(***************************************************************************)
(* Relay for every set of frames, every stream of the engine, of any       *)
(* length, and every way HTTP cuts it.                                     *)
(***************************************************************************)
EXTENDS Relay, SequenceTheorems, WellFoundedInduction, TLAPS

Halves == {"mb1", "mb2", "fffd"}
Blanks == {"nl", "cr"}

(* Equal, but for what decoding a chunk on its own does to a character.    *)
Similar(x, y) == x = y \/ (x \in Halves /\ y \in Halves)

Alike(a, b) == Len(a) = Len(b) /\ \A i \in 1..Len(a) : Similar(a[i], b[i])

(* The lines that end before t and carry a count.                          *)
Counted(s, t, keys) ==
  {l \in Lines(s) : /\ l[2] < t
                    /\ IsEvent(Text(s, l))
                    /\ Picked(Text(s, l), keys) # None}

(* The count of the last of these lines.                                   *)
IsLast(s, t, keys, count) ==
  \/ Counted(s, t, keys) = {} /\ count = None
  \/ \E l \in Counted(s, t, keys) :
       /\ \A k \in Counted(s, t, keys) : k[1] <= l[1]
       /\ count = Picked(Text(s, l), keys)

(* A line starts behind t and ends before n.                               *)
NextLine(s, t, n) ==
  /\ t \in 0..Len(s) /\ n \in (t + 1)..(Len(s) + 1)
  /\ t = 0 \/ s[t] = "nl"
  /\ n = Len(s) + 1 \/ s[n] = "nl"
  /\ \A i \in (t + 1)..(n - 1) : s[i] # "nl"

-----------------------------------------------------------------------------
Counts == {None} \cup 0..(U32 - 1)

(* Where the relay stands in the body: `pos` symbols have arrived, of      *)
(* which the sink has all but those of the chunk at hand.                  *)
Position ==
  /\ body \in Seq(Symbols)
  /\ pos \in Nat /\ pos <= Len(body)
  /\ relayed = SubSeq(body, 1, Len(relayed))
  /\ Len(relayed) <= pos
  /\ pc \in {"read", "ok"} => Len(relayed) = pos
  /\ pc = "ok" => pos = Len(body)

Parser ==
  /\ pc \in {"read", "drain", "send", "ok", "err"}
  /\ pending \in Seq(Symbols)
  /\ pc \in {"read", "send", "ok"} => Newlines(pending) = {}
  /\ usage.input \in Counts /\ usage.output \in Counts

(* What is known of the job before there is an answer.                     *)
Call ==
  /\ call \in {"frame", "logged", "routed", "posted", "stream", "failed"}
  /\ metered \in BOOLEAN
  /\ call # "stream" => Fresh /\ body = <<>> /\ frame \in Frames
  /\ job.deadline_ms \in 0..(Span - 1)
  /\ call \in {"routed", "posted"} => job = Parsed(frame)

RelayInv == Position /\ Parser /\ Call

(* The usage is that of the lines before t.                                *)
WellRead(s, t, u) ==
  /\ u = [input |-> u.input, output |-> u.output]
  /\ IsLast(s, t, InputKeys, u.input)
  /\ IsLast(s, t, OutputKeys, u.output)

Consumed == pos - Len(pending)

(* What is pending is what follows the last newline consumed, but for what *)
(* the decoding did to it; the usage is that of the lines before.          *)
Reading ==
  pc # "ok" =>
    /\ Consumed >= 0
    /\ Consumed = 0 \/ body[Consumed] = "nl"
    /\ \A i \in 1..Len(pending) : Similar(pending[i], body[Consumed + i])
    /\ WellRead(body, Consumed, usage)

UsageInv ==
  /\ Reading
  /\ pc = "ok" => WellRead(body, Len(body) + 1, usage)

(* A request asks for what the coordinator did not refuse.                 *)
Asked ==
  /\ call = "posted" => /\ posted = Prepared(job)
                        /\ metered = ~OptedOut(job.request)
  /\ call = "stream" /\ metered => LastCount(body, OutputKeys) # None

MeterInv == RelayInv /\ UsageInv /\ Asked

-----------------------------------------------------------------------------
(* A set of numbers that is not empty has a least one, and a greatest if   *)
(* it is bounded.                                                          *)
LEMMA LeastOf ==
  ASSUME NEW T \in SUBSET Nat, T # {}
  PROVE  \E n \in T : \A k \in T : n <= k
  <1> DEFINE R == OpToRel(<, Nat)
  <1>1. \E n \in T : \A k \in T : <<k, n>> \notin R
    <2>1. IsWellFoundedOn(R, Nat)
      BY NatLessThanWellFounded
    <2> HIDE DEF R
    <2> QED BY <2>1, WFMin
  <1>2. \A k, n \in Nat : <<k, n>> \notin R => n <= k
    BY DEF OpToRel
  <1> HIDE DEF R
  <1> QED BY <1>1, <1>2

LEMMA GreatestOf ==
  ASSUME NEW m \in Nat, NEW T \in SUBSET (0..m), T # {}
  PROVE  \E n \in T : \A k \in T : k <= n
  <1> DEFINE D == {d \in 0..m : m - d \in T}
  <1>1. D \in SUBSET Nat /\ D # {}
    <2>1. PICK k \in T : TRUE
      OBVIOUS
    <2>2. m - k \in 0..m /\ m - (m - k) = k
      BY <2>1
    <2>3. m - k \in D
      BY <2>1, <2>2
    <2>4. D \subseteq Nat
      OBVIOUS
    <2> HIDE DEF D
    <2> QED BY <2>3, <2>4
  <1>2. PICK d \in D : \A e \in D : d <= e
    <2> HIDE DEF D
    <2> QED BY <1>1, LeastOf
  <1>3. ASSUME NEW k \in T
        PROVE  k <= m - d
    <2>1. m - k \in 0..m /\ m - (m - k) = k
      OBVIOUS
    <2>2. m - k \in D
      BY <2>1
    <2>3. d <= m - k
      BY <1>2, <2>2
    <2> QED BY <2>3
  <1> QED BY <1>2, <1>3

(* The low bits of a deadline are no more than the deadline.               *)
LEMMA LowBits ==
  ASSUME NEW n \in Nat
  PROVE  /\ n % Span \in 0..(Span - 1)
         /\ n % Span <= n
         /\ n < Span => n % Span = n
  BY InboundAssumption DEF InboundAssumption

LEMMA NoDeadline == NoJob.deadline_ms \in 0..(Span - 1)
  <1>1. NoJob.deadline_ms = 0
    BY DEF NoJob
  <1>2. Span \in Nat /\ Span > 0
    BY InboundAssumption DEF InboundAssumption
  <1> QED BY <1>1, <1>2

(* What parse_job makes of the deadline of a frame.                        *)
LEMMA ParsedDeadline ==
  ASSUME NEW f \in Frames
  PROVE  /\ Parsed(f).deadline_ms \in 0..(Span - 1)
         /\ f.deadline >= 0 => Parsed(f).deadline_ms <= f.deadline
         /\ f.deadline \in 0..(Span - 1) => Parsed(f).deadline_ms = f.deadline
  <1>1. f.deadline \in Nat \cup {NoNumber}
    BY RelayAssumption DEF RelayAssumption
  <1>2. DefaultDeadline \in Nat /\ Span \in Nat
    BY InboundAssumption DEF InboundAssumption
  <1>3. CASE f.deadline = NoNumber
    <2>1. Parsed(f).deadline_ms = DefaultDeadline % Span
      BY <1>3 DEF Parsed
    <2> QED BY <1>2, <1>3, <2>1, LowBits DEF NoNumber
  <1>4. CASE f.deadline \in Nat
    <2>1. Parsed(f).deadline_ms = f.deadline % Span
      BY <1>4 DEF Parsed, NoNumber
    <2> QED BY <1>2, <1>4, <2>1, LowBits
  <1> QED BY <1>1, <1>3, <1>4

(* A count the parser picks fits in 32 bits.                               *)
LEMMA PickedFits ==
  ASSUME NEW line, NEW keys, Len(keys) = 3
  PROVE  Picked(line, keys) \in Counts
  <1> DEFINE fit(k) == {i \in Entries(line) : /\ KeyOf[line[i]] = keys[k]
                                              /\ ValueOf[line[i]] < U32}
  <1> DEFINE ks == {k \in 1..Len(keys) : fit(k) # {}}
  <1> DEFINE least == CHOOSE k \in ks : \A o \in ks : k <= o
  <1> DEFINE entry == CHOOSE i \in fit(least) : TRUE
  <1>1. Picked(line, keys) = IF ks = {} THEN None ELSE ValueOf[line[entry]]
    BY DEF Picked
  <1>2. ks \subseteq 1..3
    OBVIOUS
  <1>3. ASSUME ks # {}
        PROVE  ValueOf[line[entry]] \in Counts
    <2>1. \E k \in ks : \A o \in ks : k <= o
      <3>1. ks \in SUBSET Nat
        BY <1>2
      <3> HIDE DEF ks
      <3> QED BY <1>3, <3>1, LeastOf
    <2>2. least \in ks
      <3> HIDE DEF ks
      <3> QED BY <2>1
    <2>3. fit(least) # {}
      <3> HIDE DEF least
      <3> QED BY <2>2
    <2>4. entry \in fit(least)
      <3> HIDE DEF fit, least
      <3> QED BY <2>3
    <2>5. line[entry] \in Fields /\ ValueOf[line[entry]] < U32
      <3> HIDE DEF least, entry
      <3> QED BY <2>4 DEF Entries
    <2>6. ValueOf[line[entry]] \in Nat /\ U32 \in Nat
      <3> HIDE DEF entry
      <3> QED BY <2>5, UsageAssumption DEF UsageAssumption
    <2> HIDE DEF entry
    <2> QED BY <2>5, <2>6 DEF Counts
  <1> HIDE DEF ks, entry
  <1> QED BY <1>1, <1>3 DEF Counts

(* So the usage stays within 32 bits from line to line.                    *)
LEMMA ParseLineFits ==
  ASSUME NEW u, u.input \in Counts, u.output \in Counts, NEW line
  PROVE  /\ ParseLine(u, line).input \in Counts
         /\ ParseLine(u, line).output \in Counts
  <1>1. Len(InputKeys) = 3 /\ Len(OutputKeys) = 3
    BY DEF InputKeys, OutputKeys
  <1>2. /\ Picked(line, InputKeys) \in Counts
        /\ Picked(line, OutputKeys) \in Counts
    BY <1>1, PickedFits
  <1> QED BY <1>2 DEF ParseLine, Updated

(* Lossy decoding keeps to the symbols.                                    *)
LEMMA LossyTyped ==
  ASSUME NEW chunk \in Seq(Symbols)
  PROVE  Lossy(chunk) \in Seq(Symbols)
  <1>1. Len(chunk) \in Nat
    OBVIOUS
  <1>2. "fffd" \in Symbols
    BY DEF Symbols, Marks
  <1>3. \A i \in 1..Len(chunk) : chunk[i] \in Symbols
    BY ElementOfSeq
  <1>4. Lossy(chunk) \in [1..Len(chunk) -> Symbols]
    BY <1>2, <1>3 DEF Lossy
  <1> QED BY <1>1, <1>4, IsASeq

(* The sink is given what comes next in the body.                          *)
LEMMA NextBytes ==
  ASSUME NEW s \in Seq(Symbols), NEW k \in Nat, NEW n \in Nat, k <= n, n <= Len(s)
  PROVE  /\ SubSeq(s, 1, k) \o SubSeq(s, k + 1, n) = SubSeq(s, 1, n)
         /\ Len(SubSeq(s, 1, n)) = n
  <1>1. 1 \in 1..(Len(s) + 1) /\ k \in (1 - 1)..Len(s) /\ n \in k..Len(s)
    OBVIOUS
  <1>2. SubSeq(s, 1, k) \o SubSeq(s, k + 1, n) = SubSeq(s, 1, n)
    BY <1>1, ConcatAdjacentSubSeq
  <1>3. \A i \in 1..n : s[i] \in Symbols
    BY ElementOfSeq
  <1>4. Len(SubSeq(s, 1, n)) = n
    BY <1>3, SubSeqProperties
  <1> QED BY <1>2, <1>4

(* A text with a newline has a first one.                                  *)
LEMMA FirstNewline ==
  ASSUME NEW s \in Seq(Symbols), Newlines(s) # {}
  PROVE  \E n \in Newlines(s) : \A k \in Newlines(s) : n <= k
  <1>1. Newlines(s) \in SUBSET Nat
    BY DEF Newlines
  <1> QED BY <1>1, LeastOf

(* What parse_job and stream_chat_completions make of a request.           *)
LEMMA PreparedRequest ==
  ASSUME NEW f \in Frames, NEW j, j = Parsed(f), NEW p, p = Prepared(j), p.object
  PROVE  /\ p.fields["stream"] = "true"
         /\ OptedOut(p) <=> OptedOut(j.request)
  <1> DEFINE r == f.request
  <1> DEFINE fields == r.fields
  <1>1. DOMAIN r = {"object", "fields"} /\ r.object \in BOOLEAN
    BY RelayAssumption DEF RelayAssumption
  <1>2. j.request = r
    BY DEF Parsed
  <1> HIDE DEF r
  <1>3. p = IF r.object
            THEN [r EXCEPT !.fields = Over(Forced, Over(r.fields, Defaults(j)))]
            ELSE r
    BY <1>2 DEF Prepared
  <1>4. r.object
    BY <1>3
  <1>5. p.fields = Over(Forced, Over(fields, Defaults(j)))
    BY <1>1, <1>3, <1>4
  <1>6. /\ DOMAIN Forced = {"stream"} /\ Forced["stream"] = "true"
        /\ DOMAIN Defaults(j) = {"stream_options", "model"}
        /\ Defaults(j)["stream_options"] = "usage"
    BY DEF Forced, Defaults
  <1>7. p.fields["stream"] = "true"
    BY <1>5, <1>6 DEF Over
  <1>8. /\ "stream_options" \in DOMAIN p.fields
        /\ p.fields["stream_options"] =
             IF "stream_options" \in DOMAIN fields THEN fields["stream_options"] ELSE "usage"
    BY <1>5, <1>6 DEF Over
  <1>9. OptedOut(p) <=> OptedOut(r)
    BY <1>8 DEF OptedOut
  <1> QED BY <1>2, <1>7, <1>9

-----------------------------------------------------------------------------
(* The parser does not tell apart what decoding confuses.                  *)
LEMMA SimilarSymbols ==
  ASSUME NEW x, NEW y, Similar(x, y)
  PROVE  /\ x \in Fields <=> y \in Fields
         /\ x \in Fields => x = y
         /\ x \in Blanks <=> y \in Blanks
         /\ x = "nl" <=> y = "nl"
         /\ x = "data:" <=> y = "data:"
         /\ x = "{" <=> y = "{"
         /\ x = "}" <=> y = "}"
         /\ x \in Fields \cup {"mb1", "mb2", "fffd"} <=> y \in Fields \cup {"mb1", "mb2", "fffd"}
  <1>1. Fields \cap Halves = {}
    BY UsageAssumption DEF UsageAssumption, Marks, Halves
  <1>2. \A h \in Halves : h \notin Blanks /\ h \notin {"nl", "data:", "{", "}"}
    BY DEF Halves, Blanks
  <1>3. CASE x = y
    BY <1>3
  <1>4. CASE x \in Halves /\ y \in Halves
    <2>1. x \notin Fields /\ y \notin Fields
      BY <1>1, <1>4
    <2> QED BY <1>2, <1>4, <2>1 DEF Halves
  <1> QED BY <1>3, <1>4 DEF Similar

LEMMA AlikeEvents ==
  ASSUME NEW a, NEW b, Len(a) \in Nat, Alike(a, b)
  PROVE  IsEvent(a) <=> IsEvent(b)
  <1>1. Len(a) = Len(b) /\ \A i \in 1..Len(a) : Similar(a[i], b[i])
    BY DEF Alike
  <1>2. CASE Len(a) >= 3
    <2> DEFINE n == Len(a)
    <2>1. /\ a[1] = "data:" <=> b[1] = "data:"
          /\ a[2] = "{" <=> b[2] = "{"
          /\ a[n] = "}" <=> b[n] = "}"
      <3>1. n \in Nat /\ n >= 3
        BY <1>2
      <3> HIDE DEF n
      <3>2. Similar(a[1], b[1]) /\ Similar(a[2], b[2]) /\ Similar(a[n], b[n])
        BY <1>1, <3>1 DEF n
      <3> QED BY <3>2, SimilarSymbols
    <2>2. ASSUME NEW i \in 3..(n - 1)
          PROVE  a[i] \in Fields \cup {"mb1", "mb2", "fffd"} <=>
                 b[i] \in Fields \cup {"mb1", "mb2", "fffd"}
      <3>1. Similar(a[i], b[i])
        BY <1>1, <1>2
      <3> QED BY <3>1, SimilarSymbols
    <2> QED BY <1>1, <2>1, <2>2 DEF IsEvent
  <1>3. CASE ~(Len(a) >= 3)
    BY <1>1, <1>3 DEF IsEvent
  <1> QED BY <1>2, <1>3

LEMMA AlikeEntries ==
  ASSUME NEW a, NEW b, Len(a) \in Nat, Alike(a, b)
  PROVE  /\ Entries(a) = Entries(b)
         /\ \A i \in Entries(a) : a[i] = b[i]
  <1>1. Len(a) = Len(b) /\ \A i \in 1..Len(a) : Similar(a[i], b[i])
    BY DEF Alike
  <1>2. \A i \in 1..Len(a) : /\ a[i] \in Fields <=> b[i] \in Fields
                             /\ a[i] \in Fields => a[i] = b[i]
    BY <1>1, SimilarSymbols
  <1>3. ASSUME NEW i \in 1..Len(a)
        PROVE  i \in Entries(a) <=> i \in Entries(b)
    <2>1. \A k \in (i + 1)..Len(a) : k \in 1..Len(a)
      OBVIOUS
    <2> QED BY <1>1, <1>2, <2>1 DEF Entries
  <1>4. Entries(a) = Entries(b)
    BY <1>1, <1>3 DEF Entries
  <1> QED BY <1>2, <1>4 DEF Entries

LEMMA AlikePicked ==
  ASSUME NEW a, NEW b, Len(a) \in Nat, Alike(a, b), NEW keys, Len(keys) \in Nat
  PROVE  Picked(a, keys) = Picked(b, keys)
  <1> DEFINE fit(line, k) == {i \in Entries(line) : /\ KeyOf[line[i]] = keys[k]
                                                    /\ ValueOf[line[i]] < U32}
  <1> DEFINE ks(line) == {k \in 1..Len(keys) : fit(line, k) # {}}
  <1> DEFINE least(line) == CHOOSE k \in ks(line) : \A o \in ks(line) : k <= o
  <1> DEFINE entry(line) == CHOOSE i \in fit(line, least(line)) : TRUE
  <1>1. \A line : Picked(line, keys) =
                    IF ks(line) = {} THEN None ELSE ValueOf[line[entry(line)]]
    BY DEF Picked
  <1>2. Entries(a) = Entries(b) /\ \A i \in Entries(a) : a[i] = b[i]
    BY AlikeEntries
  <1>3. \A k : fit(a, k) = fit(b, k)
    BY <1>2
  <1>4. ks(a) = ks(b)
    BY <1>3
  <1>5. least(a) = least(b)
    <2> HIDE DEF ks
    <2> QED BY <1>4
  <1>6. entry(a) = entry(b)
    <2>1. fit(a, least(a)) = fit(b, least(b))
      <3> HIDE DEF fit, least
      <3> QED BY <1>3, <1>5
    <2> HIDE DEF fit, least
    <2> QED BY <2>1
  <1>7. ASSUME ks(a) # {}
        PROVE  a[entry(a)] = b[entry(a)]
    <2>1. ks(a) \in SUBSET Nat
      OBVIOUS
    <2>2. least(a) \in ks(a)
      <3> HIDE DEF ks
      <3>1. \E k \in ks(a) : \A o \in ks(a) : k <= o
        BY <1>7, <2>1, LeastOf
      <3> QED BY <3>1
    <2>3. fit(a, least(a)) # {}
      <3> HIDE DEF least
      <3> QED BY <2>2
    <2>4. entry(a) \in fit(a, least(a))
      <3> HIDE DEF fit, least
      <3> QED BY <2>3
    <2>5. entry(a) \in Entries(a)
      <3> HIDE DEF entry, least
      <3> QED BY <2>4
    <2> HIDE DEF entry
    <2> QED BY <1>2, <2>5
  <1> HIDE DEF ks, entry
  <1> QED BY <1>1, <1>4, <1>6, <1>7

(* What Trimmed keeps: everything up to the last symbol that is no blank.  *)
LEMMA TrimmedText ==
  ASSUME NEW s \in Seq(Symbols)
  PROVE  \E n \in 0..Len(s) : /\ Trimmed(s) = SubSeq(s, 1, n)
                              /\ \A i \in (n + 1)..Len(s) : s[i] \in Blanks
                              /\ n # 0 => s[n] \notin Blanks
  <1> DEFINE keep == {i \in 1..Len(s) : s[i] \notin {"nl", "cr"}}
  <1> DEFINE n == IF keep = {} THEN 0
                  ELSE CHOOSE i \in keep : \A k \in keep : k <= i
  <1>1. Trimmed(s) = SubSeq(s, 1, n)
    BY DEF Trimmed
  <1>2. Len(s) \in Nat /\ keep \in SUBSET (0..Len(s))
    OBVIOUS
  <1>3. CASE keep = {}
    <2>1. n = 0
      BY <1>3
    <2>2. \A i \in (0 + 1)..Len(s) : s[i] \in Blanks
      BY <1>3 DEF Blanks
    <2> HIDE DEF n, keep
    <2> QED BY <1>1, <1>2, <2>1, <2>2
  <1>4. CASE keep # {}
    <2>1. n \in keep /\ \A k \in keep : k <= n
      <3>1. \E i \in keep : \A k \in keep : k <= i
        <4> HIDE DEF keep
        <4> QED BY <1>2, <1>4, GreatestOf
      <3> HIDE DEF keep
      <3> QED BY <1>4, <3>1
    <2> HIDE DEF n
    <2>2. n \in 1..Len(s) /\ s[n] \notin Blanks
      BY <2>1 DEF Blanks
    <2>3. \A i \in (n + 1)..Len(s) : s[i] \in Blanks
      BY <1>2, <2>1, <2>2 DEF Blanks
    <2> QED BY <1>1, <2>2, <2>3
  <1> QED BY <1>3, <1>4

(* The end of a line, and what the decoding does to it, do not matter.     *)
LEMMA TrimmedAlike ==
  ASSUME NEW a \in Seq(Symbols), NEW b \in Seq(Symbols), Len(b) <= Len(a),
         \A i \in 1..Len(b) : Similar(a[i], b[i]),
         \A i \in (Len(b) + 1)..Len(a) : a[i] \in Blanks
  PROVE  /\ Len(Trimmed(a)) \in Nat
         /\ Alike(Trimmed(a), Trimmed(b))
  <1>1. PICK m \in 0..Len(a) : /\ Trimmed(a) = SubSeq(a, 1, m)
                               /\ \A i \in (m + 1)..Len(a) : a[i] \in Blanks
                               /\ m # 0 => a[m] \notin Blanks
    BY TrimmedText
  <1>2. PICK n \in 0..Len(b) : /\ Trimmed(b) = SubSeq(b, 1, n)
                               /\ \A i \in (n + 1)..Len(b) : b[i] \in Blanks
                               /\ n # 0 => b[n] \notin Blanks
    BY TrimmedText
  <1>3. Len(a) \in Nat /\ Len(b) \in Nat
    OBVIOUS
  <1>4. \A i \in 1..Len(b) : a[i] \in Blanks <=> b[i] \in Blanks
    BY SimilarSymbols
  <1>5. m = n
    <2>1. ~(m > n)
      <3> SUFFICES ASSUME m > n PROVE FALSE
        OBVIOUS
      <3>1. m \in 1..Len(b)
        BY <1>1, <1>3
      <3>2. b[m] \in Blanks
        BY <1>2, <1>3, <3>1
      <3> QED BY <1>1, <1>4, <3>1, <3>2
    <2>2. ~(n > m)
      <3> SUFFICES ASSUME n > m PROVE FALSE
        OBVIOUS
      <3>1. n \in 1..Len(b) /\ n \in (m + 1)..Len(a)
        BY <1>3
      <3>2. a[n] \in Blanks
        BY <1>1, <3>1
      <3> QED BY <1>2, <1>4, <3>1, <3>2
    <2> QED BY <1>3, <2>1, <2>2
  <1>6. /\ Len(Trimmed(a)) = m /\ \A i \in 1..m : Trimmed(a)[i] = a[i]
        /\ Len(Trimmed(b)) = m /\ \A i \in 1..m : Trimmed(b)[i] = b[i]
    <2>1. m \in 0..Len(a) /\ m \in 0..Len(b)
      BY <1>5
    <2>2. \A i \in 1..m : a[i] \in Symbols /\ b[i] \in Symbols
      BY <1>3, <2>1, ElementOfSeq
    <2>3. /\ Len(SubSeq(a, 1, m)) = m /\ \A i \in 1..m : SubSeq(a, 1, m)[i] = a[i]
          /\ Len(SubSeq(b, 1, m)) = m /\ \A i \in 1..m : SubSeq(b, 1, m)[i] = b[i]
      BY <1>3, <2>1
    <2> QED BY <1>1, <1>2, <1>5, <2>3
  <1>7. m \in Nat /\ m <= Len(b)
    BY <1>3, <1>5
  <1> QED BY <1>3, <1>6, <1>7 DEF Alike

(* Decoding a chunk on its own touches halves of characters only.          *)
LEMMA LossySimilar ==
  ASSUME NEW chunk \in Seq(Symbols)
  PROVE  /\ Len(Lossy(chunk)) = Len(chunk)
         /\ \A i \in 1..Len(chunk) : Similar(Lossy(chunk)[i], chunk[i])
  <1>1. Len(chunk) \in Nat
    OBVIOUS
  <1>2. DOMAIN Lossy(chunk) = 1..Len(chunk) /\ Lossy(chunk) \in Seq(Symbols)
    BY LossyTyped DEF Lossy
  <1>3. Len(Lossy(chunk)) = Len(chunk)
    BY <1>1, <1>2
  <1>4. ASSUME NEW i \in 1..Len(chunk)
        PROVE  Similar(Lossy(chunk)[i], chunk[i])
    <2>1. \/ Lossy(chunk)[i] = chunk[i]
          \/ Lossy(chunk)[i] = "fffd" /\ chunk[i] \in {"mb1", "mb2"}
      BY DEF Lossy
    <2> QED BY <2>1 DEF Similar, Halves
  <1> QED BY <1>3, <1>4

-----------------------------------------------------------------------------
(* The lines of a body, one after the other.                               *)
LEMMA LineOf ==
  ASSUME NEW s \in Seq(Symbols), NEW l \in Lines(s)
  PROVE  /\ l[1] \in 1..(Len(s) + 1) /\ l[2] \in 0..Len(s)
         /\ l = <<l[1], l[2]>>
         /\ l[1] <= l[2] + 1
         /\ l[1] = 1 \/ s[l[1] - 1] = "nl"
         /\ l[2] = Len(s) \/ s[l[2] + 1] = "nl"
         /\ \A i \in l[1]..l[2] : s[i] # "nl"
  BY DEF Lines

LEMMA TheNextLine ==
  ASSUME NEW s \in Seq(Symbols), NEW t, NEW n, NextLine(s, t, n)
  PROVE  /\ <<t + 1, n - 1>> \in Lines(s)
         /\ \A k \in Lines(s) : k[2] < n <=> k[2] < t \/ k = <<t + 1, n - 1>>
  <1>1. Len(s) \in Nat
    OBVIOUS
  <1>2. /\ t \in 0..Len(s) /\ n \in (t + 1)..(Len(s) + 1)
        /\ t = 0 \/ s[t] = "nl"
        /\ n = Len(s) + 1 \/ s[n] = "nl"
        /\ \A i \in (t + 1)..(n - 1) : s[i] # "nl"
    BY DEF NextLine
  <1>3. <<t + 1, n - 1>> \in Lines(s)
    <2> DEFINE l == <<t + 1, n - 1>>
    <2>1. l[1] = t + 1 /\ l[2] = n - 1 /\ l \in (1..(Len(s) + 1)) \X (0..Len(s))
      BY <1>1, <1>2
    <2>2. /\ l[1] <= l[2] + 1
          /\ l[1] = 1 \/ s[l[1] - 1] = "nl"
          /\ l[2] = Len(s) \/ s[l[2] + 1] = "nl"
          /\ \A i \in l[1]..l[2] : s[i] # "nl"
      BY <1>1, <1>2, <2>1
    <2> HIDE DEF l
    <2> QED BY <2>1, <2>2 DEF Lines
  <1>4. ASSUME NEW k \in Lines(s), k[2] < n, ~(k[2] < t)
        PROVE  k = <<t + 1, n - 1>>
    <2> DEFINE f == k[1]
    <2> DEFINE e == k[2]
    <2>1. /\ f \in 1..(Len(s) + 1) /\ e \in 0..Len(s) /\ k = <<f, e>>
          /\ f <= e + 1
          /\ f = 1 \/ s[f - 1] = "nl"
          /\ e = Len(s) \/ s[e + 1] = "nl"
          /\ \A i \in f..e : s[i] # "nl"
      BY LineOf
    <2>2. e < n /\ e >= t
      BY <1>2, <1>4, <2>1
    <2> HIDE DEF f, e
    <2>3. e = n - 1
      <3> SUFFICES ASSUME e < n - 1 PROVE FALSE
        BY <1>1, <1>2, <2>1, <2>2
      <3>1. e + 1 \in (t + 1)..(n - 1) /\ e # Len(s)
        BY <1>1, <1>2, <2>1, <2>2
      <3> QED BY <1>2, <2>1, <3>1
    <2>4. f >= t + 1
      <3> SUFFICES ASSUME f <= t PROVE FALSE
        BY <1>1, <1>2, <2>1
      <3>1. t \in f..e /\ t # 0
        BY <1>1, <1>2, <2>1, <2>2
      <3> QED BY <1>2, <2>1, <3>1
    <2>5. f = t + 1
      <3> SUFFICES ASSUME f > t + 1 PROVE FALSE
        BY <1>1, <1>2, <2>1, <2>4
      <3>1. f - 1 \in (t + 1)..(n - 1) /\ f # 1
        BY <1>1, <1>2, <2>1, <2>3
      <3> QED BY <1>2, <2>1, <3>1
    <2> QED BY <2>1, <2>3, <2>5
  <1>5. ASSUME NEW k \in Lines(s), k[2] < t
        PROVE  k[2] < n
    BY <1>1, <1>2, <1>5, LineOf
  <1>6. <<t + 1, n - 1>>[2] < n
    BY <1>1, <1>2
  <1> QED BY <1>3, <1>4, <1>5, <1>6

(* One line more: its count, if it has one, is the last.                   *)
LEMMA OneLineMore ==
  ASSUME NEW s \in Seq(Symbols), NEW t, NEW n, NextLine(s, t, n),
         NEW keys, NEW c, IsLast(s, t, keys, c), NEW line,
         line = Text(s, <<t + 1, n - 1>>)
  PROVE  IsLast(s, n, keys,
                IF IsEvent(line) THEN Updated(c, Picked(line, keys)) ELSE c)
  <1> DEFINE l == <<t + 1, n - 1>>
  <1> DEFINE counts == IsEvent(line) /\ Picked(line, keys) # None
  <1>1. l \in Lines(s) /\ \A k \in Lines(s) : k[2] < n <=> k[2] < t \/ k = l
    BY TheNextLine
  <1>2. t \in Nat /\ l[1] = t + 1
    BY DEF NextLine
  <1> HIDE DEF l
  <1>3. CASE counts
    <2>1. l \in Counted(s, n, keys)
      BY <1>1, <1>3 DEF Counted, l
    <2>2. ASSUME NEW k \in Counted(s, n, keys)
          PROVE  k[1] <= l[1]
      <3>1. k \in Lines(s) /\ (k[2] < t \/ k = l)
        BY <1>1 DEF Counted
      <3>2. k[1] \in Nat /\ k[2] \in Nat /\ k[1] <= k[2] + 1
        BY <3>1, LineOf
      <3>3. CASE k = l
        BY <1>2, <3>3
      <3>4. CASE k[2] < t
        BY <1>2, <3>2, <3>4
      <3> QED BY <3>1, <3>3, <3>4
    <2>3. Updated(c, Picked(line, keys)) = Picked(Text(s, l), keys)
      BY <1>3 DEF Updated, l
    <2> QED BY <1>3, <2>1, <2>2, <2>3 DEF IsLast
  <1>4. CASE ~counts
    <2>1. Counted(s, n, keys) = Counted(s, t, keys)
      BY <1>1, <1>4 DEF Counted, l
    <2>2. (IF IsEvent(line) THEN Updated(c, Picked(line, keys)) ELSE c) = c
      BY <1>4 DEF Updated
    <2>3. IsLast(s, n, keys, c)
      BY <2>1 DEF IsLast
    <2> QED BY <2>2, <2>3
  <1> QED BY <1>3, <1>4

(* Only one line starts at a place.                                        *)
LEMMA LineByStart ==
  ASSUME NEW s \in Seq(Symbols), NEW k \in Lines(s), NEW l \in Lines(s), k[1] = l[1]
  PROVE  k = l
  <1>1. Len(s) \in Nat
    OBVIOUS
  <1>2. ASSUME NEW a \in Lines(s), NEW b \in Lines(s), a[1] = b[1]
        PROVE  ~(a[2] < b[2])
    <2> SUFFICES ASSUME a[2] < b[2] PROVE FALSE
      OBVIOUS
    <2>1. /\ a[1] \in Nat /\ a[2] \in Nat /\ b[2] \in 0..Len(s) /\ a[1] <= a[2] + 1
          /\ a[2] = Len(s) \/ s[a[2] + 1] = "nl"
      BY <1>1, LineOf
    <2>2. a[2] + 1 \in b[1]..b[2] /\ a[2] # Len(s)
      BY <1>1, <1>2, <2>1
    <2>3. s[a[2] + 1] # "nl"
      BY <2>2, LineOf
    <2> QED BY <2>1, <2>2, <2>3
  <1>3. ~(k[2] < l[2]) /\ ~(l[2] < k[2])
    BY <1>2
  <1>4. k[2] \in Nat /\ l[2] \in Nat /\ k = <<k[1], k[2]>> /\ l = <<l[1], l[2]>>
    BY <1>1, LineOf
  <1> QED BY <1>3, <1>4

(* When all lines are read, the count is that of the body.                 *)
LEMMA AllLinesRead ==
  ASSUME NEW s \in Seq(Symbols), NEW keys, NEW c, IsLast(s, Len(s) + 1, keys, c)
  PROVE  LastCount(s, keys) = c
  <1> DEFINE counted == {l \in Lines(s) : /\ IsEvent(Text(s, l))
                                          /\ Picked(Text(s, l), keys) # None}
  <1> DEFINE last == CHOOSE l \in counted : \A k \in counted : k[1] <= l[1]
  <1>1. LastCount(s, keys) = IF counted = {} THEN None ELSE Picked(Text(s, last), keys)
    BY DEF LastCount
  <1>2. Counted(s, Len(s) + 1, keys) = counted
    <2>1. \A l \in Lines(s) : l[2] < Len(s) + 1
      BY LineOf
    <2> QED BY <2>1 DEF Counted
  <1>3. counted \subseteq Lines(s)
    OBVIOUS
  <1> HIDE DEF counted
  <1>4. CASE counted = {}
    BY <1>1, <1>2, <1>4 DEF IsLast
  <1>5. CASE counted # {}
    <2>1. PICK l \in counted : /\ \A k \in counted : k[1] <= l[1]
                               /\ c = Picked(Text(s, l), keys)
      BY <1>2, <1>5 DEF IsLast
    <2>2. last \in counted /\ \A k \in counted : k[1] <= last[1]
      BY <2>1
    <2> HIDE DEF last
    <2>3. l[1] <= last[1] /\ last[1] <= l[1]
      BY <2>1, <2>2
    <2>4. l[1] \in Nat /\ last[1] \in Nat
      BY <1>3, <2>1, <2>2, LineOf
    <2>5. l[1] = last[1]
      BY <2>3, <2>4
    <2>6. l = last
      BY <1>3, <2>1, <2>2, <2>5, LineByStart
    <2> QED BY <1>1, <1>5, <2>1, <2>6
  <1> QED BY <1>4, <1>5

-----------------------------------------------------------------------------
(* No answer yet: the relay is at rest.                                    *)
LEMMA AtRest ==
  ASSUME Fresh, body = <<>>
  PROVE  Position /\ Parser
  <1>1. body \in Seq(Symbols) /\ Len(body) = 0
    BY EmptySeq
  <1>2. relayed = <<>> /\ Len(relayed) = 0 /\ SubSeq(body, 1, 0) = <<>>
    BY SubSeqEmpty DEF Fresh
  <1>3. Position
    BY <1>1, <1>2 DEF Fresh, Position
  <1>4. Newlines(pending) = {} /\ pending \in Seq(Symbols)
    BY EmptySeq DEF Fresh, Newlines
  <1> QED BY <1>3, <1>4 DEF Fresh, Parser, NoUsage, Counts

LEMMA RelayInvInit == RelayInit => RelayInv
  <1> SUFFICES ASSUME RelayInit
               PROVE  RelayInv
    OBVIOUS
  <1>1. Position /\ Parser
    BY AtRest DEF RelayInit
  <1>2. Call
    <2>1. job.deadline_ms \in 0..(Span - 1)
      BY NoDeadline DEF RelayInit
    <2>2. metered \in BOOLEAN
      BY DEF RelayInit
    <2>3. call = "frame" /\ Fresh /\ body = <<>> /\ frame \in Frames
      BY DEF RelayInit
    <2> QED BY <2>1, <2>2, <2>3 DEF Call
  <1> QED BY <1>1, <1>2 DEF RelayInv

(* The steps of the job before there is an answer.                         *)
LEMMA RequestStep ==
  ASSUME RelayInv, Receive \/ Post \/ Refused
  PROVE  RelayInv'
  <1>1. UNCHANGED <<body, pos, pc, pending, usage, relayed>>
    BY DEF Receive, Post, Refused, vars
  <1>2. Position' /\ Parser'
    BY <1>1 DEF RelayInv, Position, Parser, Newlines, Counts
  <1>3. call # "stream" /\ Fresh /\ body = <<>> /\ frame \in Frames
    BY DEF Receive, Post, Refused, RelayInv, Call
  <1>4. Fresh' /\ body' = <<>> /\ frame' \in Frames
    BY <1>1, <1>3 DEF Fresh, Receive, Post, Refused
  <1>5. Parsed(frame).deadline_ms \in 0..(Span - 1)
    BY <1>3, ParsedDeadline
  <1>6. metered' \in BOOLEAN
    BY DEF Receive, Post, Refused, RelayInv, Call
  <1>7. job'.deadline_ms \in 0..(Span - 1)
    BY <1>5 DEF Receive, Post, Refused, RelayInv, Call
  <1>8. call' \in {"frame", "logged", "routed", "posted", "stream", "failed"}
    BY DEF Receive, Post, Refused
  <1>9. call' \in {"routed", "posted"} => job' = Parsed(frame')
    BY DEF Receive, Post, Refused, RelayInv, Call
  <1> QED BY <1>2, <1>4, <1>6, <1>7, <1>8, <1>9 DEF RelayInv, Call

(* The answer is one of the bodies the engine may send.                    *)
LEMMA RespondStep ==
  ASSUME RelayInv, Respond
  PROVE  RelayInv'
  <1>1. /\ Streams \subseteq Seq(Symbols \ {"fffd"})
        /\ Plain \subseteq Seq(Symbols \ {"fffd"})
    BY UsageAssumption, RelayAssumption DEF UsageAssumption, RelayAssumption
  <1>2. body' \in Streams \cup Plain
    BY DEF Respond, Answers
  <1>3. body' \in Seq(Symbols) /\ Len(body') \in Nat
    <2>1. Seq(Symbols \ {"fffd"}) \subseteq Seq(Symbols)
      BY SeqMonotonic
    <2>2. body' \in Seq(Symbols)
      BY <1>1, <1>2, <2>1
    <2> QED BY <2>2, LenProperties
  <1>4. Fresh /\ UNCHANGED <<pos, pc, pending, usage, relayed>>
    BY DEF Respond, RelayInv, Call
  <1>5. Position'
    <2>1. Fresh'
      BY <1>4 DEF Fresh
    <2>2. relayed' = <<>> /\ Len(relayed') = 0 /\ SubSeq(body', 1, 0) = <<>>
      BY <2>1, SubSeqEmpty DEF Fresh
    <2>3. relayed' = SubSeq(body', 1, Len(relayed'))
      BY <2>2
    <2>4. pos' = 0 /\ pc' = "read"
      BY <2>1 DEF Fresh
    <2> QED BY <1>3, <2>2, <2>3, <2>4 DEF Position
  <1>6. Parser'
    BY <1>4 DEF RelayInv, Parser, Newlines, Counts
  <1>7. Call'
    <2>1. job'.deadline_ms \in 0..(Span - 1)
      BY NoDeadline DEF Respond
    <2>2. call' = "stream"
      BY DEF Respond
    <2>3. metered' \in BOOLEAN
      BY DEF Respond, RelayInv, Call
    <2> QED BY <2>1, <2>2, <2>3 DEF Call
  <1> QED BY <1>5, <1>6, <1>7 DEF RelayInv

(* A step of the relay itself.                                             *)
LEMMA StreamStep ==
  ASSUME RelayInv, Streaming
  PROVE  RelayInv'
  <1>1. Call'
    BY DEF Streaming, RelayInv, Call
  <1>2. ASSUME Arrive
        PROVE  Position' /\ Parser'
    <2>1. PICK n \in (pos + 1)..Len(body) :
            /\ pending' = pending \o Lossy(SubSeq(body, pos + 1, n))
            /\ pos' = n
      BY <1>2 DEF Arrive
    <2>2. body \in Seq(Symbols) /\ pending \in Seq(Symbols) /\ pos \in Nat
      BY DEF RelayInv, Position, Parser
    <2>3. \A i \in (pos + 1)..n : body[i] \in Symbols
      BY <2>2, ElementOfSeq
    <2>4. SubSeq(body, pos + 1, n) \in Seq(Symbols)
      BY <2>2, <2>3, SubSeqProperties
    <2>5. pending' \in Seq(Symbols)
      BY <2>1, <2>2, <2>4, LossyTyped, ConcatProperties
    <2>6. Parser'
      BY <1>2, <2>5 DEF Arrive, RelayInv, Parser, Counts
    <2>7. /\ relayed' = relayed /\ body' = body /\ pc' = "drain"
          /\ Len(relayed) \in Nat /\ Len(body) \in Nat
      BY <1>2, <2>2 DEF Arrive, RelayInv, Position
    <2>8. relayed = SubSeq(body, 1, Len(relayed)) /\ Len(relayed) <= pos
      BY DEF RelayInv, Position
    <2>9. relayed' = SubSeq(body', 1, Len(relayed')) /\ Len(relayed') = Len(relayed)
      BY <2>7, <2>8
    <2>10. pos' \in Nat /\ pos' <= Len(body') /\ Len(relayed') <= pos'
      BY <2>1, <2>2, <2>7, <2>8, <2>9
    <2>11. Position'
      BY <2>2, <2>7, <2>9, <2>10 DEF Position
    <2> QED BY <2>6, <2>11
  <1>3. ASSUME DrainLine
        PROVE  Position' /\ Parser'
    <2> DEFINE i == CHOOSE i \in Newlines(pending) : \A k \in Newlines(pending) : i <= k
    <2>1. /\ usage' = ParseLine(usage, Trimmed(SubSeq(pending, 1, i)))
          /\ pending' = SubSeq(pending, i + 1, Len(pending))
      BY <1>3 DEF DrainLine
    <2>2. usage.input \in Counts /\ usage.output \in Counts /\ pending \in Seq(Symbols)
      BY DEF RelayInv, Parser
    <2>3. usage'.input \in Counts /\ usage'.output \in Counts
      BY <2>1, <2>2, ParseLineFits
    <2>4. UNCHANGED <<body, pos, pc, relayed>> /\ pc = "drain"
      BY <1>3 DEF DrainLine
    <2>5. pending' \in Seq(Symbols)
      <3>1. i \in 1..Len(pending)
        <4>1. \E n \in Newlines(pending) : \A k \in Newlines(pending) : n <= k
          BY <1>3, FirstNewline, <2>2 DEF DrainLine
        <4> QED BY <4>1 DEF Newlines
      <3> HIDE DEF i
      <3>2. Len(pending) \in Nat /\ \A j \in (i + 1)..Len(pending) : pending[j] \in Symbols
        BY <2>2, <3>1, ElementOfSeq
      <3> QED BY <2>1, <3>1, <3>2, SubSeqProperties
    <2>6. Position'
      BY <2>4 DEF RelayInv, Position
    <2> QED BY <2>3, <2>4, <2>5, <2>6 DEF Parser, Counts
  <1>4. ASSUME Drained
        PROVE  Position' /\ Parser'
    <2>1. Position'
      BY <1>4 DEF Drained, RelayInv, Position
    <2> QED BY <1>4, <2>1 DEF Drained, RelayInv, Parser, Newlines, Counts
  <1>5. ASSUME Forward
        PROVE  Position' /\ Parser'
    <2>1. /\ body \in Seq(Symbols) /\ pos \in Nat /\ pos <= Len(body)
          /\ relayed = SubSeq(body, 1, Len(relayed)) /\ Len(relayed) <= pos
      BY DEF RelayInv, Position
    <2>2. Len(relayed) \in Nat
      <3>1. relayed \in Seq(Symbols)
        BY <2>1 DEF RelayInv
      <3> QED BY <3>1
    <2>3. relayed' = relayed \o SubSeq(body, Len(relayed) + 1, pos)
      BY <1>5 DEF Forward
    <2>4. relayed' = SubSeq(body, 1, pos) /\ Len(relayed') = pos
      <3> DEFINE k == Len(relayed)
      <3>1. relayed = SubSeq(body, 1, k) /\ k \in Nat /\ k <= pos
        BY <2>1, <2>2
      <3>2. relayed' = relayed \o SubSeq(body, k + 1, pos)
        BY <2>3
      <3> HIDE DEF k
      <3>3. /\ SubSeq(body, 1, k) \o SubSeq(body, k + 1, pos) = SubSeq(body, 1, pos)
            /\ Len(SubSeq(body, 1, pos)) = pos
        BY <2>1, <3>1, NextBytes
      <3> QED BY <3>1, <3>2, <3>3
    <2>5. body' = body /\ pos' = pos /\ pc' = "read"
      BY <1>5 DEF Forward
    <2>6. relayed' = SubSeq(body', 1, Len(relayed'))
      BY <2>4, <2>5
    <2>7. Position'
      BY <2>1, <2>4, <2>5, <2>6 DEF Position
    <2> QED BY <1>5, <2>7 DEF Forward, RelayInv, Parser, Newlines, Counts
  <1>6. ASSUME Fail
        PROVE  Position' /\ Parser'
    <2>1. Position'
      BY <1>6 DEF Fail, RelayInv, Position
    <2> QED BY <1>6, <2>1 DEF Fail, RelayInv, Parser, Newlines, Counts
  <1>7. ASSUME Finish
        PROVE  Position' /\ Parser'
    <2>1. Position'
      BY <1>7 DEF Finish, RelayInv, Position
    <2>2. pending' \in Seq(Symbols) /\ Newlines(pending)' = {} /\ pc' = "ok"
      BY <1>7, EmptySeq DEF Finish, Newlines
    <2>3. usage'.input \in Counts /\ usage'.output \in Counts
      BY <1>7, ParseLineFits DEF Finish, RelayInv, Parser
    <2> QED BY <2>1, <2>2, <2>3 DEF Parser, Counts
  <1>8. Position' /\ Parser'
    BY <1>2, <1>3, <1>4, <1>5, <1>6, <1>7 DEF Streaming, Next
  <1> QED BY <1>1, <1>8 DEF RelayInv

LEMMA RelayInvNext == RelayInv /\ [RelayNext]_relayVars => RelayInv'
  <1> SUFFICES ASSUME RelayInv, [RelayNext]_relayVars
               PROVE  RelayInv'
    OBVIOUS
  <1>1. CASE UNCHANGED relayVars
    BY <1>1 DEF relayVars, vars, RelayInv, Position, Parser, Call, Fresh,
                Newlines, Counts
  <1>2. CASE RelayNext
    BY <1>2, RequestStep, RespondStep, StreamStep DEF RelayNext
  <1> QED BY <1>1, <1>2

LEMMA RelayInvAlways == RelaySpec => []RelayInv
  BY RelayInvInit, RelayInvNext, PTL DEF RelaySpec

-----------------------------------------------------------------------------
(* The usage, from line to line.                                           *)
LEMMA NothingRead ==
  ASSUME NEW s \in Seq(Symbols), NEW keys
  PROVE  IsLast(s, 0, keys, None)
  <1>1. \A l \in Lines(s) : ~(l[2] < 0)
    BY LineOf
  <1> QED BY <1>1 DEF IsLast, Counted

(* The parser is given a line as it was decoded, with its end or without:  *)
(* it takes from it what the line of the body says.                        *)
LEMMA LineParsed ==
  ASSUME NEW s \in Seq(Symbols), NEW t, NEW n, NextLine(s, t, n),
         NEW raw \in Seq(Symbols), n - 1 - t <= Len(raw),
         \A i \in 1..(n - 1 - t) : Similar(raw[i], s[t + i]),
         \A i \in (n - t)..Len(raw) : raw[i] \in Blanks,
         NEW u, WellRead(s, t, u)
  PROVE  WellRead(s, n, ParseLine(u, Trimmed(raw)))
  <1> DEFINE v == ParseLine(u, Trimmed(raw))
  <1> DEFINE text == SubSeq(s, t + 1, n - 1)
  <1> DEFINE line == Trimmed(text)
  <1>1. Len(s) \in Nat /\ t \in 0..Len(s) /\ n \in (t + 1)..(Len(s) + 1)
    BY DEF NextLine
  <1>2. \A i \in (t + 1)..(n - 1) : s[i] \in Symbols
    BY <1>1, ElementOfSeq
  <1>3. /\ text \in Seq(Symbols) /\ Len(text) = n - 1 - t
        /\ \A i \in 1..(n - 1 - t) : text[i] = s[t + i]
    BY <1>1, <1>2
  <1>4. line = Text(s, <<t + 1, n - 1>>)
    BY DEF Text
  <1> HIDE DEF text
  <1>5. Len(Trimmed(raw)) \in Nat /\ Alike(Trimmed(raw), line)
    <2>1. Len(text) <= Len(raw)
      BY <1>3
    <2>2. \A i \in 1..Len(text) : Similar(raw[i], text[i])
      BY <1>3
    <2>3. \A i \in (Len(text) + 1)..Len(raw) : raw[i] \in Blanks
      BY <1>1, <1>3
    <2> QED BY <1>3, <2>1, <2>2, <2>3, TrimmedAlike
  <1> HIDE DEF line
  <1>6. Len(InputKeys) \in Nat /\ Len(OutputKeys) \in Nat
    BY DEF InputKeys, OutputKeys
  <1>7. /\ IsEvent(Trimmed(raw)) <=> IsEvent(line)
        /\ Picked(Trimmed(raw), InputKeys) = Picked(line, InputKeys)
        /\ Picked(Trimmed(raw), OutputKeys) = Picked(line, OutputKeys)
    BY <1>5, <1>6, AlikeEvents, AlikePicked
  <1>8. /\ v = [input |-> v.input, output |-> v.output]
        /\ v.input = IF IsEvent(line) THEN Updated(u.input, Picked(line, InputKeys))
                     ELSE u.input
        /\ v.output = IF IsEvent(line) THEN Updated(u.output, Picked(line, OutputKeys))
                      ELSE u.output
    BY <1>7 DEF ParseLine, WellRead
  <1>9. IsLast(s, n, InputKeys, IF IsEvent(line)
                                THEN Updated(u.input, Picked(line, InputKeys))
                                ELSE u.input)
    BY <1>4, OneLineMore DEF WellRead
  <1>10. IsLast(s, n, OutputKeys, IF IsEvent(line)
                                  THEN Updated(u.output, Picked(line, OutputKeys))
                                  ELSE u.output)
    BY <1>4, OneLineMore DEF WellRead
  <1> HIDE DEF v
  <1>11. WellRead(s, n, v)
    BY <1>8, <1>9, <1>10 DEF WellRead
  <1> QED BY <1>11 DEF v

(* At rest nothing is read.                                                *)
LEMMA UsageAtRest ==
  ASSUME Fresh, body \in Seq(Symbols)
  PROVE  UsageInv
  <1>1. /\ pos = 0 /\ pc = "read" /\ Len(pending) = 0
        /\ usage = [input |-> None, output |-> None]
    BY EmptySeq DEF Fresh, NoUsage
  <1>2. usage.input = None /\ usage.output = None
    BY <1>1
  <1>3. Consumed = 0
    BY <1>1 DEF Consumed
  <1>4. WellRead(body, 0, usage)
    BY <1>1, <1>2, NothingRead DEF WellRead
  <1> QED BY <1>1, <1>3, <1>4 DEF UsageInv, Reading

(* A chunk arrives: nothing more is consumed.                              *)
LEMMA UsageArrive ==
  ASSUME RelayInv, UsageInv, Arrive
  PROVE  UsageInv'
  <1>1. PICK n \in (pos + 1)..Len(body) :
          /\ pending' = pending \o Lossy(SubSeq(body, pos + 1, n))
          /\ pos' = n
    BY DEF Arrive
  <1>2. /\ body \in Seq(Symbols) /\ Len(body) \in Nat /\ pos \in Nat
        /\ pending \in Seq(Symbols) /\ Len(pending) \in Nat
    BY LenProperties DEF RelayInv, Position, Parser
  <1>3. UNCHANGED <<body, usage>> /\ pc # "ok" /\ pc' # "ok"
    BY DEF Arrive
  <1> DEFINE chunk == SubSeq(body, pos + 1, n)
  <1> DEFINE m == Len(pending)
  <1>4. /\ chunk \in Seq(Symbols) /\ Len(chunk) = n - pos
        /\ \A i \in 1..(n - pos) : chunk[i] = body[pos + i]
    <2>1. \A i \in (pos + 1)..n : body[i] \in Symbols
      BY <1>2, ElementOfSeq
    <2> QED BY <1>2, <2>1
  <1> HIDE DEF chunk
  <1>5. /\ Lossy(chunk) \in Seq(Symbols) /\ Len(Lossy(chunk)) = n - pos
        /\ \A i \in 1..(n - pos) : Similar(Lossy(chunk)[i], body[pos + i])
    BY <1>4, LossyTyped, LossySimilar
  <1>6. /\ Len(pending') = m + (n - pos)
        /\ \A i \in 1..m : pending'[i] = pending[i]
        /\ \A i \in (m + 1)..(m + (n - pos)) : pending'[i] = Lossy(chunk)[i - m]
    <2>1. pending' = pending \o Lossy(chunk)
      BY <1>1 DEF chunk
    <2> DEFINE text == Lossy(chunk)
    <2>2. text \in Seq(Symbols) /\ Len(text) = n - pos /\ n - pos \in Nat
      BY <1>2, <1>5
    <2>3. pending' = pending \o text
      BY <2>1
    <2> HIDE DEF text, m
    <2>4. /\ Len(pending') = m + (n - pos)
          /\ \A i \in 1..m : pending'[i] = pending[i]
          /\ \A i \in (m + 1)..(m + (n - pos)) : pending'[i] = text[i - m]
      <3>1. /\ Len(pending') = Len(pending) + Len(text)
            /\ \A i \in 1..(Len(pending) + Len(text)) :
                 pending'[i] = IF i <= Len(pending) THEN pending[i]
                               ELSE text[i - Len(pending)]
        BY <1>2, <2>2, <2>3, ConcatProperties
      <3>2. m = Len(pending) /\ m \in Nat
        BY <1>2 DEF m
      <3> QED BY <2>2, <3>1, <3>2
    <2> QED BY <2>4 DEF text
  <1>7. Consumed' = Consumed /\ Consumed = pos - m
    BY <1>1, <1>2, <1>6 DEF Consumed
  <1>8. ASSUME NEW i \in 1..Len(pending')
        PROVE  Similar(pending'[i], body[Consumed + i])
    <2>1. CASE i <= m
      BY <1>2, <1>3, <1>6, <2>1 DEF UsageInv, Reading
    <2>2. CASE i > m
      <3>1. i - m \in 1..(n - pos) /\ i \in (m + 1)..(m + (n - pos))
        BY <1>2, <1>6, <2>2
      <3>2. pos + (i - m) = Consumed + i
        BY <1>2, <1>7, <3>1
      <3> QED BY <1>5, <1>6, <3>1, <3>2
    <2> QED BY <1>2, <2>1, <2>2
  <1>9. Reading'
    BY <1>3, <1>7, <1>8 DEF UsageInv, Reading
  <1> QED BY <1>3, <1>9 DEF UsageInv

(* A line is cut off and parsed.                                           *)
LEMMA UsageDrainLine ==
  ASSUME RelayInv, UsageInv, DrainLine
  PROVE  UsageInv'
  <1> DEFINE i == CHOOSE i \in Newlines(pending) : \A k \in Newlines(pending) : i <= k
  <1> DEFINE m == Len(pending)
  <1> DEFINE t == Consumed
  <1>1. /\ usage' = ParseLine(usage, Trimmed(SubSeq(pending, 1, i)))
        /\ pending' = SubSeq(pending, i + 1, Len(pending))
        /\ UNCHANGED <<body, pos>> /\ pc # "ok" /\ pc' # "ok"
    BY DEF DrainLine
  <1>2. /\ body \in Seq(Symbols) /\ Len(body) \in Nat /\ pos \in Nat /\ pos <= Len(body)
        /\ pending \in Seq(Symbols) /\ m \in Nat
    BY LenProperties DEF RelayInv, Position, Parser
  <1>3. i \in Newlines(pending) /\ \A k \in Newlines(pending) : i <= k
    <2>1. \E n \in Newlines(pending) : \A k \in Newlines(pending) : n <= k
      BY <1>2, FirstNewline DEF DrainLine
    <2> QED BY <2>1
  <1> HIDE DEF i
  <1>4. i \in 1..m /\ pending[i] = "nl" /\ \A k \in 1..(i - 1) : pending[k] # "nl"
    BY <1>2, <1>3 DEF Newlines
  <1>5. t \in Nat /\ t = pos - m
    BY <1>1, <1>2 DEF UsageInv, Reading, Consumed
  <1>6. /\ t = 0 \/ body[t] = "nl"
        /\ \A k \in 1..m : Similar(pending[k], body[t + k])
        /\ WellRead(body, t, usage)
    BY <1>1 DEF UsageInv, Reading
  <1> DEFINE n == t + i
  <1>7. Consumed' = n
    <2>1. Len(pending') = m - i
      <3>1. \A k \in (i + 1)..m : pending[k] \in Symbols
        BY <1>2, <1>4, ElementOfSeq
      <3> QED BY <1>1, <1>2, <1>4, <3>1
    <2>2. Consumed' = pos - Len(pending')
      BY <1>1 DEF Consumed
    <2> HIDE DEF t
    <2>3. i \in Nat /\ pos - (m - i) = t + i
      BY <1>2, <1>4, <1>5
    <2> HIDE DEF m
    <2> QED BY <2>1, <2>2, <2>3
  <1> HIDE DEF t
  <1>8. body[n] = "nl" /\ n >= 0
    <2>1. Similar(pending[i], body[t + i]) /\ pending[i] = "nl" /\ t + i >= 0
      BY <1>4, <1>5, <1>6
    <2>2. body[t + i] = "nl"
      BY <2>1, SimilarSymbols
    <2> QED BY <2>1, <2>2
  <1>9. NextLine(body, t, n)
    <2>1. ASSUME NEW k \in (t + 1)..(n - 1)
          PROVE  body[k] # "nl"
      <3>1. k - t \in 1..(i - 1) /\ k - t \in 1..m /\ t + (k - t) = k
        BY <1>2, <1>4, <1>5
      <3>2. Similar(pending[k - t], body[k]) /\ pending[k - t] # "nl"
        BY <1>4, <1>6, <3>1
      <3> QED BY <3>2, SimilarSymbols
    <2>2. t \in 0..Len(body) /\ n \in (t + 1)..(Len(body) + 1)
      BY <1>2, <1>4, <1>5
    <2> QED BY <1>6, <1>8, <2>1, <2>2 DEF NextLine
  <1> DEFINE raw == SubSeq(pending, 1, i)
  <1>10. raw \in Seq(Symbols) /\ Len(raw) = i /\ \A k \in 1..i : raw[k] = pending[k]
    <2>1. \A k \in 1..i : pending[k] \in Symbols
      BY <1>2, <1>4, ElementOfSeq
    <2> QED BY <1>2, <1>4, <2>1
  <1> HIDE DEF raw
  <1>11. WellRead(body, n, usage')
    <2>1. n - 1 - t = i - 1 /\ n - t = i /\ i \in Nat
      BY <1>4, <1>5
    <2>2. n - 1 - t <= Len(raw)
      BY <1>10, <2>1
    <2>3. \A k \in 1..(n - 1 - t) : Similar(raw[k], body[t + k])
      BY <1>2, <1>4, <1>6, <1>10, <2>1
    <2>4. \A k \in (n - t)..Len(raw) : raw[k] \in Blanks
      BY <1>4, <1>10, <2>1 DEF Blanks
    <2>5. usage' = ParseLine(usage, Trimmed(raw))
      BY <1>1 DEF raw
    <2> HIDE DEF n
    <2>6. WellRead(body, n, ParseLine(usage, Trimmed(raw)))
      BY <1>2, <1>6, <1>9, <1>10, <2>2, <2>3, <2>4, LineParsed
    <2> QED BY <2>5, <2>6
  <1>12. ASSUME NEW k \in 1..Len(pending')
         PROVE  Similar(pending'[k], body[n + k])
    <2>1. \A j \in (i + 1)..m : pending[j] \in Symbols
      BY <1>2, <1>4, ElementOfSeq
    <2>2. pending'[k] = pending[i + k] /\ i + k \in 1..m
      BY <1>1, <1>2, <1>4, <2>1
    <2>3. t + (i + k) = n + k
      BY <1>4, <1>5
    <2> QED BY <1>6, <2>2, <2>3
  <1>13. Reading'
    BY <1>1, <1>7, <1>8, <1>11, <1>12 DEF Reading
  <1> QED BY <1>1, <1>11, <1>13 DEF UsageInv

(* The body ends, and with it the last line.                               *)
LEMMA UsageFinish ==
  ASSUME RelayInv, UsageInv, Finish
  PROVE  UsageInv'
  <1> DEFINE m == Len(pending)
  <1> DEFINE t == Consumed
  <1> DEFINE n == Len(body) + 1
  <1>1. /\ body \in Seq(Symbols) /\ Len(body) \in Nat /\ pos = Len(body)
        /\ pending \in Seq(Symbols) /\ m \in Nat /\ Newlines(pending) = {}
        /\ pc = "read" /\ pc' = "ok" /\ body' = body
    BY LenProperties DEF Finish, RelayInv, Position, Parser
  <1>2. usage' = ParseLine(usage, Trimmed(pending))
    <2>1. CASE pending = <<>>
      <3>1. PICK k \in 0..Len(pending) : Trimmed(pending) = SubSeq(pending, 1, k)
        BY <1>1, TrimmedText
      <3>2. Len(Trimmed(pending)) = 0
        BY <2>1, <3>1
      <3>3. ~IsEvent(Trimmed(pending))
        BY <3>2 DEF IsEvent
      <3>4. ParseLine(usage, Trimmed(pending)) = usage
        BY <3>3 DEF ParseLine
      <3> QED BY <2>1, <3>4 DEF Finish
    <2>2. CASE pending # <<>>
      BY <2>2 DEF Finish
    <2> QED BY <2>1, <2>2
  <1>3. /\ t = 0 \/ body[t] = "nl"
        /\ \A k \in 1..m : Similar(pending[k], body[t + k])
        /\ WellRead(body, t, usage)
    BY <1>1 DEF UsageInv, Reading
  <1>4. t \in Nat /\ t = Len(body) - m
    BY <1>1 DEF UsageInv, Reading, Consumed
  <1> HIDE DEF t
  <1>5. NextLine(body, t, n)
    <2>1. ASSUME NEW k \in (t + 1)..(n - 1)
          PROVE  body[k] # "nl"
      <3>1. k - t \in 1..m /\ t + (k - t) = k
        BY <1>1, <1>4
      <3>2. Similar(pending[k - t], body[k]) /\ pending[k - t] # "nl"
        BY <1>1, <1>3, <3>1 DEF Newlines
      <3> QED BY <3>2, SimilarSymbols
    <2> QED BY <1>1, <1>3, <1>4, <2>1 DEF NextLine
  <1>6. WellRead(body, n, usage')
    <2>1. n - 1 - t = m /\ n - t = m + 1
      BY <1>1, <1>4
    <2>2. n - 1 - t <= Len(pending)
      BY <1>1, <2>1
    <2>3. \A k \in 1..(n - 1 - t) : Similar(pending[k], body[t + k])
      BY <1>3, <2>1
    <2>4. \A k \in (n - t)..Len(pending) : pending[k] \in Blanks
      BY <1>1, <2>1
    <2> HIDE DEF n
    <2>5. WellRead(body, n, ParseLine(usage, Trimmed(pending)))
      BY <1>1, <1>3, <1>5, <2>2, <2>3, <2>4, LineParsed
    <2> QED BY <1>2, <2>5
  <1> QED BY <1>1, <1>6 DEF UsageInv, Reading

LEMMA UsageInvUnread ==
  ASSUME RelayInv, UsageInv, Receive \/ Post \/ Refused \/ Drained \/ Forward \/ Fail
  PROVE  UsageInv'
  <1>1. UNCHANGED <<body, pos, pending, usage>>
    BY DEF Receive, Post, Refused, Drained, Forward, Fail, vars
  <1>2. pc # "ok" /\ pc' # "ok"
    BY DEF Receive, Post, Refused, Drained, Forward, Fail, vars, RelayInv, Call, Fresh
  <1>3. Consumed' = Consumed
    BY <1>1 DEF Consumed
  <1>4. Reading'
    BY <1>1, <1>2, <1>3 DEF UsageInv, Reading
  <1> QED BY <1>2, <1>4 DEF UsageInv

LEMMA UsageRespond ==
  ASSUME RelayInv, Respond
  PROVE  UsageInv'
  <1>1. Fresh'
    BY DEF Respond, RelayInv, Call, Fresh
  <1>2. body' \in Seq(Symbols)
    BY RespondStep DEF RelayInv, Position
  <1>3. /\ pos' = 0 /\ pc' = "read" /\ Len(pending') = 0
        /\ usage' = [input |-> None, output |-> None]
    BY <1>1, EmptySeq DEF Fresh, NoUsage
  <1>4. usage'.input = None /\ usage'.output = None
    BY <1>3
  <1>5. Consumed' = 0
    BY <1>3 DEF Consumed
  <1>6. WellRead(body', 0, usage')
    BY <1>2, <1>3, <1>4, NothingRead DEF WellRead
  <1> QED BY <1>3, <1>5, <1>6 DEF UsageInv, Reading

LEMMA AskedNext ==
  ASSUME RelayInv, Asked, RelayNext
  PROVE  Asked'
  <1>1. CASE Receive \/ Refused
    <2>1. call' # "posted" /\ call' # "stream"
      BY <1>1 DEF Receive, Refused
    <2> QED BY <2>1 DEF Asked
  <1>2. CASE Post
    BY <1>2 DEF Post, Asked
  <1>3. CASE Respond
    <2>1. call = "posted" /\ call' = "stream" /\ metered' = metered
          /\ body' \in Answers(posted)
      BY <1>3 DEF Respond
    <2>2. frame \in Frames /\ job = Parsed(frame)
      BY <2>1 DEF RelayInv, Call
    <2>3. posted = Prepared(job) /\ metered = ~OptedOut(job.request)
      BY <2>1 DEF Asked
    <2>4. posted.object
      BY <2>1 DEF Answers
    <2>5. posted.fields["stream"] = "true" /\ (OptedOut(posted) <=> OptedOut(job.request))
      BY <2>2, <2>3, <2>4, PreparedRequest
    <2>6. body' \in {s \in Streams : OptedOut(posted) \/ LastCount(s, OutputKeys) # None}
      BY <2>1, <2>4, <2>5 DEF Answers
    <2>7. metered' => LastCount(body', OutputKeys) # None
      BY <2>1, <2>3, <2>5, <2>6
    <2> QED BY <2>1, <2>7 DEF Asked
  <1>4. CASE Streaming
    <2>1. UNCHANGED <<call, posted, job, metered>> /\ body' = body
      BY <1>4 DEF Streaming, Next, Arrive, DrainLine, Drained, Forward, Fail, Finish
    <2> QED BY <2>1 DEF Asked
  <1> QED BY <1>1, <1>2, <1>3, <1>4 DEF RelayNext

LEMMA MeterInvAlways == RelaySpec => []MeterInv
  <1>1. RelayInit => MeterInv
    <2> SUFFICES ASSUME RelayInit
                 PROVE  MeterInv
      OBVIOUS
    <2>1. Fresh /\ body \in Seq(Symbols) /\ call = "frame"
      BY EmptySeq DEF RelayInit
    <2> QED BY <2>1, RelayInvInit, UsageAtRest DEF MeterInv, Asked
  <1>2. MeterInv /\ [RelayNext]_relayVars => MeterInv'
    <2> SUFFICES ASSUME MeterInv, [RelayNext]_relayVars
                 PROVE  MeterInv'
      OBVIOUS
    <2>1. RelayInv'
      BY RelayInvNext DEF MeterInv
    <2>2. CASE UNCHANGED relayVars
      <3>1. UNCHANGED <<body, pos, pc, pending, usage, call, job, posted, metered>>
        BY <2>2 DEF relayVars, vars
      <3>2. UsageInv'
        BY <3>1 DEF MeterInv, UsageInv, Reading, Consumed
      <3>3. Asked'
        BY <3>1 DEF MeterInv, Asked
      <3> QED BY <2>1, <3>2, <3>3 DEF MeterInv
    <2>3. CASE RelayNext
      <3>1. Asked'
        BY <2>3, AskedNext DEF MeterInv
      <3>2. UsageInv'
        BY <2>3, UsageInvUnread, UsageRespond, UsageArrive, UsageDrainLine, UsageFinish
           DEF MeterInv, RelayNext, Streaming, Next
      <3> QED BY <2>1, <3>1, <3>2 DEF MeterInv
    <2> QED BY <2>2, <2>3
  <1> QED BY <1>1, <1>2, PTL DEF RelaySpec

-----------------------------------------------------------------------------
(***************************************************************************)
(* Type correctness: counts of 32 bits, a deadline of 32 bits, no complete *)
(* line left in the buffer of the parser between two chunks.               *)
(***************************************************************************)
THEOREM RelayTypeCorrect == RelaySpec => []RelayTypeOK
  <1>1. RelayInv => RelayTypeOK
    <2> SUFFICES ASSUME RelayInv
                 PROVE  RelayTypeOK
      OBVIOUS
    <2>1. pos \in 0..Len(body) /\ relayed \in Seq(Symbols)
      <3>1. body \in Seq(Symbols) /\ Len(body) \in Nat
        <4>1. body \in Seq(Symbols)
          BY DEF RelayInv, Position
        <4> QED BY <4>1, LenProperties
      <3>2. pos \in Nat /\ pos <= Len(body)
        BY DEF RelayInv, Position
      <3>3. relayed = SubSeq(body, 1, Len(relayed)) /\ Len(relayed) <= pos
        BY DEF RelayInv, Position
      <3> QED BY <3>1, <3>2, <3>3
    <2>2. TypeOK
      BY <2>1 DEF RelayInv, Parser, Counts, TypeOK
    <2> QED BY <2>2 DEF RelayInv, Call, RelayTypeOK
  <1> QED BY <1>1, RelayInvAlways, PTL

(***************************************************************************)
(* The coordinator gets the bytes of the backend, in order and without a   *)
(* gap, all of them if the call succeeds: for every body and every cut.    *)
(***************************************************************************)
THEOREM RelayIsVerbatim == RelaySpec => []RelayedVerbatim
  <1>1. RelayInv => RelayedVerbatim
    <2> SUFFICES ASSUME RelayInv
                 PROVE  RelayedVerbatim
      OBVIOUS
    <2>1. relayed = SubSeq(body, 1, Len(relayed))
      BY DEF RelayInv, Position
    <2>2. ASSUME pc = "ok"
          PROVE  relayed = body
      <3>1. Len(relayed) = Len(body) /\ body \in Seq(Symbols)
        BY <2>2 DEF RelayInv, Position
      <3>2. SubSeq(body, 1, Len(body)) = body
        BY <3>1, SubSeqFull
      <3> QED BY <2>1, <3>1, <3>2
    <2> QED BY <2>1, <2>2 DEF RelayedVerbatim
  <1> QED BY <1>1, RelayInvAlways, PTL

(***************************************************************************)
(* A deadline is never prolonged on its way to the two timers, and kept    *)
(* when it fits in 32 bits, for every deadline and the real widths.        *)
(***************************************************************************)
THEOREM DeadlineIsKept == RelaySpec => []DeadlineKept
  <1>1. RelayInv => DeadlineKept
    <2> SUFFICES ASSUME RelayInv, call \in {"routed", "posted"}
                 PROVE  /\ DriverLimit(job) <= UpstreamLimit(job)
                        /\ frame.deadline >= 0 =>
                             DriverLimit(job) <= AtLeast(frame.deadline, 1)
                        /\ frame.deadline \in 0..(Span - 1) =>
                             DriverLimit(job) = AtLeast(frame.deadline, 1)
      BY DEF DeadlineKept
    <2>1. frame \in Frames /\ job = Parsed(frame)
      BY DEF RelayInv, Call
    <2>2. frame.deadline \in Nat \cup {NoNumber}
      BY <2>1, RelayAssumption DEF RelayAssumption
    <2>3. /\ job.deadline_ms \in 0..(Span - 1)
          /\ frame.deadline >= 0 => job.deadline_ms <= frame.deadline
          /\ frame.deadline \in 0..(Span - 1) => job.deadline_ms = frame.deadline
      BY <2>1, ParsedDeadline
    <2>4. Span \in Nat /\ LeastUpstream \in Nat /\ LeastUpstream >= 1
      BY InboundAssumption DEF InboundAssumption
    <2> DEFINE d == job.deadline_ms
    <2> DEFINE f == frame.deadline
    <2>5. d \in Nat /\ f \in Int
      BY <2>2, <2>3, <2>4 DEF NoNumber
    <2>6. DriverLimit(job) = (IF d < 1 THEN 1 ELSE d)
      BY DEF DriverLimit, AtLeast
    <2>7. UpstreamLimit(job) = (IF d < LeastUpstream THEN LeastUpstream ELSE d)
      BY DEF UpstreamLimit, AtLeast
    <2>8. AtLeast(f, 1) = (IF f < 1 THEN 1 ELSE f)
      BY DEF AtLeast
    <2>9. /\ f >= 0 => d <= f
          /\ f \in 0..(Span - 1) => d = f
      BY <2>3
    <2> HIDE DEF d, f
    <2>10. DriverLimit(job) <= UpstreamLimit(job)
      BY <2>4, <2>5, <2>6, <2>7
    <2>11. /\ f >= 0 => DriverLimit(job) <= AtLeast(f, 1)
           /\ f \in 0..(Span - 1) => DriverLimit(job) = AtLeast(f, 1)
      BY <2>5, <2>6, <2>8, <2>9
    <2> QED BY <2>10, <2>11 DEF f
  <1> QED BY <1>1, RelayInvAlways, PTL

(***************************************************************************)
(* The usage of job_done is that of the body the backend sent: for each    *)
(* count the last event that carries it, for every body and every cut.     *)
(***************************************************************************)
THEOREM UsageIsOfTheBody == RelaySpec => []UsageOfBody
  <1>1. MeterInv => UsageOfBody
    <2> SUFFICES ASSUME MeterInv, pc = "ok"
                 PROVE  usage = [input  |-> LastCount(body, InputKeys),
                                 output |-> LastCount(body, OutputKeys)]
      BY DEF UsageOfBody
    <2>1. WellRead(body, Len(body) + 1, usage) /\ body \in Seq(Symbols)
      BY DEF MeterInv, UsageInv, RelayInv, Position
    <2>2. /\ LastCount(body, InputKeys) = usage.input
          /\ LastCount(body, OutputKeys) = usage.output
      BY <2>1, AllLinesRead DEF WellRead
    <2> QED BY <2>1, <2>2 DEF WellRead
  <1> QED BY <1>1, MeterInvAlways, PTL

(***************************************************************************)
(* A job that ends well reports its output tokens unless the coordinator   *)
(* opted out, for every request and every answer of the engine.            *)
(***************************************************************************)
THEOREM AnswersAreMetered == RelaySpec => []Metered
  <1>1. MeterInv => Metered
    <2> SUFFICES ASSUME MeterInv, pc = "ok", metered
                 PROVE  usage.output # None
      BY DEF Metered
    <2>1. WellRead(body, Len(body) + 1, usage) /\ body \in Seq(Symbols)
      BY DEF MeterInv, UsageInv, RelayInv, Position
    <2>2. LastCount(body, OutputKeys) = usage.output
      BY <2>1, AllLinesRead DEF WellRead
    <2>3. call = "stream"
      BY DEF MeterInv, RelayInv, Call, Fresh
    <2> QED BY <2>2, <2>3 DEF MeterInv, Asked
  <1> QED BY <1>1, MeterInvAlways, PTL
=============================================================================
