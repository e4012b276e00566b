---------------------------- MODULE BridgeProofs ----------------------------
(***************************************************************************)
(* Proofs about AlertBridge, for every length of lines, every buffer size  *)
(* and any number of restarts, removals and torn writes: the bridge        *)
(* publishes no alert twice and none out of order, and as long as the file *)
(* it follows is not truncated it skips none.                              *)
(***************************************************************************)
EXTENDS AlertBridge, SequenceTheorems, TLAPS

\* v comes after u in the order in which the pipeline raised the alerts.
Before(u, v) ==
    \/ u.line < v.line
    \/ u.line = v.line /\ u.len = v.len /\ u.pos < v.pos

Ordered(s) == \A j, k \in DOMAIN s : j < k => Before(s[j], s[k])

Precedes(s, t) == \A j \in DOMAIN s, k \in DOMAIN t : Before(s[j], t[k])

\* Units of alerts that have been raised.
Raised(s) == \A j \in DOMAIN s : s[j].line \in 1..written /\ s[j].pos \in 1..s[j].len

\* The pipeline writes to the newest file, and alerts.json names no other.
NewestIsWritten ==
    /\ wfd = Len(files) /\ path \in {0, wfd}
    /\ rest # <<>> => wfd # 0
    /\ pc # "open" => rfd # 0
    /\ pc # "read" => buf = <<>>

\* What is in a file, in the buffer and still to be written is in order.
UnitsInOrder ==
    /\ Raised(rest) /\ Ordered(rest)
    /\ Raised(buf) /\ Ordered(buf) /\ Precedes(buf, rest)
    /\ \A i \in DOMAIN files :
           Raised(files[i]) /\ Ordered(files[i]) /\ Precedes(files[i], rest)
    /\ pc # "open" =>
           \A j \in DOMAIN buf, k \in DOMAIN files[rfd] :
               k > off => Before(buf[j], files[rfd][k])

\* What has been published is older than all that can still be read.
PublishedIsPast ==
    \A n \in DOMAIN published :
        /\ published[n] <= written
        /\ \A k \in DOMAIN rest : published[n] < rest[k].line
        /\ \A k \in DOMAIN buf : published[n] < buf[k].line
        /\ pc # "open" =>
               \A k \in DOMAIN files[rfd] : k > off => published[n] < files[rfd][k].line

TypeInv == TypeOK /\ NewestIsWritten

OrderInv == UnitsInOrder /\ PublishedIsPast /\ PublishedInOrder

\* The file the bridge follows is the one written, and was not truncated since.
Following == intact /\ pc # "open" /\ wfd = rfd

Unread == SubSeq(files[rfd], off + 1, Len(files[rfd]))

\* All units the bridge has yet to hand over of the lines raised so far.
Stream == buf \o Unread \o rest

IsNewline(u) == u.pos = u.len

\* Lines without gaps: a unit is followed by the next one of its line, a newline
\* by the first unit of another line, and the last line is whole.
Gapless(s) ==
    /\ \A j, k \in DOMAIN s :
           j <= k /\ (\A i \in j..(k - 1) : ~IsNewline(s[i])) =>
               /\ s[k].line = s[j].line /\ s[k].len = s[j].len
               /\ s[k].pos = s[j].pos + (k - j)
    /\ \A j, k \in DOMAIN s : IsNewline(s[j]) /\ k = j + 1 => s[k].pos = 1
    /\ s # <<>> => IsNewline(s[Len(s)])

\* A line of which the bridge has only the end was not raised since the bridge
\* opened the file, or became visible in parts.
HeadIsExcused(s) ==
    s # <<>> /\ s[1].pos # 1 => s[1].line <= opened \/ s[1].line \in excused

\* What is not written yet is the end of one torn line.
RestIsTorn ==
    /\ Gapless(rest)
    /\ \A j, k \in DOMAIN rest : rest[j].line = rest[k].line
    /\ \A k \in DOMAIN rest : rest[k].line \in excused

FollowInv ==
    /\ RestIsTorn
    /\ Following => off <= Len(files[rfd]) /\ Gapless(Stream) /\ HeadIsExcused(Stream)
    /\ NothingSkipped
-----------------------------------------------------------------------------
(***************************************************************************)
(* What the operators on sequences of units do, position by position.      *)
(***************************************************************************)
LEMMA SeqFacts ==
    ASSUME NEW S, NEW s \in Seq(S)
    PROVE  /\ Len(s) \in Nat /\ DOMAIN s = 1..Len(s)
           /\ \A k \in DOMAIN s : s[k] \in S
           /\ s = <<>> <=> Len(s) = 0
OBVIOUS

\* The part of a sequence after its first n elements.
LEMMA Dropping ==
    ASSUME NEW S, NEW s \in Seq(S), NEW n \in Nat,
           NEW d, d = SubSeq(s, n + 1, Len(s))
    PROVE  /\ d \in Seq(S) /\ Len(d) = IF n <= Len(s) THEN Len(s) - n ELSE 0
           /\ \A k \in DOMAIN d : n + k \in DOMAIN s /\ d[k] = s[n + k]
           /\ \A k \in DOMAIN s : k > n => k - n \in DOMAIN d /\ d[k - n] = s[k]
<1>1. Len(s) \in Nat /\ DOMAIN s = 1..Len(s) /\ \A k \in DOMAIN s : s[k] \in S
  OBVIOUS
<1>2. PICK l \in Nat : l = Len(s)
  BY <1>1
<1>3. /\ d \in Seq(S) /\ Len(d) = IF n + 1 <= l THEN l - (n + 1) + 1 ELSE 0
      /\ \A k \in 1..(l - (n + 1) + 1) : d[k] = s[n + 1 + k - 1]
  <2>1. \A k \in (n + 1)..l : s[k] \in S
    BY <1>1, <1>2
  <2>2. n + 1 \in Int /\ l \in Int
    BY <1>2
  <2> QED BY <1>2, <2>1, <2>2, SubSeqProperties
<1>4. PICK m \in Nat : m = Len(d) /\ DOMAIN d = 1..m
  BY <1>3
<1>5. m = IF n <= l THEN l - n ELSE 0
  BY <1>2, <1>3, <1>4
<1>6. \A k \in 1..m : n + k \in 1..l /\ d[k] = s[n + k]
  <2> SUFFICES ASSUME NEW k \in 1..m PROVE n + k \in 1..l /\ d[k] = s[n + k]
    OBVIOUS
  <2>1. k \in 1..(l - (n + 1) + 1) /\ n + 1 + k - 1 = n + k /\ n + k \in 1..l
    BY <1>2, <1>4, <1>5
  <2> QED BY <1>3, <2>1
<1>7. \A k \in 1..l : k > n => k - n \in 1..m /\ n + (k - n) = k
  BY <1>2, <1>4, <1>5
<1>8. \A k \in 1..l : k > n => k - n \in 1..m /\ d[k - n] = s[k]
  BY <1>6, <1>7
<1> QED BY <1>1, <1>2, <1>3, <1>4, <1>5, <1>6, <1>8

\* The first n elements of a sequence.
LEMMA Taking ==
    ASSUME NEW S, NEW s \in Seq(S), NEW n \in 0..Len(s)
    PROVE  /\ SubSeq(s, 1, n) \in Seq(S) /\ Len(SubSeq(s, 1, n)) = n
           /\ \A k \in 1..n : k \in DOMAIN s /\ SubSeq(s, 1, n)[k] = s[k]
<1>1. Len(s) \in Nat /\ DOMAIN s = 1..Len(s) /\ \A k \in DOMAIN s : s[k] \in S
  OBVIOUS
<1>2. \A k \in 1..n : s[k] \in S
  BY <1>1
<1>3. n \in Int /\ 1 \in Int
  BY <1>1
<1>4. /\ SubSeq(s, 1, n) \in Seq(S) /\ Len(SubSeq(s, 1, n)) = IF 1 <= n THEN n - 1 + 1 ELSE 0
      /\ \A k \in 1..(n - 1 + 1) : SubSeq(s, 1, n)[k] = s[1 + k - 1]
  BY <1>2, <1>3, SubSeqProperties
<1> QED BY <1>1, <1>4

\* Two sequences one after the other.
LEMMA Joining ==
    ASSUME NEW S, NEW s \in Seq(S), NEW t \in Seq(S), NEW c, c = s \o t
    PROVE  /\ c \in Seq(S) /\ Len(c) = Len(s) + Len(t)
           /\ \A k \in DOMAIN s : k \in DOMAIN c /\ c[k] = s[k]
           /\ \A k \in DOMAIN t : Len(s) + k \in DOMAIN c /\ c[Len(s) + k] = t[k]
           /\ \A k \in DOMAIN c :
                  \/ k \in DOMAIN s
                  \/ k > Len(s) /\ k - Len(s) \in DOMAIN t /\ c[k] = t[k - Len(s)]
<1>1. /\ c \in Seq(S) /\ Len(c) = Len(s) + Len(t)
      /\ \A i \in 1..(Len(s) + Len(t)) :
             c[i] = IF i <= Len(s) THEN s[i] ELSE t[i - Len(s)]
  BY ConcatProperties
<1>2. /\ DOMAIN s = 1..Len(s) /\ DOMAIN t = 1..Len(t) /\ Len(s) \in Nat /\ Len(t) \in Nat
      /\ DOMAIN c = 1..(Len(s) + Len(t))
  BY <1>1
<1>3. \A k \in DOMAIN s : k \in DOMAIN c /\ c[k] = s[k]
  BY <1>1, <1>2
<1>4. \A k \in DOMAIN t : Len(s) + k \in DOMAIN c /\ c[Len(s) + k] = t[k]
  <2> SUFFICES ASSUME NEW k \in DOMAIN t
               PROVE  Len(s) + k \in DOMAIN c /\ c[Len(s) + k] = t[k]
    OBVIOUS
  <2>1. /\ Len(s) + k \in 1..(Len(s) + Len(t)) /\ ~(Len(s) + k <= Len(s))
        /\ Len(s) + k - Len(s) = k
    BY <1>2
  <2> QED BY <1>1, <1>2, <2>1
<1>5. \A k \in DOMAIN c :
          \/ k \in DOMAIN s
          \/ k > Len(s) /\ k - Len(s) \in DOMAIN t /\ c[k] = t[k - Len(s)]
  BY <1>1, <1>2
<1> QED BY <1>1, <1>3, <1>4, <1>5

\* One write makes the first n of its units visible at the end of the file.
Writes(units, n) ==
    /\ files' \in Seq(Seq(Unit)) /\ Len(files') = Len(files)
    /\ \A i \in DOMAIN files : i # wfd => files'[i] = files[i]
    /\ files'[wfd] = files[wfd] \o SubSeq(units, 1, n)
    /\ Len(files'[wfd]) = Len(files[wfd]) + n
    /\ \A k \in DOMAIN files[wfd] :
           k \in DOMAIN files'[wfd] /\ files'[wfd][k] = files[wfd][k]
    /\ \A k \in 1..n : /\ Len(files[wfd]) + k \in DOMAIN files'[wfd]
                       /\ files'[wfd][Len(files[wfd]) + k] = units[k]
    /\ \A k \in DOMAIN files'[wfd] :
           \/ k \in DOMAIN files[wfd]
           \/ /\ k > Len(files[wfd]) /\ k - Len(files[wfd]) \in 1..n
              /\ files'[wfd][k] = units[k - Len(files[wfd])]
    /\ rest' \in Seq(Unit) /\ rest' = SubSeq(units, n + 1, Len(units))
    /\ Len(rest') = Len(units) - n
    /\ \A k \in DOMAIN rest' : n + k \in DOMAIN units /\ rest'[k] = units[n + k]
    /\ excused' = IF n < Len(units) THEN excused \cup {units[1].line} ELSE excused

LEMMA WriteFacts ==
    ASSUME files \in Seq(Seq(Unit)), wfd \in DOMAIN files,
           NEW units \in Seq(Unit), units # <<>>, WriteUnits(units)
    PROVE  \E n \in 1..Len(units) : Writes(units, n)
<1>1. Len(units) \in Nat \ {0}
  BY SeqFacts
<1>2. PICK n \in 1..Len(units) :
         /\ AppendUnits(SubSeq(units, 1, n))
         /\ rest' = SubSeq(units, n + 1, Len(units))
         /\ excused' = IF n < Len(units) THEN excused \cup {units[1].line} ELSE excused
  BY <1>1 DEF WriteUnits, Pieces
<1>3. n \in 0..Len(units) /\ n \in Nat
  BY <1>1
<1>4. PICK t : t = SubSeq(units, 1, n)
  OBVIOUS
<1>5. t \in Seq(Unit) /\ Len(t) = n /\ DOMAIN t = 1..n /\ \A k \in 1..n : t[k] = units[k]
  BY <1>3, <1>4, Taking
<1>6. files[wfd] \in Seq(Unit) /\ files' = [files EXCEPT ![wfd] = files[wfd] \o t]
  BY <1>2, <1>4, SeqFacts DEF AppendUnits
<1>7. PICK f : f = files[wfd]
  OBVIOUS
<1>8. PICK c : c = f \o t
  OBVIOUS
<1>81. /\ c \in Seq(Unit) /\ Len(c) = Len(f) + Len(t)
       /\ \A k \in DOMAIN f : k \in DOMAIN c /\ c[k] = f[k]
       /\ \A k \in DOMAIN t : Len(f) + k \in DOMAIN c /\ c[Len(f) + k] = t[k]
       /\ \A k \in DOMAIN c :
              \/ k \in DOMAIN f
              \/ k > Len(f) /\ k - Len(f) \in DOMAIN t /\ c[k] = t[k - Len(f)]
  BY <1>5, <1>6, <1>7, <1>8, Joining
<1>82. /\ Len(c) = Len(f) + n
       /\ \A k \in 1..n : Len(f) + k \in DOMAIN c /\ c[Len(f) + k] = units[k]
       /\ \A k \in DOMAIN c :
              \/ k \in DOMAIN f
              \/ k > Len(f) /\ k - Len(f) \in 1..n /\ c[k] = units[k - Len(f)]
  BY <1>5, <1>81
<1>9. /\ files' \in Seq(Seq(Unit)) /\ Len(files') = Len(files)
      /\ \A i \in DOMAIN files : i # wfd => files'[i] = files[i]
      /\ files'[wfd] = c
  <2>1. files' = [files EXCEPT ![wfd] = c] /\ wfd \in 1..Len(files)
    BY <1>6, <1>7, <1>8, SeqFacts
  <2> QED BY <1>81, <2>1, ExceptSeq
<1>10. /\ rest' \in Seq(Unit) /\ Len(rest') = Len(units) - n
       /\ \A k \in DOMAIN rest' : n + k \in DOMAIN units /\ rest'[k] = units[n + k]
  BY <1>2, <1>3, Dropping
<1> QED BY <1>2, <1>4, <1>7, <1>8, <1>81, <1>82, <1>9, <1>10 DEF Writes

\* The units of one alert, as FileAlertHandler::send writes them.
LEMMA LineFacts ==
    ASSUME NEW id \in Nat, NEW len \in Nat \ {0}
    PROVE  /\ Line(id, len) \in Seq(Unit) /\ Len(Line(id, len)) = len
           /\ Line(id, len) # <<>> /\ DOMAIN Line(id, len) = 1..len
           /\ \A p \in 1..len : Line(id, len)[p] = [line |-> id, pos |-> p, len |-> len]
<1>1. \A p \in 1..len : [line |-> id, pos |-> p, len |-> len] \in Unit
  BY DEF Unit
<1>2. Line(id, len) \in [1..len -> Unit]
  BY <1>1 DEF Line
<1>3. Line(id, len) \in Seq(Unit) /\ Len(Line(id, len)) = len
  BY <1>2
<1>4. DOMAIN Line(id, len) = 1..len
  BY <1>2
<1>5. Line(id, len) # <<>>
  BY <1>3
<1> QED BY <1>3, <1>4, <1>5 DEF Line

-----------------------------------------------------------------------------
(***************************************************************************)
(* Type correctness.                                                       *)
(***************************************************************************)
LEMMA TypeInit == Init => TypeInv
BY DEF Init, TypeInv, TypeOK, NewestIsWritten, BridgePc

LEMMA TypeSend ==
    ASSUME TypeInv, Send \/ SendRest
    PROVE  TypeInv'
<1>1. \E units \in Seq(Unit) : units # <<>> /\ WriteUnits(units)
  <2>1. CASE Send
    <3>1. PICK len \in Lengths : WriteUnits(Line(written + 1, len))
      BY <2>1 DEF Send
    <3>2. len \in Nat \ {0} /\ written + 1 \in Nat
      BY BridgeAssumption DEF TypeInv, TypeOK
    <3> QED BY <3>1, <3>2, LineFacts
  <2>2. CASE SendRest
    BY <2>2 DEF SendRest, TypeInv, TypeOK
  <2> QED BY <2>1, <2>2
<1>2. PICK units \in Seq(Unit) : units # <<>> /\ WriteUnits(units)
  BY <1>1
<1>3. wfd # 0 /\ wfd = Len(files) /\ files \in Seq(Seq(Unit))
  BY DEF TypeInv, TypeOK, NewestIsWritten, Send, SendRest
<1>4. wfd \in DOMAIN files
  BY <1>3, SeqFacts
<1>5. PICK n \in 1..Len(units) : Writes(units, n)
  BY <1>2, <1>3, <1>4, WriteFacts
<1>6. units[1].line \in Nat
  <2>1. units[1] \in Unit
    BY <1>2, SeqFacts
  <2> QED BY <2>1 DEF Unit
<1>7. excused' \in SUBSET Nat
  BY <1>5, <1>6 DEF Writes, TypeInv, TypeOK
<1>8. written' \in Nat
  BY DEF Send, SendRest, TypeInv, TypeOK
<1>9. /\ UNCHANGED <<path, wfd, bridgeVars, faults, opened, intact>>
      /\ Len(files') = Len(files) /\ files' \in Seq(Seq(Unit)) /\ rest' \in Seq(Unit)
  BY <1>5 DEF Send, SendRest, Writes
<1> QED BY <1>3, <1>7, <1>8, <1>9 DEF TypeInv, TypeOK, NewestIsWritten, bridgeVars

LEMMA TypeFile ==
    ASSUME TypeInv, OpenTruncating \/ Remove
    PROVE  TypeInv'
<1>1. CASE Remove
  BY <1>1 DEF Remove, Disturb, TypeInv, TypeOK, NewestIsWritten, pipelineVars, bridgeVars, ghosts
<1>2. CASE OpenTruncating
  <2>1. faults' \in Nat
    BY <1>2 DEF OpenTruncating, Disturb, TypeInv, TypeOK
  <2>2. <<>> \in Seq(Unit) /\ files \in Seq(Seq(Unit)) /\ Len(files) \in Nat
    BY DEF TypeInv, TypeOK
  <2>3. /\ wfd' = path' /\ rest' = <<>> /\ UNCHANGED <<written, bridgeVars, opened, excused>>
    BY <1>2 DEF OpenTruncating
  <2>4. CASE path = 0
    <3>1. files' = Append(files, <<>>) /\ path' = Len(files) + 1 /\ UNCHANGED intact
      BY <1>2, <2>4 DEF OpenTruncating
    <3>2. files' \in Seq(Seq(Unit)) /\ Len(files') = Len(files) + 1
      BY <2>2, <3>1, AppendProperties
    <3> QED BY <2>1, <2>2, <2>3, <3>1, <3>2
            DEF TypeInv, TypeOK, NewestIsWritten, bridgeVars
  <2>5. CASE path # 0
    <3>1. /\ files' = [files EXCEPT ![path] = <<>>] /\ UNCHANGED path
          /\ intact' = (intact /\ (pc = "open" \/ rfd # path))
      BY <1>2, <2>5 DEF OpenTruncating
    <3>2. path \in 1..Len(files)
      BY <2>2, <2>5 DEF TypeInv, TypeOK
    <3>3. files' \in Seq(Seq(Unit)) /\ Len(files') = Len(files)
      BY <2>2, <3>1, <3>2, ExceptSeq
    <3>4. intact' \in BOOLEAN
      BY <3>1
    <3> QED BY <2>1, <2>2, <2>3, <2>5, <3>1, <3>3, <3>4
            DEF TypeInv, TypeOK, NewestIsWritten, bridgeVars
  <2> QED BY <2>4, <2>5
<1> QED BY <1>1, <1>2

LEMMA FollowedFile ==
    ASSUME TypeInv, pc # "open"
    PROVE  rfd \in DOMAIN files /\ files[rfd] \in Seq(Unit)
<1>1. rfd \in 1..Len(files) /\ files \in Seq(Seq(Unit))
  BY DEF TypeInv, TypeOK, NewestIsWritten
<1> QED BY <1>1, SeqFacts

\* One read: a part of the followed file moves to the buffer.
FillTo(n) ==
    /\ n \in 1..(Len(files[rfd]) - off) /\ off < Len(files[rfd]) /\ off' = off + n
    /\ buf' = buf \o SubSeq(files[rfd], off + 1, off + n)
    /\ buf' \in Seq(Unit) /\ Len(buf') = Len(buf) + n
    /\ \A k \in DOMAIN buf : k \in DOMAIN buf' /\ buf'[k] = buf[k]
    /\ \A k \in DOMAIN buf' :
           \/ k \in DOMAIN buf
           \/ /\ k > Len(buf) /\ k - Len(buf) \in 1..n
              /\ off + (k - Len(buf)) \in DOMAIN files[rfd]
              /\ buf'[k] = files[rfd][off + (k - Len(buf))]

LEMMA FillFacts ==
    ASSUME TypeInv, Fill
    PROVE  \E n \in Nat : FillTo(n)
<1>1. rfd \in DOMAIN files /\ files[rfd] \in Seq(Unit)
  BY FollowedFile DEF Fill
<1>2. PICK f : f = files[rfd]
  OBVIOUS
<1>3. off \in Nat /\ Len(f) \in Nat /\ BufSize \in Nat \ {0} /\ off < Len(f)
  BY <1>1, <1>2, BridgeAssumption DEF TypeInv, TypeOK, Fill, AtEnd
<1>4. \E n \in 1..(Len(f) - off) : UpTo(off + BufSize) = off + n
  <2>1. CASE off + BufSize < Len(f)
    <3>1. UpTo(off + BufSize) = off + BufSize /\ BufSize \in 1..(Len(f) - off)
      BY <1>2, <1>3, <2>1 DEF UpTo
    <3> QED BY <3>1
  <2>2. CASE ~(off + BufSize < Len(f))
    <3>1. UpTo(off + BufSize) = off + (Len(f) - off) /\ Len(f) - off \in 1..(Len(f) - off)
      BY <1>2, <1>3, <2>2 DEF UpTo
    <3> QED BY <3>1
  <2> QED BY <2>1, <2>2
<1>5. PICK n \in 1..(Len(f) - off) : UpTo(off + BufSize) = off + n
  BY <1>4
<1>6. PICK t : t = SubSeq(f, off + 1, off + n)
  OBVIOUS
<1>7. n \in Nat /\ off + n \in Int /\ off + 1 \in Int
  BY <1>3
<1>8. /\ t \in Seq(Unit) /\ Len(t) = n
      /\ \A k \in 1..n : off + k \in DOMAIN f /\ t[k] = f[off + k]
  <2>1. DOMAIN f = 1..Len(f) /\ \A k \in DOMAIN f : f[k] \in Unit
    BY <1>1, <1>2
  <2>2. \A k \in (off + 1)..(off + n) : f[k] \in Unit
    BY <1>3, <2>1
  <2>3. /\ t \in Seq(Unit)
        /\ Len(t) = IF off + 1 <= off + n THEN (off + n) - (off + 1) + 1 ELSE 0
        /\ \A k \in 1..((off + n) - (off + 1) + 1) : t[k] = f[(off + 1) + k - 1]
    BY <1>6, <1>7, <2>2, SubSeqProperties
  <2>4. Len(t) = n
    BY <1>3, <1>7, <2>3
  <2>5. ASSUME NEW k \in 1..n PROVE off + k \in DOMAIN f /\ t[k] = f[off + k]
    <3>1. k \in 1..((off + n) - (off + 1) + 1) /\ (off + 1) + k - 1 = off + k
      BY <1>3, <1>7
    <3> QED BY <1>3, <2>1, <2>3, <3>1
  <2> QED BY <2>3, <2>4, <2>5
<1>9. buf \in Seq(Unit) /\ buf' = buf \o t /\ off' = off + n
  BY <1>2, <1>5, <1>6 DEF TypeInv, TypeOK, Fill
<1>10. DOMAIN t = 1..n
  BY <1>8
<1>11. /\ buf' \in Seq(Unit) /\ Len(buf') = Len(buf) + Len(t)
       /\ \A k \in DOMAIN buf : k \in DOMAIN buf' /\ buf'[k] = buf[k]
       /\ \A k \in DOMAIN buf' :
              \/ k \in DOMAIN buf
              \/ k > Len(buf) /\ k - Len(buf) \in DOMAIN t /\ buf'[k] = t[k - Len(buf)]
  <2>1. PICK b : b = buf'
    OBVIOUS
  <2>2. b = buf \o t
    BY <1>9, <2>1
  <2>3. /\ b \in Seq(Unit) /\ Len(b) = Len(buf) + Len(t)
        /\ \A k \in DOMAIN buf : k \in DOMAIN b /\ b[k] = buf[k]
        /\ \A k \in DOMAIN b :
               \/ k \in DOMAIN buf
               \/ k > Len(buf) /\ k - Len(buf) \in DOMAIN t /\ b[k] = t[k - Len(buf)]
    <3>1. PICK a : a = buf
      OBVIOUS
    <3>2. a \in Seq(Unit) /\ t \in Seq(Unit) /\ b = a \o t
      BY <1>8, <1>9, <2>2, <3>1
    <3> QED BY <3>1, <3>2, Joining
  <2> QED BY <2>1, <2>3
<1>12. \A k \in DOMAIN buf' :
           \/ k \in DOMAIN buf
           \/ /\ k > Len(buf) /\ k - Len(buf) \in 1..n
              /\ off + (k - Len(buf)) \in DOMAIN f
              /\ buf'[k] = f[off + (k - Len(buf))]
  BY <1>8, <1>10, <1>11
<1>13. Len(buf') = Len(buf) + n
  BY <1>8, <1>11
<1>14. buf' = buf \o SubSeq(f, off + 1, off + n) /\ off' = off + n
  BY <1>6, <1>9
<1> QED BY <1>2, <1>3, <1>7, <1>11, <1>12, <1>13, <1>14 DEF FillTo

\* ReadBytes returns the first line of the buffer, a whole one or not.
TakeTo(k, line) ==
    /\ pc = "read" /\ k \in DOMAIN buf /\ IsNewline(buf[k])
    /\ \A j \in DOMAIN buf : IsNewline(buf[j]) => k <= j
    /\ line \in Seq(Unit) /\ Len(line) = k /\ \A j \in 1..k : line[j] = buf[j]
    /\ buf' \in Seq(Unit) /\ buf' = SubSeq(buf, k + 1, Len(buf))
    /\ Len(buf') = Len(buf) - k
    /\ \A j \in DOMAIN buf' : k + j \in DOMAIN buf /\ buf'[j] = buf[k + j]
    /\ \A j \in DOMAIN buf : j > k => j - k \in DOMAIN buf' /\ buf'[j - k] = buf[j]
    /\ \/ /\ published' = Append(published, IF Whole(line) THEN line[1].line ELSE Fragment)
          /\ excused' = excused
       \/ /\ published' = published
          /\ excused' = excused \cup {buf[k].line}

LEMMA TakeFacts ==
    ASSUME TypeInv, Take
    PROVE  \E k \in DOMAIN buf : \E line \in Seq(Unit) : TakeTo(k, line)
<1>1. buf \in Seq(Unit) /\ Len(buf) \in Nat /\ DOMAIN buf = 1..Len(buf)
  BY DEF TypeInv, TypeOK
<1>2. PICK k \in Newlines(buf) :
        /\ pc = "read" /\ \A j \in Newlines(buf) : k <= j
        /\ buf' = After(buf, k)
        /\ \/ /\ published' = Append(published, IF Whole(SubSeq(buf, 1, k))
                                                THEN SubSeq(buf, 1, k)[1].line ELSE Fragment)
              /\ UNCHANGED excused
           \/ /\ excused' = excused \cup {SubSeq(buf, 1, k)[k].line}
              /\ UNCHANGED published
  BY DEF Take
<1>3. /\ k \in DOMAIN buf /\ IsNewline(buf[k]) /\ k \in 0..Len(buf) /\ k \in Nat
      /\ \A j \in DOMAIN buf : IsNewline(buf[j]) => k <= j
      /\ k \in 1..k
  BY <1>1, <1>2 DEF Newlines, IsNewline
<1>4. PICK line : line = SubSeq(buf, 1, k)
  OBVIOUS
<1>5. line \in Seq(Unit) /\ Len(line) = k /\ \A j \in 1..k : line[j] = buf[j]
  BY <1>1, <1>3, <1>4, Taking
<1>6. /\ buf' \in Seq(Unit) /\ buf' = SubSeq(buf, k + 1, Len(buf))
      /\ Len(buf') = Len(buf) - k
      /\ \A j \in DOMAIN buf' : k + j \in DOMAIN buf /\ buf'[j] = buf[k + j]
      /\ \A j \in DOMAIN buf : j > k => j - k \in DOMAIN buf' /\ buf'[j - k] = buf[j]
  <2>1. buf' = SubSeq(buf, k + 1, Len(buf))
    BY <1>2 DEF After
  <2>2. /\ buf' \in Seq(Unit) /\ Len(buf') = IF k <= Len(buf) THEN Len(buf) - k ELSE 0
        /\ \A j \in DOMAIN buf' : k + j \in DOMAIN buf /\ buf'[j] = buf[k + j]
        /\ \A j \in DOMAIN buf : j > k => j - k \in DOMAIN buf' /\ buf'[j - k] = buf[j]
    <3>1. PICK b : b = buf'
      OBVIOUS
    <3>2. b = SubSeq(buf, k + 1, Len(buf))
      BY <2>1, <3>1
    <3>3. /\ b \in Seq(Unit) /\ Len(b) = IF k <= Len(buf) THEN Len(buf) - k ELSE 0
          /\ \A j \in DOMAIN b : k + j \in DOMAIN buf /\ b[j] = buf[k + j]
          /\ \A j \in DOMAIN buf : j > k => j - k \in DOMAIN b /\ b[j - k] = buf[j]
      <4>1. PICK a : a = buf
        OBVIOUS
      <4>2. a \in Seq(Unit) /\ b = SubSeq(a, k + 1, Len(a)) /\ k \in Nat
        BY <1>1, <1>3, <3>2, <4>1
      <4> QED BY <4>1, <4>2, Dropping
    <3> QED BY <3>1, <3>3
  <2> QED BY <1>1, <1>3, <2>1, <2>2
<1>7. line[k] = buf[k]
  BY <1>3, <1>5
<1> QED BY <1>2, <1>3, <1>4, <1>5, <1>6, <1>7 DEF TakeTo

LEMMA TypeBridge ==
    ASSUME TypeInv, BridgeStep \/ BridgeRestart
    PROVE  TypeInv'
<1>1. CASE Open
  <2>1. path \in 1..Len(files) /\ files \in Seq(Seq(Unit))
    BY <1>1 DEF TypeInv, TypeOK, Open
  <2>2. Len(files[path]) \in Nat
    BY <2>1, SeqFacts
  <2> QED BY <1>1, <2>1, <2>2
          DEF Open, SeekEnd, TypeInv, TypeOK, NewestIsWritten, BridgePc, pipelineVars
<1>2. CASE Fill
  <2>1. PICK n \in Nat : FillTo(n)
    BY <1>2, FillFacts
  <2>2. buf' \in Seq(Unit) /\ off' \in Nat
    <3>1. off \in Nat
      BY DEF TypeInv, TypeOK
    <3> QED BY <2>1, <3>1 DEF FillTo
  <2> QED BY <1>2, <2>2
          DEF Fill, TypeInv, TypeOK, NewestIsWritten, pipelineVars, ghosts
<1>3. CASE EndOfFile \/ Check \/ BridgeRestart
  <2>1. /\ UNCHANGED <<files, path, pipelineVars, rfd, off, published, ghosts>>
        /\ pc' \in BridgePc /\ faults' \in Nat /\ (buf' = <<>> \/ buf' = buf)
    BY <1>3 DEF EndOfFile, Check, BridgeRestart, Disturb, TypeInv, TypeOK, BridgePc
  <2>2. /\ pc' # "open" => pc # "open"
        /\ pc' # "read" => buf' = <<>>
    BY <1>3 DEF EndOfFile, Check, BridgeRestart, TypeInv, NewestIsWritten
  <2>3. buf' \in Seq(Unit)
    <3>1. buf \in Seq(Unit) /\ <<>> \in Seq(Unit)
      BY DEF TypeInv, TypeOK
    <3> QED BY <2>1, <3>1
  <2> QED BY <2>1, <2>2, <2>3 DEF TypeInv, TypeOK, NewestIsWritten, pipelineVars, ghosts
<1>4. CASE Take
  <2>1. PICK k \in DOMAIN buf, line \in Seq(Unit) : TakeTo(k, line)
    BY <1>4, TakeFacts
  <2>2. buf \in Seq(Unit) /\ published \in Seq(Nat) /\ excused \in SUBSET Nat
    BY DEF TypeInv, TypeOK
  <2>3. buf[k].line \in Nat /\ line[1].line \in Nat
    <3>1. DOMAIN buf = 1..Len(buf) /\ Len(buf) \in Nat
      BY <2>2
    <3>2. buf[k] \in Unit /\ 1 \in 1..k /\ 1 \in DOMAIN buf
      BY <2>2, <3>1
    <3>3. line[1] = buf[1] /\ buf[1] \in Unit
      BY <2>1, <2>2, <3>2 DEF TakeTo
    <3> QED BY <3>2, <3>3 DEF Unit
  <2>4. published' \in Seq(Nat)
    <3> DEFINE id == IF Whole(line) THEN line[1].line ELSE Fragment
    <3>1. id \in Nat
      BY <2>3 DEF Fragment
    <3>2. published' = Append(published, id) \/ published' = published
      BY <2>1 DEF TakeTo
    <3> HIDE DEF id
    <3>3. Append(published, id) \in Seq(Nat)
      BY <2>2, <3>1
    <3> QED BY <2>2, <3>2, <3>3
  <2>5. excused' \in SUBSET Nat /\ buf' \in Seq(Unit) /\ pc = "read"
    BY <2>1, <2>2, <2>3 DEF TakeTo
  <2>6. UNCHANGED <<files, path, pipelineVars, pc, rfd, off, faults, opened, intact>>
    BY <1>4 DEF Take
  <2> QED BY <2>4, <2>5, <2>6 DEF TypeInv, TypeOK, NewestIsWritten, pipelineVars
<1> QED BY <1>1, <1>2, <1>3, <1>4 DEF BridgeStep

LEMMA TypeStep == TypeInv /\ [Next]_vars => TypeInv'
<1> SUFFICES ASSUME TypeInv, [Next]_vars PROVE TypeInv'
  OBVIOUS
<1>1. CASE UNCHANGED vars
  BY <1>1 DEF TypeInv, TypeOK, NewestIsWritten, vars, pipelineVars, bridgeVars, ghosts
<1> QED BY <1>1, TypeSend, TypeFile, TypeBridge DEF Next

(* Every reachable state has its type: the bridge's handle and the           *)
(* pipeline's point to files that exist, through truncation, rotation and    *)
(* restarts of both.                                                         *)
THEOREM BridgeTypeCorrect == Spec => []TypeOK
<1>1. TypeInv => TypeOK
  BY DEF TypeInv
<1> QED BY <1>1, TypeInit, TypeStep, PTL DEF Spec
-----------------------------------------------------------------------------
(***************************************************************************)
(* Nothing is published twice or out of order.                             *)
(***************************************************************************)

\* What comes after a newline belongs to a later alert.
LEMMA AfterNewline ==
    ASSUME NEW u \in Unit, NEW v \in Unit, IsNewline(u), Before(u, v), v.pos \in 1..v.len
    PROVE  u.line < v.line
BY DEF Unit, IsNewline, Before

LEMMA OrderInit == Init => OrderInv
<1> SUFFICES ASSUME Init PROVE OrderInv
  OBVIOUS
<1>1. /\ DOMAIN files = {} /\ DOMAIN buf = {} /\ DOMAIN rest = {} /\ DOMAIN published = {}
      /\ pc = "open"
  BY DEF Init
<1> QED BY <1>1 DEF OrderInv, UnitsInOrder, PublishedIsPast, PublishedInOrder,
                    Raised, Ordered, Precedes

\* A write of units that come after all that was written before.
LEMMA OrderWrite ==
    ASSUME TypeInv, OrderInv, wfd \in DOMAIN files,
           NEW units \in Seq(Unit), NEW n \in 1..Len(units), Writes(units, n),
           written' \in Nat, written <= written',
           Raised(units)', Ordered(units), Precedes(buf, units),
           \A i \in DOMAIN files : Precedes(files[i], units),
           \A m \in DOMAIN published, k \in DOMAIN units : published[m] < units[k].line,
           UNCHANGED <<wfd, bridgeVars>>
    PROVE  OrderInv'
<1>0. written \in Nat /\ Len(units) \in Nat /\ DOMAIN units = 1..Len(units) /\ off \in Nat
  BY DEF TypeInv, TypeOK
<1>1. /\ DOMAIN files' = DOMAIN files /\ UNCHANGED <<wfd, pc, rfd, off, buf, published>>
      /\ \A i \in DOMAIN files : Len(files[i]) \in Nat
  <2>1. files \in Seq(Seq(Unit)) /\ files' \in Seq(Seq(Unit)) /\ Len(files') = Len(files)
    BY DEF TypeInv, TypeOK, Writes
  <2> QED BY <2>1, SeqFacts DEF bridgeVars
<1>2. \A k \in DOMAIN rest' : n + k \in DOMAIN units /\ rest'[k] = units[n + k]
  BY DEF Writes
<1>3. \A k \in DOMAIN rest' : k \in Nat
  BY DEF Writes
<1>4. Raised(rest)' /\ Ordered(rest)'
  <2>1. Raised(rest)'
    BY <1>2 DEF Raised
  <2>2. \A j, k \in DOMAIN rest' : j < k => n + j < n + k
    BY <1>0, <1>3
  <2>3. Ordered(rest)'
    BY <1>2, <2>2 DEF Ordered
  <2> QED BY <2>1, <2>3
<1>5. Raised(buf)' /\ Ordered(buf)' /\ Precedes(buf, rest)'
  <2>1. Raised(buf)'
    BY <1>0, <1>1 DEF OrderInv, UnitsInOrder, Raised
  <2>2. Ordered(buf)'
    BY <1>1 DEF OrderInv, UnitsInOrder, Ordered
  <2>3. Precedes(buf, rest)'
    BY <1>1, <1>2 DEF Precedes
  <2> QED BY <2>1, <2>2, <2>3
<1>6. ASSUME NEW i \in DOMAIN files, i # wfd
      PROVE  Raised(files[i])' /\ Ordered(files[i])' /\ Precedes(files[i], rest)'
  <2>1. files'[i] = files[i]
    BY <1>6 DEF Writes
  <2>2. Raised(files[i])'
    BY <1>0, <2>1 DEF OrderInv, UnitsInOrder, Raised
  <2>3. Ordered(files[i])'
    BY <2>1 DEF OrderInv, UnitsInOrder, Ordered
  <2>4. Precedes(files[i], rest)'
    BY <1>2, <2>1 DEF Precedes
  <2> QED BY <2>2, <2>3, <2>4
<1>7. /\ \A k \in DOMAIN files[wfd] :
             k \in DOMAIN files'[wfd] /\ files'[wfd][k] = files[wfd][k]
             /\ k \in 1..Len(files[wfd])
      /\ \A k \in DOMAIN files'[wfd] :
             \/ k \in DOMAIN files[wfd]
             \/ /\ k > Len(files[wfd]) /\ k - Len(files[wfd]) \in 1..n
                /\ k - Len(files[wfd]) \in DOMAIN units
                /\ files'[wfd][k] = units[k - Len(files[wfd])]
      /\ \A k \in DOMAIN files'[wfd] : k \in Nat
  <2>1. files[wfd] \in Seq(Unit) /\ files'[wfd] \in Seq(Unit)
    <3>1. files' \in Seq(Seq(Unit)) /\ files \in Seq(Seq(Unit)) /\ wfd \in DOMAIN files'
      BY <1>1 DEF Writes, TypeInv, TypeOK
    <3> QED BY <3>1, SeqFacts
  <2>2. DOMAIN files[wfd] = 1..Len(files[wfd]) /\ \A k \in DOMAIN files'[wfd] : k \in Nat
    BY <2>1
  <2>3. 1..n \subseteq DOMAIN units
    BY <1>0
  <2> QED BY <2>2, <2>3 DEF Writes
<1>8. Raised(files[wfd])' /\ Ordered(files[wfd])' /\ Precedes(files[wfd], rest)'
  <2>1. Raised(files[wfd])'
    <3> SUFFICES ASSUME NEW j \in DOMAIN files'[wfd]
                 PROVE  /\ files'[wfd][j].line \in 1..written'
                        /\ files'[wfd][j].pos \in 1..files'[wfd][j].len
      BY <1>1 DEF Raised
    <3>1. CASE j \in DOMAIN files[wfd]
      BY <1>0, <1>7, <3>1 DEF OrderInv, UnitsInOrder, Raised
    <3>2. CASE j \notin DOMAIN files[wfd]
      BY <1>7, <3>2 DEF Raised
    <3> QED BY <3>1, <3>2
  <2>2. Precedes(files'[wfd], rest')
    <3> SUFFICES ASSUME NEW j \in DOMAIN files'[wfd], NEW k \in DOMAIN rest'
                 PROVE  Before(files'[wfd][j], rest'[k])
      BY DEF Precedes
    <3>1. CASE j \in DOMAIN files[wfd]
      BY <1>2, <1>7, <3>1 DEF Precedes
    <3>2. CASE j \notin DOMAIN files[wfd]
      <4>1. j - Len(files[wfd]) < n + k
        <5>1. j - Len(files[wfd]) \in 1..n
          BY <1>7, <3>2
        <5>2. k \in 1..Len(rest')
          BY DEF Writes
        <5> QED BY <1>0, <5>1, <5>2
      <4> QED BY <1>2, <1>7, <3>2, <4>1 DEF Ordered
    <3> QED BY <3>1, <3>2
  <2>3. Ordered(files'[wfd])
    <3> SUFFICES ASSUME NEW j \in DOMAIN files'[wfd], NEW k \in DOMAIN files'[wfd], j < k
                 PROVE  Before(files'[wfd][j], files'[wfd][k])
      BY DEF Ordered
    <3>1. CASE k \in DOMAIN files[wfd]
      <4>1. j \in DOMAIN files[wfd]
        BY <1>1, <1>7, <3>1
      <4> QED BY <1>7, <3>1, <4>1 DEF OrderInv, UnitsInOrder, Ordered
    <3>2. CASE k \notin DOMAIN files[wfd] /\ j \in DOMAIN files[wfd]
      BY <1>7, <3>2 DEF Precedes
    <3>3. CASE k \notin DOMAIN files[wfd] /\ j \notin DOMAIN files[wfd]
      <4>1. j - Len(files[wfd]) < k - Len(files[wfd])
        BY <1>1, <1>7, <3>3
      <4> QED BY <1>7, <3>3, <4>1 DEF Ordered
    <3> QED BY <3>1, <3>2, <3>3
  <2> QED BY <1>1, <2>1, <2>2, <2>3
<1>9. ASSUME pc' # "open"
      PROVE  \A k \in DOMAIN files'[rfd] : k > off =>
                /\ \A j \in DOMAIN buf : Before(buf[j], files'[rfd][k])
                /\ \A m \in DOMAIN published : published[m] < files'[rfd][k].line
  <2>1. rfd \in DOMAIN files /\ pc # "open"
    BY <1>1, <1>9, FollowedFile
  <2>2. CASE rfd # wfd
    BY <2>1, <2>2 DEF Writes, OrderInv, UnitsInOrder, PublishedIsPast
  <2>3. CASE rfd = wfd
    <3> SUFFICES ASSUME NEW k \in DOMAIN files'[wfd], k > off
                 PROVE  /\ \A j \in DOMAIN buf : Before(buf[j], files'[wfd][k])
                        /\ \A m \in DOMAIN published : published[m] < files'[wfd][k].line
      BY <2>3
    <3>1. CASE k \in DOMAIN files[wfd]
      BY <1>7, <2>1, <2>3, <3>1 DEF OrderInv, UnitsInOrder, PublishedIsPast
    <3>2. CASE k \notin DOMAIN files[wfd]
      BY <1>7, <3>2 DEF Precedes
    <3> QED BY <3>1, <3>2
  <2> QED BY <2>2, <2>3
<1>10. UnitsInOrder'
  <2>1. \A i \in DOMAIN files' :
            Raised(files[i])' /\ Ordered(files[i])' /\ Precedes(files[i], rest)'
    BY <1>1, <1>6, <1>8
  <2>2. pc' # "open" =>
           \A j \in DOMAIN buf', k \in DOMAIN files'[rfd'] :
               k > off' => Before(buf'[j], files'[rfd'][k])
    BY <1>1, <1>9
  <2> QED BY <1>4, <1>5, <2>1, <2>2 DEF UnitsInOrder
<1>11. PublishedIsPast'
  <2> SUFFICES ASSUME NEW m \in DOMAIN published
               PROVE  /\ published[m] <= written'
                      /\ \A k \in DOMAIN rest' : published[m] < rest'[k].line
                      /\ \A k \in DOMAIN buf : published[m] < buf[k].line
                      /\ pc' # "open" => \A k \in DOMAIN files'[rfd] :
                             k > off => published[m] < files'[rfd][k].line
    BY <1>1 DEF PublishedIsPast
  <2>1. published[m] \in Nat
    BY DEF TypeInv, TypeOK
  <2>2. published[m] <= written' /\ \A k \in DOMAIN buf : published[m] < buf[k].line
    BY <1>0, <2>1 DEF OrderInv, PublishedIsPast
  <2> QED BY <1>2, <1>9, <2>2
<1>12. PublishedInOrder'
  BY <1>1 DEF OrderInv, PublishedInOrder
<1> QED BY <1>10, <1>11, <1>12 DEF OrderInv

LEMMA OrderSend ==
    ASSUME TypeInv, OrderInv, Send \/ SendRest
    PROVE  OrderInv'
<1>1. wfd # 0 /\ wfd = Len(files) /\ files \in Seq(Seq(Unit)) /\ written \in Nat
  BY DEF TypeInv, TypeOK, NewestIsWritten, Send, SendRest
<1>2. wfd \in DOMAIN files
  BY <1>1, SeqFacts
<1>3. UNCHANGED <<wfd, bridgeVars>>
  BY DEF Send, SendRest
<1>4. CASE SendRest
  <2>1. rest \in Seq(Unit) /\ rest # <<>> /\ written' = written /\ WriteUnits(rest)
    BY <1>4 DEF SendRest, TypeInv, TypeOK
  <2>2. PICK n \in 1..Len(rest) : Writes(rest, n)
    BY <1>1, <1>2, <2>1, WriteFacts
  <2>3. PICK units : units = rest
    OBVIOUS
  <2>4. /\ Raised(units)' /\ Ordered(units) /\ Precedes(buf, units)
        /\ \A i \in DOMAIN files : Precedes(files[i], units)
        /\ \A m \in DOMAIN published, k \in DOMAIN units : published[m] < units[k].line
    BY <2>1, <2>3 DEF OrderInv, UnitsInOrder, PublishedIsPast, Raised, Ordered, Precedes
  <2>5. written <= written' /\ written' \in Nat
    BY <1>1, <2>1
  <2>6. units \in Seq(Unit) /\ n \in 1..Len(units) /\ Writes(units, n)
    BY <2>1, <2>2, <2>3
  <2> QED BY <1>2, <1>3, <2>4, <2>5, <2>6, OrderWrite
<1>5. CASE Send
  <2>1. PICK len \in Lengths : WriteUnits(Line(written + 1, len))
    BY <1>5 DEF Send
  <2>2. PICK units : units = Line(written + 1, len)
    OBVIOUS
  <2>3. len \in Nat \ {0} /\ written + 1 \in Nat /\ written' = written + 1
    BY <1>1, <1>5, BridgeAssumption DEF Send
  <2>4. /\ units \in Seq(Unit) /\ Len(units) = len /\ units # <<>> /\ DOMAIN units = 1..len
        /\ \A q \in 1..len : units[q] = [line |-> written + 1, pos |-> q, len |-> len]
    BY <2>2, <2>3, LineFacts
  <2>5. PICK n \in 1..Len(units) : Writes(units, n)
    BY <1>1, <1>2, <2>1, <2>2, <2>4, WriteFacts
  <2>6. Raised(units)'
    BY <1>1, <2>3, <2>4 DEF Raised
  <2>7. Ordered(units)
    BY <2>4 DEF Ordered, Before
  <2>8. /\ \A j \in DOMAIN buf : buf[j].line \in 1..written
        /\ \A i \in DOMAIN files : \A j \in DOMAIN files[i] : files[i][j].line \in 1..written
    BY DEF OrderInv, UnitsInOrder, Raised
  <2>9. /\ Precedes(buf, units)
        /\ \A i \in DOMAIN files : Precedes(files[i], units)
    BY <1>1, <2>4, <2>8 DEF Precedes, Before
  <2>10. \A m \in DOMAIN published, k \in DOMAIN units : published[m] < units[k].line
    <3> SUFFICES ASSUME NEW m \in DOMAIN published, NEW k \in DOMAIN units
                 PROVE  published[m] < units[k].line
      OBVIOUS
    <3>1. published[m] \in Nat /\ published[m] <= written
      BY DEF TypeInv, TypeOK, OrderInv, PublishedIsPast
    <3> QED BY <1>1, <2>4, <3>1
  <2>11. written <= written' /\ written' \in Nat
    BY <1>1, <2>3
  <2> QED BY <1>2, <1>3, <2>4, <2>5, <2>6, <2>7, <2>9, <2>10, <2>11, OrderWrite
<1> QED BY <1>4, <1>5
\* A file becomes empty, or a new one appears; what was not written is lost.
LEMMA OrderTruncate ==
    ASSUME TypeInv, OrderInv, OpenTruncating
    PROVE  OrderInv'
<1>1. /\ rest' = <<>> /\ UNCHANGED <<written, pc, rfd, off, buf, published>>
      /\ DOMAIN rest' = {} /\ files \in Seq(Seq(Unit)) /\ Len(files) \in Nat
      /\ DOMAIN files = 1..Len(files)
  BY DEF OpenTruncating, bridgeVars, TypeInv, TypeOK
<1>2. \A i \in DOMAIN files' :
          \/ i \in DOMAIN files /\ files'[i] = files[i]
          \/ i \in DOMAIN files' /\ files'[i] = <<>>
  <2>1. CASE path = 0
    <3>1. files' = Append(files, <<>>) /\ <<>> \in Seq(Unit)
      BY <2>1 DEF OpenTruncating
    <3>2. /\ Len(files') = Len(files) + 1 /\ files' \in Seq(Seq(Unit))
          /\ \A i \in 1..Len(files) : files'[i] = files[i]
          /\ files'[Len(files) + 1] = <<>>
      BY <1>1, <3>1, AppendProperties
    <3>3. \A i \in DOMAIN files' : i \in 1..Len(files) \/ i = Len(files) + 1
      BY <1>1, <3>2
    <3> QED BY <1>1, <3>2, <3>3
  <2>2. CASE path # 0
    BY <1>1, <2>2 DEF OpenTruncating
  <2> QED BY <2>1, <2>2
<1>3. \A i \in DOMAIN files' : files'[i] = <<>> => DOMAIN files'[i] = {}
  OBVIOUS
<1>4. pc # "open" => rfd \in DOMAIN files' /\ rfd \in DOMAIN files
  <2>1. Len(files') \in Nat /\ Len(files) <= Len(files') /\ DOMAIN files' = 1..Len(files')
    <3>1. CASE path = 0
      <4>1. files' = Append(files, <<>>) /\ <<>> \in Seq(Unit)
        BY <3>1 DEF OpenTruncating
      <4>2. Len(files') = Len(files) + 1 /\ files' \in Seq(Seq(Unit))
        BY <1>1, <4>1, AppendProperties
      <4> QED BY <1>1, <4>2
    <3>2. CASE path # 0
      <4>1. files' = [files EXCEPT ![path] = <<>>] /\ path \in 1..Len(files)
            /\ <<>> \in Seq(Unit)
        BY <1>1, <3>2 DEF OpenTruncating, TypeInv, TypeOK
      <4>2. Len(files') = Len(files) /\ files' \in Seq(Seq(Unit))
        BY <1>1, <4>1, ExceptSeq
      <4> QED BY <1>1, <4>2
    <3> QED BY <3>1, <3>2
  <2> QED BY <1>1, <2>1, FollowedFile
<1>5. UnitsInOrder'
  <2>1. /\ Raised(rest)' /\ Ordered(rest)' /\ Precedes(buf, rest)'
        /\ \A i \in DOMAIN files' : Precedes(files[i], rest)'
    BY <1>1 DEF Raised, Ordered, Precedes
  <2>2. Raised(buf)' /\ Ordered(buf)'
    BY <1>1 DEF OrderInv, UnitsInOrder, Raised, Ordered
  <2>3. \A i \in DOMAIN files' : Raised(files[i])' /\ Ordered(files[i])'
    BY <1>1, <1>2, <1>3 DEF OrderInv, UnitsInOrder, Raised, Ordered
  <2>4. pc' # "open" =>
           \A j \in DOMAIN buf', k \in DOMAIN files'[rfd'] :
               k > off' => Before(buf'[j], files'[rfd'][k])
    BY <1>1, <1>2, <1>3, <1>4 DEF OrderInv, UnitsInOrder
  <2> QED BY <2>1, <2>2, <2>3, <2>4 DEF UnitsInOrder
<1>6. PublishedIsPast'
  BY <1>1, <1>2, <1>3, <1>4 DEF OrderInv, PublishedIsPast
<1>7. PublishedInOrder'
  BY <1>1 DEF OrderInv, PublishedInOrder
<1> QED BY <1>5, <1>6, <1>7 DEF OrderInv

\* The bridge drops its buffer, and opens a file at its end or goes on.
LEMMA OrderDrop ==
    ASSUME TypeInv, OrderInv, Open \/ EndOfFile \/ Check \/ BridgeRestart \/ Remove
    PROVE  OrderInv'
<1>1. /\ UNCHANGED <<files, rest, written, published>>
      /\ buf' = <<>> \/ buf' = buf
  BY DEF Open, EndOfFile, Check, BridgeRestart, Remove, pipelineVars, bridgeVars
<1>2. pc' # "open" =>
          \/ pc # "open" /\ UNCHANGED <<rfd, off>>
          \/ \A k \in DOMAIN files[rfd'] : ~(k > off')
  <2>1. CASE Open
    <3>1. path \in 1..Len(files) /\ files \in Seq(Seq(Unit))
      BY <2>1 DEF Open, TypeInv, TypeOK
    <3>2. files[path] \in Seq(Unit)
      BY <3>1, SeqFacts
    <3>3. \A k \in DOMAIN files[path] : ~(k > Len(files[path]))
      BY <3>2
    <3> QED BY <2>1, <3>3 DEF Open, SeekEnd
  <2> QED BY <2>1 DEF EndOfFile, Check, BridgeRestart, Remove, bridgeVars
<1>3. DOMAIN buf' = {} \/ buf' = buf
  BY <1>1
<1>4. UnitsInOrder'
  <2>1. /\ Raised(rest)' /\ Ordered(rest)'
        /\ \A i \in DOMAIN files' :
               Raised(files[i])' /\ Ordered(files[i])' /\ Precedes(files[i], rest)'
    BY <1>1 DEF OrderInv, UnitsInOrder, Raised, Ordered, Precedes
  <2>2. Raised(buf)' /\ Ordered(buf)' /\ Precedes(buf, rest)'
    BY <1>1, <1>3 DEF OrderInv, UnitsInOrder, Raised, Ordered, Precedes
  <2>3. pc' # "open" =>
           \A j \in DOMAIN buf', k \in DOMAIN files'[rfd'] :
               k > off' => Before(buf'[j], files'[rfd'][k])
    BY <1>1, <1>2, <1>3 DEF OrderInv, UnitsInOrder
  <2> QED BY <2>1, <2>2, <2>3 DEF UnitsInOrder
<1>5. PublishedIsPast'
  BY <1>1, <1>2, <1>3 DEF OrderInv, PublishedIsPast
<1>6. PublishedInOrder'
  BY <1>1 DEF OrderInv, PublishedInOrder
<1> QED BY <1>4, <1>5, <1>6 DEF OrderInv

LEMMA OrderFill ==
    ASSUME TypeInv, OrderInv, Fill
    PROVE  OrderInv'
<1>1. PICK n \in Nat : FillTo(n)
  BY FillFacts
<1>2. /\ UNCHANGED <<files, rest, written, published, pc, rfd>> /\ pc # "open"
      /\ off \in Nat /\ off' = off + n
  BY <1>1 DEF Fill, FillTo, pipelineVars, TypeInv, TypeOK
<1>3. rfd \in DOMAIN files /\ files[rfd] \in Seq(Unit)
  BY <1>2, FollowedFile
<1>4. \A k \in DOMAIN files[rfd] : k \in Nat
  BY <1>3
<1>5. \A k \in DOMAIN buf' :
          \/ k \in DOMAIN buf /\ buf'[k] = buf[k]
          \/ \E q \in 1..n : /\ k = Len(buf) + q /\ off + q \in DOMAIN files[rfd]
                             /\ buf'[k] = files[rfd][off + q]
  <2> SUFFICES ASSUME NEW k \in DOMAIN buf', k \notin DOMAIN buf
               PROVE  \E q \in 1..n : /\ k = Len(buf) + q /\ off + q \in DOMAIN files[rfd]
                                      /\ buf'[k] = files[rfd][off + q]
    BY <1>1 DEF FillTo
  <2>1. k \in Nat /\ Len(buf) \in Nat
    <3>1. buf \in Seq(Unit) /\ buf' \in Seq(Unit)
      BY <1>1 DEF FillTo, TypeInv, TypeOK
    <3>2. DOMAIN buf' = 1..Len(buf') /\ Len(buf) \in Nat /\ Len(buf') \in Nat
      BY <3>1
    <3> QED BY <3>2
  <2>2. k = Len(buf) + (k - Len(buf))
    BY <2>1
  <2>3. /\ k - Len(buf) \in 1..n /\ off + (k - Len(buf)) \in DOMAIN files[rfd]
        /\ buf'[k] = files[rfd][off + (k - Len(buf))]
    BY <1>1 DEF FillTo
  <2> QED BY <2>2, <2>3
<1>6. DOMAIN buf = 1..Len(buf) /\ Len(buf) \in Nat
  BY DEF TypeInv, TypeOK
<1>7. Raised(buf)' /\ Precedes(buf, rest)'
  <2>1. Raised(files[rfd]) /\ Precedes(files[rfd], rest)
    BY <1>3 DEF OrderInv, UnitsInOrder
  <2> QED BY <1>2, <1>5, <2>1 DEF OrderInv, UnitsInOrder, Raised, Precedes
<1>8. Ordered(buf)'
  <2> SUFFICES ASSUME NEW j \in DOMAIN buf', NEW k \in DOMAIN buf', j < k
               PROVE  Before(buf'[j], buf'[k])
    BY DEF Ordered
  <2>1. CASE k \in DOMAIN buf
    <3>1. j \in DOMAIN buf
      BY <1>5, <1>6, <2>1
    <3> QED BY <1>1, <2>1, <3>1 DEF FillTo, OrderInv, UnitsInOrder, Ordered
  <2>2. CASE k \notin DOMAIN buf
    <3>1. PICK q \in 1..n : /\ k = Len(buf) + q /\ off + q \in DOMAIN files[rfd]
                            /\ buf'[k] = files[rfd][off + q]
      BY <1>5, <2>2
    <3>2. CASE j \in DOMAIN buf
      <4>1. off + q > off
        BY <1>2
      <4> QED BY <1>1, <1>2, <3>1, <3>2, <4>1 DEF FillTo, OrderInv, UnitsInOrder
    <3>3. CASE j \notin DOMAIN buf
      <4>1. PICK p \in 1..n : /\ j = Len(buf) + p /\ off + p \in DOMAIN files[rfd]
                              /\ buf'[j] = files[rfd][off + p]
        BY <1>5, <3>3
      <4>2. off + p < off + q
        BY <1>2, <1>6, <3>1, <4>1
      <4> QED BY <1>3, <3>1, <4>1, <4>2 DEF OrderInv, UnitsInOrder, Ordered
    <3> QED BY <3>2, <3>3
  <2> QED BY <2>1, <2>2
<1>9. \A k \in DOMAIN files[rfd] : k > off' => k > off
  BY <1>2, <1>4
<1>10. ASSUME NEW j \in DOMAIN buf', NEW k \in DOMAIN files[rfd], k > off'
       PROVE  Before(buf'[j], files[rfd][k])
  <2>1. CASE j \in DOMAIN buf
    BY <1>1, <1>2, <1>9, <1>10, <2>1 DEF FillTo, OrderInv, UnitsInOrder
  <2>2. CASE j \notin DOMAIN buf
    <3>1. PICK p \in 1..n : /\ j = Len(buf) + p /\ off + p \in DOMAIN files[rfd]
                            /\ buf'[j] = files[rfd][off + p]
      BY <1>5, <2>2
    <3>2. off + p < k
      BY <1>2, <1>4, <1>10
    <3> QED BY <1>3, <3>1, <3>2 DEF OrderInv, UnitsInOrder, Ordered
  <2> QED BY <2>1, <2>2
<1>11. UnitsInOrder'
  <2>1. /\ Raised(rest)' /\ Ordered(rest)'
        /\ \A i \in DOMAIN files' :
               Raised(files[i])' /\ Ordered(files[i])' /\ Precedes(files[i], rest)'
    BY <1>2 DEF OrderInv, UnitsInOrder, Raised, Ordered, Precedes
  <2>2. \A j \in DOMAIN buf', k \in DOMAIN files'[rfd'] :
               k > off' => Before(buf'[j], files'[rfd'][k])
    BY <1>2, <1>10
  <2> QED BY <1>7, <1>8, <2>1, <2>2 DEF UnitsInOrder
<1>12. PublishedIsPast'
  <2> SUFFICES ASSUME NEW m \in DOMAIN published
               PROVE  \A k \in DOMAIN buf' : published[m] < buf'[k].line
    BY <1>2, <1>9 DEF OrderInv, PublishedIsPast
  <2> SUFFICES ASSUME NEW k \in DOMAIN buf', k \notin DOMAIN buf
               PROVE  published[m] < buf'[k].line
    BY <1>1 DEF FillTo, OrderInv, PublishedIsPast
  <2>1. PICK q \in 1..n : /\ k = Len(buf) + q /\ off + q \in DOMAIN files[rfd]
                          /\ buf'[k] = files[rfd][off + q]
    BY <1>5
  <2>2. off + q > off
    BY <1>2
  <2> QED BY <1>2, <2>1, <2>2 DEF OrderInv, PublishedIsPast
<1>13. PublishedInOrder'
  BY <1>2 DEF OrderInv, PublishedInOrder
<1> QED BY <1>11, <1>12, <1>13 DEF OrderInv

LEMMA OrderTake ==
    ASSUME TypeInv, OrderInv, Take
    PROVE  OrderInv'
<1>1. PICK k \in DOMAIN buf, line \in Seq(Unit) : TakeTo(k, line)
  BY TakeFacts
<1>2. /\ UNCHANGED <<files, rest, written, pc, rfd, off>> /\ pc # "open"
      /\ written \in Nat /\ published \in Seq(Nat)
  BY DEF Take, pipelineVars, TypeInv, TypeOK
<1>3. /\ buf \in Seq(Unit) /\ DOMAIN buf = 1..Len(buf) /\ Len(buf) \in Nat
      /\ \A j \in DOMAIN buf : buf[j] \in Unit
  BY DEF TypeInv, TypeOK
<1>4. \A j \in DOMAIN buf' : /\ j \in Nat /\ k + j \in DOMAIN buf /\ buf'[j] = buf[k + j]
                             /\ k < k + j
  <2>1. DOMAIN buf' = 1..Len(buf') /\ Len(buf') \in Nat
    BY <1>1 DEF TakeTo
  <2> QED BY <1>1, <1>3, <2>1 DEF TakeTo
<1>5. rfd \in DOMAIN files /\ files[rfd] \in Seq(Unit) /\ rest \in Seq(Unit)
  BY <1>2, FollowedFile DEF TypeInv, TypeOK
<1>6. UnitsInOrder'
  <2>1. /\ Raised(rest)' /\ Ordered(rest)'
        /\ \A i \in DOMAIN files' :
               Raised(files[i])' /\ Ordered(files[i])' /\ Precedes(files[i], rest)'
    BY <1>2 DEF OrderInv, UnitsInOrder, Raised, Ordered, Precedes
  <2>2. Raised(buf)' /\ Precedes(buf, rest)'
    BY <1>2, <1>4 DEF OrderInv, UnitsInOrder, Raised, Precedes
  <2>3. Ordered(buf)'
    <3>1. \A i, j \in DOMAIN buf' : i < j => k + i < k + j
      BY <1>3, <1>4
    <3> QED BY <1>4, <3>1 DEF OrderInv, UnitsInOrder, Ordered
  <2>4. \A j \in DOMAIN buf', i \in DOMAIN files'[rfd'] :
               i > off' => Before(buf'[j], files'[rfd'][i])
    BY <1>2, <1>4 DEF OrderInv, UnitsInOrder
  <2> QED BY <2>1, <2>2, <2>3, <2>4 DEF UnitsInOrder
\* The alert of the newline is older than all that is left to read.
<1>7. /\ \A j \in DOMAIN rest : buf[k].line < rest[j].line
      /\ \A j \in DOMAIN buf' : buf[k].line < buf'[j].line
      /\ \A j \in DOMAIN files[rfd] : j > off => buf[k].line < files[rfd][j].line
      /\ buf[k].line \in 1..written
  <2>1. IsNewline(buf[k]) /\ buf[k] \in Unit
    BY <1>1, <1>3 DEF TakeTo
  <2>2. ASSUME NEW j \in DOMAIN rest PROVE buf[k].line < rest[j].line
    <3>1. rest[j] \in Unit /\ rest[j].pos \in 1..rest[j].len /\ Before(buf[k], rest[j])
      BY <1>5 DEF OrderInv, UnitsInOrder, Raised, Precedes
    <3> QED BY <2>1, <3>1, AfterNewline
  <2>3. ASSUME NEW j \in DOMAIN buf' PROVE buf[k].line < buf'[j].line
    <3>1. /\ buf'[j] \in Unit /\ buf'[j].pos \in 1..buf'[j].len
          /\ Before(buf[k], buf'[j])
      BY <1>3, <1>4 DEF OrderInv, UnitsInOrder, Raised, Ordered
    <3> QED BY <2>1, <3>1, AfterNewline
  <2>4. ASSUME NEW j \in DOMAIN files[rfd], j > off PROVE buf[k].line < files[rfd][j].line
    <3>1. Raised(files[rfd])
      BY <1>5 DEF OrderInv, UnitsInOrder
    <3>2. Before(buf[k], files[rfd][j])
      BY <1>2, <2>4 DEF OrderInv, UnitsInOrder
    <3>3. files[rfd][j] \in Unit /\ files[rfd][j].pos \in 1..files[rfd][j].len
      BY <1>5, <3>1 DEF Raised
    <3> QED BY <2>1, <3>2, <3>3, AfterNewline
  <2>5. buf[k].line \in 1..written
    BY DEF OrderInv, UnitsInOrder, Raised
  <2> QED BY <2>2, <2>3, <2>4, <2>5
\* What is published is that alert, or counts as a fragment.
<1>8. \/ published' = published
      \/ \E id \in {buf[k].line, Fragment} : published' = Append(published, id)
  <2>1. Whole(line) => line[1].line = buf[k].line
    <3> SUFFICES ASSUME Whole(line) PROVE line[1].line = buf[k].line
      OBVIOUS
    <3>1. 1 \in 1..k /\ k \in 1..k /\ DOMAIN line = 1..k /\ 1 \in DOMAIN buf
      BY <1>1, <1>3 DEF TakeTo
    <3>2. line[1] \in Unit /\ line[k] = buf[k]
      BY <1>1, <1>3, <3>1 DEF TakeTo
    <3>3. line[k] = [line[1] EXCEPT !.pos = k]
      BY <3>1 DEF Whole
    <3> QED BY <3>2, <3>3 DEF Unit
  <2> QED BY <1>1, <2>1 DEF TakeTo
<1>9. PublishedIsPast' /\ PublishedInOrder'
  <2>1. CASE published' = published
    BY <1>2, <1>4, <2>1 DEF OrderInv, PublishedIsPast, PublishedInOrder
  <2>2. ASSUME NEW id \in {buf[k].line, Fragment}, published' = Append(published, id)
        PROVE  PublishedIsPast' /\ PublishedInOrder'
    <3>1. id \in Nat /\ id <= written /\ (id # Fragment => id = buf[k].line)
      BY <1>2, <1>7 DEF Fragment
    <3>2. /\ Len(published) \in Nat /\ DOMAIN published = 1..Len(published)
          /\ DOMAIN published' = 1..(Len(published) + 1)
          /\ \A m \in DOMAIN published : published'[m] = published[m] /\ published[m] \in Nat
          /\ published'[Len(published) + 1] = id
      BY <1>2, <2>2, <3>1, AppendProperties
    <3>3. \A m \in DOMAIN published' : m \in DOMAIN published \/ m = Len(published) + 1
      BY <3>2
    <3>4. /\ \A j \in DOMAIN rest : id < rest[j].line
          /\ \A j \in DOMAIN buf' : id < buf'[j].line
          /\ \A j \in DOMAIN files[rfd] : j > off => id < files[rfd][j].line
      <4>1. CASE id # Fragment
        BY <1>7, <3>1, <4>1
      <4>2. CASE id = Fragment
        <5>1. Raised(rest) /\ Raised(buf)' /\ Raised(files[rfd])
          BY <1>5, <1>6 DEF OrderInv, UnitsInOrder
        <5> QED BY <1>2, <4>2, <5>1 DEF Raised, Fragment
      <4> QED BY <4>1, <4>2
    <3>5. PublishedIsPast'
      BY <1>2, <1>4, <3>1, <3>2, <3>3, <3>4 DEF OrderInv, PublishedIsPast
    <3>6. PublishedInOrder'
      <4> SUFFICES ASSUME NEW m \in DOMAIN published', NEW n \in DOMAIN published', m < n,
                          published'[m] # Fragment, published'[n] # Fragment
                   PROVE  published'[m] < published'[n]
        BY DEF PublishedInOrder
      <4>1. m \in DOMAIN published
        BY <3>2
      <4>2. CASE n \in DOMAIN published
        BY <3>2, <4>1, <4>2 DEF OrderInv, PublishedInOrder
      <4>3. CASE n = Len(published) + 1
        BY <3>1, <3>2, <4>1, <4>3 DEF OrderInv, PublishedIsPast
      <4> QED BY <3>3, <4>2, <4>3
    <3> QED BY <3>5, <3>6
  <2> QED BY <1>8, <2>1, <2>2
<1> QED BY <1>6, <1>9 DEF OrderInv

LEMMA OrderStep == TypeInv /\ OrderInv /\ [Next]_vars => OrderInv'
<1> SUFFICES ASSUME TypeInv, OrderInv, [Next]_vars PROVE OrderInv'
  OBVIOUS
<1>1. CASE UNCHANGED vars
  BY <1>1 DEF OrderInv, UnitsInOrder, PublishedIsPast, PublishedInOrder, Raised, Ordered,
              Precedes, vars, pipelineVars, bridgeVars
<1> QED BY <1>1, OrderSend, OrderTruncate, OrderDrop, OrderFill, OrderTake
        DEF Next, BridgeStep

(* The alert-bridge publishes each alert at most once and in the order in    *)
(* which FileAlertHandler::send wrote them, for any number of truncations    *)
(* under its offset, rotations, torn writes and restarts of both processes.  *)
THEOREM BridgeKeepsTheOrder == Spec => []PublishedInOrder
<1>1. OrderInv => PublishedInOrder
  BY DEF OrderInv
<1> QED BY <1>1, TypeInit, TypeStep, OrderInit, OrderStep, PTL DEF Spec
-----------------------------------------------------------------------------
(***************************************************************************)
(* Nothing is skipped: what the bridge has yet to hand over has no gap.    *)
(***************************************************************************)
LEMMA Splitting ==
    ASSUME NEW S, NEW s \in Seq(S), NEW n \in 0..Len(s)
    PROVE  s = SubSeq(s, 1, n) \o SubSeq(s, n + 1, Len(s))
<1>1. Len(s) \in Nat
  OBVIOUS
<1>2. 1 \in 1..(Len(s) + 1) /\ n \in (1 - 1)..Len(s) /\ Len(s) \in n..Len(s)
  BY <1>1
<1>3. SubSeq(s, 1, n) \o SubSeq(s, n + 1, Len(s)) = SubSeq(s, 1, Len(s))
  BY <1>2, ConcatAdjacentSubSeq
<1> QED BY <1>3, SubSeqFull

\* What remains of a sequence that has grown has grown likewise.
LEMMA DropOfConcat ==
    ASSUME NEW S, NEW s \in Seq(S), NEW t \in Seq(S), NEW n \in 0..Len(s)
    PROVE  SubSeq(s \o t, n + 1, Len(s \o t)) = SubSeq(s, n + 1, Len(s)) \o t
<1>1. /\ s \o t \in Seq(S) /\ Len(s \o t) = Len(s) + Len(t)
      /\ Len(s) \in Nat /\ Len(t) \in Nat
  BY ConcatProperties
<1>2. n \in 0..Len(s \o t) /\ n \in Nat
  BY <1>1
<1>3. PICK p, d, e : /\ p = SubSeq(s, 1, n) /\ d = SubSeq(s, n + 1, Len(s))
                     /\ e = SubSeq(s \o t, n + 1, Len(s \o t))
  OBVIOUS
<1>4. p \in Seq(S) /\ d \in Seq(S) /\ e \in Seq(S)
  <2>1. SubSeq(s, 1, n) \in Seq(S)
    BY Taking
  <2>2. SubSeq(s, n + 1, Len(s)) \in Seq(S)
    BY <1>2, Dropping
  <2>3. SubSeq(s \o t, n + 1, Len(s \o t)) \in Seq(S)
    BY <1>1, <1>2, Dropping
  <2> QED BY <1>3, <2>1, <2>2, <2>3
<1>5. SubSeq(s \o t, 1, n) = p
  <2>1. CASE n = 0
    BY <1>3, <2>1, SubSeqEmpty
  <2>2. CASE n # 0
    <3>1. 1 \in 1..Len(s) /\ n \in 1..Len(s)
      BY <1>1, <1>2, <2>2
    <3> QED BY <1>3, <3>1, SubSeqOfConcat1
  <2> QED BY <2>1, <2>2
<1>6. s \o t = p \o e
  BY <1>1, <1>2, <1>3, <1>5, Splitting
<1>7. s = p \o d
  BY <1>3, Splitting
<1>8. s \o t = p \o (d \o t)
  BY <1>4, <1>7, ConcatAssociative
<1>9. d \o t \in Seq(S)
  BY <1>4, ConcatProperties
<1>10. e = d \o t
  <2>1. PICK w : w = d \o t
    OBVIOUS
  <2>2. w \in Seq(S) /\ p \o e = p \o w
    BY <1>6, <1>8, <1>9, <2>1
  <2>3. /\ Len(p \o e) = Len(p) + Len(e) /\ Len(p \o w) = Len(p) + Len(w)
        /\ Len(p) \in Nat /\ Len(e) \in Nat /\ Len(w) \in Nat
    BY <1>4, <2>2, ConcatProperties
  <2>4. Len(e) = Len(w)
    BY <2>2, <2>3
  <2>5. \A k \in 1..Len(e) : e[k] = w[k]
    <3>1. \A k \in DOMAIN e : (p \o e)[Len(p) + k] = e[k]
      BY <1>4, Joining
    <3>2. \A k \in DOMAIN w : (p \o w)[Len(p) + k] = w[k]
      BY <1>4, <2>2, Joining
    <3>3. DOMAIN e = 1..Len(e) /\ DOMAIN w = 1..Len(w)
      BY <1>4, <2>2
    <3> QED BY <2>2, <2>4, <3>1, <3>2, <3>3
  <2>6. e = w
    BY <1>4, <2>2, <2>4, <2>5, SeqEqual
  <2> QED BY <2>1, <2>6
<1> QED BY <1>3, <1>10

\* Without its first units a gapless sequence stays gapless.
LEMMA GaplessDrop ==
    ASSUME NEW s \in Seq(Unit), NEW t \in Seq(Unit), NEW c, c = s \o t, Gapless(c)
    PROVE  Gapless(t)
<1>1. /\ c \in Seq(Unit) /\ Len(c) = Len(s) + Len(t)
      /\ \A k \in DOMAIN t : Len(s) + k \in DOMAIN c /\ c[Len(s) + k] = t[k]
  BY Joining
<1>2. /\ Len(s) \in Nat /\ Len(t) \in Nat /\ DOMAIN t = 1..Len(t)
      /\ DOMAIN c = 1..(Len(s) + Len(t))
  BY <1>1
<1>3. ASSUME NEW j \in DOMAIN t, NEW k \in DOMAIN t, j <= k,
             \A i \in j..(k - 1) : ~IsNewline(t[i])
      PROVE  /\ t[k].line = t[j].line /\ t[k].len = t[j].len
             /\ t[k].pos = t[j].pos + (k - j)
  <2>1. Len(s) + j <= Len(s) + k /\ (Len(s) + k) - (Len(s) + j) = k - j
    BY <1>2, <1>3
  <2>2. ASSUME NEW i \in (Len(s) + j)..(Len(s) + k - 1) PROVE ~IsNewline(c[i])
    <3>1. i - Len(s) \in j..(k - 1) /\ i - Len(s) \in DOMAIN t /\ Len(s) + (i - Len(s)) = i
      BY <1>2, <1>3
    <3> QED BY <1>1, <1>3, <3>1
  <2>3. PICK a, b : a = Len(s) + j /\ b = Len(s) + k
    OBVIOUS
  <2>4. a \in DOMAIN c /\ b \in DOMAIN c /\ a <= b /\ \A i \in a..(b - 1) : ~IsNewline(c[i])
    <3>1. a \in DOMAIN c /\ b \in DOMAIN c /\ a <= b
      BY <1>1, <2>1, <2>3
    <3>2. \A i \in a..(b - 1) : ~IsNewline(c[i])
      BY <2>2, <2>3
    <3> QED BY <3>1, <3>2
  <2>5. c[b].line = c[a].line /\ c[b].len = c[a].len /\ c[b].pos = c[a].pos + (b - a)
    BY <2>4 DEF Gapless
  <2> QED BY <1>1, <2>1, <2>3, <2>5
<1>4. ASSUME NEW j \in DOMAIN t, NEW k \in DOMAIN t, IsNewline(t[j]), k = j + 1
      PROVE  t[k].pos = 1
  <2>1. Len(s) + k = (Len(s) + j) + 1
    BY <1>2, <1>4
  <2> QED BY <1>1, <1>4, <2>1 DEF Gapless
<1>5. t # <<>> => IsNewline(t[Len(t)])
  <2> SUFFICES ASSUME t # <<>> PROVE IsNewline(t[Len(t)])
    OBVIOUS
  <2>1. Len(t) \in DOMAIN t /\ c # <<>>
    BY <1>1, <1>2
  <2> QED BY <1>1, <2>1 DEF Gapless
<1> QED BY <1>3, <1>4, <1>5 DEF Gapless

\* Whole lines may follow a gapless sequence.
LEMMA GaplessAppend ==
    ASSUME NEW s \in Seq(Unit), NEW t \in Seq(Unit), NEW c, c = s \o t,
           Gapless(s), Gapless(t), t # <<>>, t[1].pos = 1
    PROVE  Gapless(c)
<1>1. /\ c \in Seq(Unit) /\ Len(c) = Len(s) + Len(t)
      /\ \A k \in DOMAIN s : k \in DOMAIN c /\ c[k] = s[k]
      /\ \A k \in DOMAIN t : Len(s) + k \in DOMAIN c /\ c[Len(s) + k] = t[k]
      /\ \A k \in DOMAIN c :
             \/ k \in DOMAIN s
             \/ k > Len(s) /\ k - Len(s) \in DOMAIN t /\ c[k] = t[k - Len(s)]
  BY Joining
<1>2. /\ Len(s) \in Nat /\ Len(t) \in Nat \ {0} /\ DOMAIN t = 1..Len(t)
      /\ DOMAIN s = 1..Len(s) /\ DOMAIN c = 1..(Len(s) + Len(t))
  BY <1>1
<1>3. ASSUME NEW j \in DOMAIN c, NEW k \in DOMAIN c, j <= k,
             \A i \in j..(k - 1) : ~IsNewline(c[i])
      PROVE  /\ c[k].line = c[j].line /\ c[k].len = c[j].len
             /\ c[k].pos = c[j].pos + (k - j)
  <2>1. CASE k \in DOMAIN s
    <3>1. j \in DOMAIN s /\ j..(k - 1) \subseteq DOMAIN s
      BY <1>2, <1>3, <2>1
    <3>2. \A i \in j..(k - 1) : ~IsNewline(s[i])
      BY <1>1, <1>3, <3>1
    <3>3. s[k].line = s[j].line /\ s[k].len = s[j].len /\ s[k].pos = s[j].pos + (k - j)
      BY <1>3, <2>1, <3>1, <3>2 DEF Gapless
    <3>4. c[k] = s[k] /\ c[j] = s[j]
      BY <1>1, <2>1, <3>1
    <3> QED BY <3>3, <3>4
  <2>2. CASE k \notin DOMAIN s /\ j \in DOMAIN s
    <3>1. Len(s) \in DOMAIN s /\ Len(s) \in j..(k - 1) /\ s # <<>>
      BY <1>2, <1>3, <2>2
    <3>2. IsNewline(s[Len(s)]) /\ c[Len(s)] = s[Len(s)]
      BY <1>1, <3>1 DEF Gapless
    <3> QED BY <1>3, <3>1, <3>2
  <2>3. CASE k \notin DOMAIN s /\ j \notin DOMAIN s
    <3>1. PICK a, b : a = j - Len(s) /\ b = k - Len(s)
      OBVIOUS
    <3>2. /\ a \in DOMAIN t /\ b \in DOMAIN t /\ c[j] = t[a] /\ c[k] = t[b]
          /\ j = Len(s) + a /\ k = Len(s) + b
      BY <1>1, <1>2, <2>3, <3>1
    <3>3. a <= b /\ b - a = k - j
      BY <1>2, <1>3, <3>2
    <3>4. ASSUME NEW i \in a..(b - 1) PROVE ~IsNewline(t[i])
      <4>1. i \in DOMAIN t /\ Len(s) + i \in j..(k - 1)
        BY <1>2, <3>2
      <4> QED BY <1>1, <1>3, <4>1
    <3>5. t[b].line = t[a].line /\ t[b].len = t[a].len /\ t[b].pos = t[a].pos + (b - a)
      BY <3>2, <3>3, <3>4 DEF Gapless
    <3> QED BY <3>2, <3>3, <3>5
  <2> QED BY <2>1, <2>2, <2>3
<1>4. ASSUME NEW j \in DOMAIN c, NEW k \in DOMAIN c, IsNewline(c[j]), k = j + 1
      PROVE  c[k].pos = 1
  <2>1. CASE k \in DOMAIN s
    <3>1. j \in DOMAIN s
      BY <1>2, <1>4, <2>1
    <3> QED BY <1>1, <1>4, <2>1, <3>1 DEF Gapless
  <2>2. CASE k \notin DOMAIN s /\ j \in DOMAIN s
    <3>1. k = Len(s) + 1 /\ 1 \in DOMAIN t
      BY <1>2, <1>4, <2>2
    <3> QED BY <1>1, <3>1
  <2>3. CASE k \notin DOMAIN s /\ j \notin DOMAIN s
    <3>1. /\ j - Len(s) \in DOMAIN t /\ c[j] = t[j - Len(s)]
          /\ k - Len(s) \in DOMAIN t /\ c[k] = t[k - Len(s)]
      BY <1>1, <2>3
    <3>2. k - Len(s) = (j - Len(s)) + 1
      BY <1>2, <1>4
    <3> QED BY <1>4, <3>1, <3>2 DEF Gapless
  <2> QED BY <2>1, <2>2, <2>3
<1>5. IsNewline(c[Len(c)])
  <2>1. Len(t) \in DOMAIN t
    BY <1>2
  <2> QED BY <1>1, <2>1 DEF Gapless
<1> QED BY <1>3, <1>4, <1>5 DEF Gapless

LEMMA GaplessLine ==
    ASSUME NEW id \in Nat, NEW len \in Nat \ {0}
    PROVE  Gapless(Line(id, len))
<1>1. PICK l : l = Line(id, len)
  OBVIOUS
<1>2. /\ Len(l) = len /\ DOMAIN l = 1..len
      /\ \A q \in 1..len : l[q].line = id /\ l[q].pos = q /\ l[q].len = len
  <2>1. /\ Len(l) = len /\ DOMAIN l = 1..len
        /\ \A q \in 1..len : l[q] = [line |-> id, pos |-> q, len |-> len]
    BY <1>1, LineFacts
  <2> QED BY <2>1
<1>3. Gapless(l)
  BY <1>2 DEF Gapless, IsNewline
<1> QED BY <1>1, <1>3
LEMMA Regroup ==
    ASSUME NEW a \in Seq(Unit), NEW b \in Seq(Unit), NEW c \in Seq(Unit)
    PROVE  (a \o b) \o c = a \o (b \o c)
BY ConcatAssociative

LEMMA StreamTyped ==
    ASSUME TypeInv, Following, off <= Len(files[rfd])
    PROVE  /\ rfd \in DOMAIN files /\ files[rfd] \in Seq(Unit) /\ off \in 0..Len(files[rfd])
           /\ off \in Nat /\ buf \in Seq(Unit) /\ rest \in Seq(Unit) /\ Unread \in Seq(Unit)
           /\ buf \o Unread \in Seq(Unit) /\ Unread \o rest \in Seq(Unit)
           /\ Stream \in Seq(Unit) /\ Stream = buf \o (Unread \o rest)
<1>1. rfd \in DOMAIN files /\ files[rfd] \in Seq(Unit)
  BY FollowedFile DEF Following
<1>2. off \in Nat /\ buf \in Seq(Unit) /\ rest \in Seq(Unit) /\ Len(files[rfd]) \in Nat
  BY <1>1 DEF TypeInv, TypeOK
<1>3. Unread \in Seq(Unit)
  <2>1. PICK f : f = files[rfd]
    OBVIOUS
  <2>2. SubSeq(f, off + 1, Len(f)) \in Seq(Unit)
    BY <1>1, <1>2, <2>1, Dropping
  <2> QED BY <2>1, <2>2 DEF Unread
<1>4. buf \o Unread \in Seq(Unit) /\ Unread \o rest \in Seq(Unit)
  BY <1>2, <1>3, ConcatProperties
<1>5. Stream \in Seq(Unit)
  BY <1>2, <1>4, ConcatProperties DEF Stream
<1>6. Stream = buf \o (Unread \o rest)
  BY <1>2, <1>3, ConcatAssociative DEF Stream
<1> QED BY <1>1, <1>2, <1>3, <1>4, <1>5, <1>6

\* A write adds its units to what the bridge has yet to hand over.
LEMMA StreamWrite ==
    ASSUME TypeInv, Following, off <= Len(files[rfd]), UNCHANGED <<wfd, bridgeVars>>,
           NEW units \in Seq(Unit), NEW n \in 1..Len(units), Writes(units, n)
    PROVE  /\ Unread' = Unread \o SubSeq(units, 1, n)
           /\ Stream' = buf \o Unread \o units
           /\ off' <= Len(files'[rfd'])
<1>1. /\ UNCHANGED <<wfd, rfd, off, buf>> /\ wfd = rfd
      /\ files'[rfd] = files[rfd] \o SubSeq(units, 1, n)
      /\ Len(files'[rfd]) = Len(files[rfd]) + n
      /\ rest' = SubSeq(units, n + 1, Len(units))
  BY DEF Writes, bridgeVars, Following
<1>2. /\ files[rfd] \in Seq(Unit) /\ off \in 0..Len(files[rfd]) /\ off \in Nat
      /\ buf \in Seq(Unit) /\ Unread \in Seq(Unit)
  BY StreamTyped
<1>3. n \in 0..Len(units) /\ n \in Nat /\ Len(units) \in Nat
  OBVIOUS
<1>4. PICK f, u, v : f = files[rfd] /\ u = SubSeq(units, 1, n)
                     /\ v = SubSeq(units, n + 1, Len(units))
  OBVIOUS
<1>5. u \in Seq(Unit) /\ v \in Seq(Unit) /\ units = u \o v /\ f \in Seq(Unit)
  <2>1. SubSeq(units, 1, n) \in Seq(Unit)
    BY <1>3, Taking
  <2>2. SubSeq(units, n + 1, Len(units)) \in Seq(Unit)
    BY <1>3, Dropping
  <2>3. units = SubSeq(units, 1, n) \o SubSeq(units, n + 1, Len(units))
    BY <1>3, Splitting
  <2> QED BY <1>2, <1>4, <2>1, <2>2, <2>3
<1>6. Unread' = Unread \o u
  <2>1. SubSeq(f \o u, off + 1, Len(f \o u)) = SubSeq(f, off + 1, Len(f)) \o u
    BY <1>2, <1>4, <1>5, DropOfConcat
  <2> QED BY <1>1, <1>4, <2>1 DEF Unread
<1>7. Stream' = buf \o (Unread \o u) \o v
  BY <1>1, <1>4, <1>6 DEF Stream
<1>8. (buf \o (Unread \o u)) \o v = (buf \o Unread) \o (u \o v)
  <2>1. PICK a, b : a = buf /\ b = Unread
    OBVIOUS
  <2>2. a \in Seq(Unit) /\ b \in Seq(Unit)
    BY <1>2, <2>1
  <2>3. a \o b \in Seq(Unit)
    BY <2>2, ConcatProperties
  <2>4. a \o (b \o u) = (a \o b) \o u
    <3>1. u \in Seq(Unit)
      BY <1>5
    <3> QED BY <2>2, <3>1, Regroup
  <2>5. ((a \o b) \o u) \o v = (a \o b) \o (u \o v)
    <3>1. u \in Seq(Unit) /\ v \in Seq(Unit)
      BY <1>5
    <3>2. PICK c : c = a \o b
      OBVIOUS
    <3>3. (c \o u) \o v = c \o (u \o v)
      BY <2>3, <3>1, <3>2, Regroup
    <3> QED BY <3>2, <3>3
  <2> QED BY <2>1, <2>4, <2>5
<1>9. off' <= Len(files'[rfd'])
  <2>1. Len(files[rfd]) \in Nat
    BY <1>2
  <2> QED BY <1>1, <1>2, <1>3, <2>1
<1> QED BY <1>4, <1>5, <1>6, <1>7, <1>8, <1>9

\* A read moves units from the file to the buffer and leaves them in order.
LEMMA StreamFill ==
    ASSUME TypeInv, Following, off <= Len(files[rfd]), Fill
    PROVE  /\ \E t \in Seq(Unit) : buf' = buf \o t /\ Unread = t \o Unread'
           /\ Unread' \in Seq(Unit) /\ Stream' = Stream
           /\ off' <= Len(files'[rfd'])
<1>1. PICK n \in Nat : FillTo(n)
  BY FillFacts
<1>2. /\ UNCHANGED <<files, rfd, rest>> /\ off' = off + n
      /\ n \in 1..(Len(files[rfd]) - off)
      /\ buf' = buf \o SubSeq(files[rfd], off + 1, off + n)
  BY <1>1 DEF Fill, FillTo, pipelineVars
<1>3. /\ files[rfd] \in Seq(Unit) /\ off \in 0..Len(files[rfd]) /\ off \in Nat
      /\ buf \in Seq(Unit) /\ Unread \in Seq(Unit) /\ rest \in Seq(Unit)
  BY StreamTyped
<1>4. PICK f, t, v : /\ f = files[rfd] /\ t = SubSeq(f, off + 1, off + n)
                     /\ v = SubSeq(f, (off + n) + 1, Len(f))
  OBVIOUS
<1>5. f \in Seq(Unit) /\ Len(f) \in Nat /\ DOMAIN f = 1..Len(f)
  BY <1>3, <1>4
<1>6. /\ off + 1 \in 1..(Len(f) + 1) /\ off + n \in ((off + 1) - 1)..Len(f)
      /\ Len(f) \in (off + n)..Len(f) /\ off + n \in Nat /\ off + 1 \in Int
  BY <1>2, <1>3, <1>4, <1>5
<1>7. t \o v = SubSeq(f, off + 1, Len(f))
  BY <1>4, <1>5, <1>6, ConcatAdjacentSubSeq
<1>8. Unread = t \o v /\ Unread' = v
  BY <1>2, <1>4, <1>7 DEF Unread
<1>9. t \in Seq(Unit) /\ v \in Seq(Unit)
  <2>1. \A k \in (off + 1)..(off + n) : f[k] \in Unit
    BY <1>3, <1>5, <1>6
  <2>2. SubSeq(f, off + 1, off + n) \in Seq(Unit)
    BY <1>6, <2>1, SubSeqProperties
  <2>3. SubSeq(f, (off + n) + 1, Len(f)) \in Seq(Unit)
    BY <1>5, <1>6, Dropping
  <2> QED BY <1>4, <2>2, <2>3
<1>10. buf' = buf \o t
  BY <1>2, <1>4
<1>11. (buf \o t) \o v = buf \o (t \o v)
  BY <1>3, <1>9, Regroup
<1>12. Stream' = Stream
  BY <1>2, <1>8, <1>10, <1>11 DEF Stream
<1>13. off' <= Len(files'[rfd'])
  BY <1>2, <1>4, <1>6
<1> QED BY <1>8, <1>9, <1>10, <1>12, <1>13

\* A line that ReadBytes returns is taken from the front.
LEMMA StreamTake ==
    ASSUME TypeInv, Following, off <= Len(files[rfd]), Take,
           NEW k \in DOMAIN buf, NEW line \in Seq(Unit), TakeTo(k, line)
    PROVE  /\ \E t \in Seq(Unit) : Len(t) = k /\ Stream = t \o Stream'
           /\ Stream' \in Seq(Unit) /\ Unread' = Unread /\ off' <= Len(files'[rfd'])
<1>1. UNCHANGED <<files, rfd, off, rest>> /\ buf' = SubSeq(buf, k + 1, Len(buf))
      /\ buf' \in Seq(Unit)
  BY DEF Take, pipelineVars, TakeTo
<1>2. /\ buf \in Seq(Unit) /\ Unread \in Seq(Unit) /\ rest \in Seq(Unit)
      /\ Unread \o rest \in Seq(Unit) /\ Stream = buf \o (Unread \o rest)
  BY StreamTyped
<1>3. k \in 0..Len(buf)
  BY <1>2
<1>4. PICK t, b, v : t = SubSeq(buf, 1, k) /\ b = buf' /\ v = Unread \o rest
  OBVIOUS
<1>5. t \in Seq(Unit) /\ Len(t) = k /\ buf = t \o b /\ b \in Seq(Unit) /\ v \in Seq(Unit)
  BY <1>1, <1>2, <1>3, <1>4, Taking, Splitting
<1>6. Unread' = Unread
  BY <1>1 DEF Unread
<1>7. Stream' = b \o v
  <2>1. Stream' = (b \o Unread) \o rest
    BY <1>1, <1>4, <1>6 DEF Stream
  <2>2. (b \o Unread) \o rest = b \o (Unread \o rest)
    <3>1. b \in Seq(Unit) /\ Unread \in Seq(Unit) /\ rest \in Seq(Unit)
      BY <1>2, <1>5
    <3> QED BY <3>1, Regroup
  <2> QED BY <1>4, <2>1, <2>2
<1>8. Stream = t \o (b \o v) /\ b \o v \in Seq(Unit)
  <2>1. Stream = (t \o b) \o v
    BY <1>2, <1>4, <1>5
  <2>2. (t \o b) \o v = t \o (b \o v)
    <3>1. t \in Seq(Unit) /\ b \in Seq(Unit) /\ v \in Seq(Unit)
      BY <1>5
    <3> QED BY <3>1, Regroup
  <2>3. b \o v \in Seq(Unit)
    BY <1>5, ConcatProperties
  <2> QED BY <2>1, <2>2, <2>3
<1> QED BY <1>1, <1>5, <1>6, <1>7, <1>8
\* NothingSkipped in terms of Following and Unread.
LEMMA SkippedRestated ==
    NothingSkipped <=>
        \A id \in 1..written :
            Following /\ id \in (opened + 1)..written /\ id \notin excused =>
                Published(id) \/ Holds(buf, id) \/ Holds(Unread, id)
BY DEF NothingSkipped, Appended, Following, Unread

LEMMA FollowInit == Init => FollowInv
<1> SUFFICES ASSUME Init PROVE FollowInv
  OBVIOUS
<1>1. rest = <<>> /\ DOMAIN rest = {} /\ ~Following /\ written = 0
  BY DEF Init, Following
<1>2. RestIsTorn
  BY <1>1 DEF RestIsTorn, Gapless
<1>3. NothingSkipped
  BY <1>1, SkippedRestated
<1> QED BY <1>1, <1>2, <1>3 DEF FollowInv

\* Steps after which the bridge does not follow the written file any more, or
\* which change nothing that FollowInv speaks of.
LEMMA FollowQuiet ==
    ASSUME TypeInv, FollowInv, OpenTruncating \/ Remove \/ Check \/ BridgeRestart
    PROVE  FollowInv'
<1>1. CASE OpenTruncating \/ BridgeRestart
  <2>1. ~Following'
    <3>1. CASE BridgeRestart
      BY <3>1 DEF BridgeRestart, Following
    <3>2. CASE OpenTruncating /\ path = 0
      <4>1. wfd' = Len(files) + 1 /\ rfd' = rfd /\ rfd \in 0..Len(files) /\ Len(files) \in Nat
        BY <3>2 DEF OpenTruncating, bridgeVars, TypeInv, TypeOK
      <4> QED BY <4>1 DEF Following
    <3>3. CASE OpenTruncating /\ path # 0
      BY <3>3 DEF OpenTruncating, bridgeVars, Following
    <3> QED BY <1>1, <3>1, <3>2, <3>3
  <2>2. /\ rest' = <<>> \/ rest' = rest
        /\ excused' = excused
    BY <1>1 DEF OpenTruncating, BridgeRestart, pipelineVars, ghosts
  <2>3. RestIsTorn'
    <3>1. CASE rest' = <<>>
      <4>1. DOMAIN rest' = {}
        BY <3>1
      <4> QED BY <3>1, <4>1 DEF RestIsTorn, Gapless
    <3>2. CASE rest' = rest
      BY <2>2, <3>2 DEF FollowInv, RestIsTorn, Gapless, IsNewline
    <3> QED BY <2>2, <3>1, <3>2
  <2>4. NothingSkipped'
    BY <2>1 DEF NothingSkipped, Appended, Following
  <2> QED BY <2>1, <2>3, <2>4 DEF FollowInv
<1>2. CASE Remove \/ Check
  <2>1. /\ UNCHANGED <<files, wfd, rest, written, rfd, off, buf, published, ghosts>>
        /\ pc' # "open" => pc # "open"
    BY <1>2 DEF Remove, Check, pipelineVars, bridgeVars
  <2>2. RestIsTorn'
    BY <2>1 DEF FollowInv, RestIsTorn, Gapless, IsNewline, ghosts
  <2>3. Following' => Following
    BY <2>1 DEF Following, ghosts
  <2>4. Unread' = Unread
    BY <2>1 DEF Unread
  <2>5. Stream' = Stream
    BY <2>1, <2>4 DEF Stream
  <2>6. Following' => /\ off' <= Len(files'[rfd']) /\ Gapless(Stream)'
                      /\ HeadIsExcused(Stream)'
    BY <2>1, <2>3, <2>5 DEF FollowInv, Gapless, IsNewline, HeadIsExcused, ghosts
  <2>7. NothingSkipped'
    BY <2>1, <2>3 DEF FollowInv, NothingSkipped, Appended, Following, Published, Holds, ghosts
  <2> QED BY <2>2, <2>6, <2>7 DEF FollowInv
<1> QED BY <1>1, <1>2

LEMMA FollowOpen ==
    ASSUME TypeInv, FollowInv, Open
    PROVE  FollowInv'
<1>1. /\ UNCHANGED <<files, rest, written, excused, wfd>> /\ opened' = written
      /\ buf' = <<>> /\ rfd' = path /\ off' = Len(files[path])
  BY DEF Open, SeekEnd, pipelineVars
<1>2. rest \in Seq(Unit) /\ files[path] \in Seq(Unit)
  <2>1. path \in 1..Len(files) /\ files \in Seq(Seq(Unit))
    BY DEF Open, TypeInv, TypeOK
  <2> QED BY <2>1, SeqFacts DEF TypeInv, TypeOK
<1>3. Len(files[path]) \in Nat
  BY <1>2
<1>4. Unread' = <<>>
  <2>1. PICK f : f = files[path]
    OBVIOUS
  <2>2. Len(f) < Len(f) + 1 /\ Len(f) \in Int /\ Len(f) + 1 \in Int
    BY <1>3, <2>1
  <2>3. SubSeq(f, Len(f) + 1, Len(f)) = <<>>
    BY <2>2, SubSeqEmpty
  <2> QED BY <1>1, <2>1, <2>3 DEF Unread
<1>5. Stream' = rest
  <2>1. Stream' = (<<>> \o <<>>) \o rest
    BY <1>1, <1>4 DEF Stream
  <2>2. <<>> \in Seq(Unit)
    OBVIOUS
  <2> QED BY <1>2, <2>1, <2>2, ConcatEmptySeq
<1>6. RestIsTorn'
  BY <1>1 DEF FollowInv, RestIsTorn, Gapless, IsNewline
<1>7. Gapless(Stream)' /\ HeadIsExcused(Stream)'
  <2>1. Gapless(rest) /\ \A k \in DOMAIN rest : rest[k].line \in excused
    BY DEF FollowInv, RestIsTorn
  <2>2. rest # <<>> => 1 \in DOMAIN rest
    BY <1>2
  <2>3. Gapless(Stream)'
    BY <1>5, <2>1 DEF Gapless, IsNewline
  <2>4. HeadIsExcused(Stream)'
    BY <1>1, <1>5, <2>1, <2>2 DEF HeadIsExcused
  <2> QED BY <2>3, <2>4
<1>8. NothingSkipped'
  <2>1. written \in Nat
    BY DEF TypeInv, TypeOK
  <2>2. \A id \in 1..written' : id \notin (opened' + 1)..written'
    BY <1>1, <2>1
  <2> QED BY <2>2 DEF NothingSkipped, Appended
<1>9. off' <= Len(files'[rfd'])
  BY <1>1, <1>3
<1> QED BY <1>6, <1>7, <1>8, <1>9 DEF FollowInv

\* A write of the next whole line, or of the rest of a torn one.
LEMMA FollowWrite ==
    ASSUME TypeInv, FollowInv, UNCHANGED <<wfd, bridgeVars, opened, intact>>,
           NEW units \in Seq(Unit), NEW n \in 1..Len(units), Writes(units, n),
           Gapless(units), \A j, k \in DOMAIN units : units[j].line = units[k].line,
           \/ units = rest /\ written' = written
           \/ /\ rest = <<>> /\ units[1].pos = 1
              /\ written' = written + 1 /\ units[1].line = written + 1
    PROVE  FollowInv'
<1>1. /\ UNCHANGED <<wfd, rfd, off, buf, pc, published, opened, intact>>
      /\ Len(units) \in Nat \ {0} /\ DOMAIN units = 1..Len(units) /\ n \in 0..Len(units)
      /\ n \in Nat /\ written \in Nat /\ units # <<>>
  BY DEF bridgeVars, TypeInv, TypeOK
<1>2. Following' = Following
  BY <1>1 DEF Following
<1>3. /\ rest' = SubSeq(units, n + 1, Len(units)) /\ rest' \in Seq(Unit)
      /\ Len(rest') = Len(units) - n
      /\ \A k \in DOMAIN rest' : n + k \in DOMAIN units /\ rest'[k] = units[n + k]
      /\ excused' = IF n < Len(units) THEN excused \cup {units[1].line} ELSE excused
  BY DEF Writes
<1>4. PICK u, v : u = SubSeq(units, 1, n) /\ v = rest'
  OBVIOUS
<1>5. /\ u \in Seq(Unit) /\ Len(u) = n /\ (\A k \in 1..n : u[k] = units[k])
      /\ v \in Seq(Unit) /\ units = u \o v
  <2>1. /\ SubSeq(units, 1, n) \in Seq(Unit) /\ Len(SubSeq(units, 1, n)) = n
        /\ \A k \in 1..n : SubSeq(units, 1, n)[k] = units[k]
    BY <1>1, Taking
  <2>2. units = SubSeq(units, 1, n) \o SubSeq(units, n + 1, Len(units))
    BY <1>1, Splitting
  <2> QED BY <1>3, <1>4, <2>1, <2>2
<1>6. RestIsTorn'
  <2>1. Gapless(v)
    BY <1>5, GaplessDrop
  <2>2. Gapless(rest)'
    BY <1>4, <2>1 DEF Gapless, IsNewline
  <2>3. \A j, k \in DOMAIN rest' : rest'[j].line = rest'[k].line
    BY <1>3
  <2>4. ASSUME NEW k \in DOMAIN rest' PROVE rest'[k].line \in excused'
    <3>1. k \in 1..Len(rest') /\ Len(rest') = Len(units) - n
      BY <1>3
    <3>2. n < Len(units) /\ 1 \in DOMAIN units
      BY <1>1, <3>1
    <3>3. rest'[k].line = units[1].line
      BY <1>3, <3>2
    <3> QED BY <1>3, <3>2, <3>3
  <2> QED BY <2>2, <2>3, <2>4 DEF RestIsTorn
<1>7. ASSUME Following
      PROVE  /\ Unread' = Unread \o u /\ Stream' = buf \o Unread \o units
             /\ off' <= Len(files'[rfd'])
             /\ off <= Len(files[rfd]) /\ Gapless(Stream) /\ HeadIsExcused(Stream)
  <2>1. off <= Len(files[rfd]) /\ Gapless(Stream) /\ HeadIsExcused(Stream)
    BY <1>7 DEF FollowInv
  <2>2. UNCHANGED <<wfd, bridgeVars>>
    OBVIOUS
  <2> QED BY <1>4, <1>7, <2>1, <2>2, StreamWrite
<1>8. ASSUME Following PROVE Gapless(Stream)' /\ HeadIsExcused(Stream)'
  <2>1. /\ buf \o Unread \in Seq(Unit) /\ Stream = buf \o Unread \o rest
        /\ Stream \in Seq(Unit)
    BY <1>7, <1>8, StreamTyped DEF Stream
  <2>2. excused \subseteq excused'
    BY <1>3
  <2>3. CASE units = rest
    <3>1. Stream' = Stream
      BY <1>7, <1>8, <2>1, <2>3
    <3> QED BY <1>1, <1>7, <1>8, <2>2, <3>1 DEF Gapless, IsNewline, HeadIsExcused
  <2>4. CASE rest = <<>> /\ units[1].pos = 1
    <3>1. PICK a, c : a = buf \o Unread /\ c = Stream'
      OBVIOUS
    <3>2. a = Stream /\ a \in Seq(Unit)
      BY <2>1, <2>4, <3>1, ConcatEmptySeq
    <3>3. c = a \o units
      BY <1>7, <1>8, <3>1
    <3>4. Gapless(a)
      BY <1>7, <1>8, <3>2
    <3>5. Gapless(c)
      BY <1>1, <2>4, <3>2, <3>3, <3>4, GaplessAppend
    <3>6. Gapless(Stream)'
      BY <3>1, <3>5 DEF Gapless, IsNewline
    <3>7. /\ \A k \in DOMAIN a : c[k] = a[k]
          /\ \A k \in DOMAIN units : c[Len(a) + k] = units[k]
      BY <3>2, <3>3, Joining
    <3>8. HeadIsExcused(Stream)'
      <4>1. CASE a = <<>>
        <5>1. Len(a) = 0 /\ 1 \in DOMAIN units
          BY <1>1, <4>1
        <5>2. c[1] = units[1]
          BY <3>7, <5>1
        <5> QED BY <2>4, <3>1, <5>2 DEF HeadIsExcused
      <4>2. CASE a # <<>>
        <5>1. 1 \in DOMAIN a
          BY <3>2, <4>2
        <5>2. c[1] = a[1]
          BY <3>7, <5>1
        <5> QED BY <1>1, <1>7, <1>8, <2>2, <3>1, <3>2, <4>2, <5>2 DEF HeadIsExcused
      <4> QED BY <4>1, <4>2
    <3> QED BY <3>6, <3>8
  <2> QED BY <2>3, <2>4
<1>9. NothingSkipped'
  <2> SUFFICES ASSUME NEW id \in 1..written', Following',
                      id \in (opened' + 1)..written', id \notin excused'
               PROVE  (Published(id) \/ Holds(buf, id) \/ Holds(Unread, id))'
    BY DEF NothingSkipped, Appended, Following, Unread
  <2>1. Following /\ id \notin excused /\ id \in Nat
    BY <1>2, <1>3
  <2>2. /\ Unread \in Seq(Unit) /\ Unread' = Unread \o u
    BY <1>7, <2>1, StreamTyped
  <2>3. /\ \A k \in DOMAIN Unread : k \in DOMAIN Unread' /\ Unread'[k] = Unread[k]
        /\ \A k \in DOMAIN u : Len(Unread) + k \in DOMAIN Unread'
                               /\ Unread'[Len(Unread) + k] = u[k]
    <3>1. PICK a, b : a = Unread /\ b = Unread'
      OBVIOUS
    <3>2. a \in Seq(Unit) /\ b = a \o u
      BY <2>2, <3>1
    <3>3. /\ \A k \in DOMAIN a : k \in DOMAIN b /\ b[k] = a[k]
          /\ \A k \in DOMAIN u : Len(a) + k \in DOMAIN b /\ b[Len(a) + k] = u[k]
      BY <1>5, <3>2, Joining
    <3> QED BY <3>1, <3>3
  <2>4. CASE id \in 1..written
    <3>1. id \in (opened + 1)..written
      BY <1>1, <2>4 DEF TypeInv, TypeOK
    <3>2. Published(id) \/ Holds(buf, id) \/ Holds(Unread, id)
      BY <2>1, <2>4, <3>1, SkippedRestated DEF FollowInv
    <3> QED BY <1>1, <2>3, <3>2 DEF Published, Holds
  <2>5. CASE id \notin 1..written
    <3>1. written' = written + 1 /\ id = written + 1 /\ units[1].line = written + 1
      BY <1>1, <2>5
    <3>2. ~(n < Len(units))
      BY <1>3, <3>1
    <3>3. 1 \in DOMAIN u /\ u[1] = units[1]
      BY <1>1, <1>5
    <3> QED BY <2>3, <3>1, <3>3 DEF Holds
  <2> QED BY <2>4, <2>5
<1> QED BY <1>2, <1>6, <1>7, <1>8, <1>9 DEF FollowInv

LEMMA FollowSend ==
    ASSUME TypeInv, FollowInv, Send \/ SendRest
    PROVE  FollowInv'
<1>1. /\ wfd \in DOMAIN files /\ files \in Seq(Seq(Unit)) /\ written \in Nat
      /\ rest \in Seq(Unit)
  <2>1. wfd # 0 /\ wfd = Len(files) /\ files \in Seq(Seq(Unit))
    BY DEF TypeInv, TypeOK, NewestIsWritten, Send, SendRest
  <2> QED BY <2>1, SeqFacts DEF TypeInv, TypeOK
<1>2. UNCHANGED <<wfd, bridgeVars, opened, intact>>
  BY DEF Send, SendRest
<1>3. CASE SendRest
  <2>1. rest # <<>> /\ written' = written /\ WriteUnits(rest)
    BY <1>3 DEF SendRest
  <2>2. PICK n \in 1..Len(rest) : Writes(rest, n)
    BY <1>1, <2>1, WriteFacts
  <2>3. PICK units : units = rest
    OBVIOUS
  <2>4. Gapless(units) /\ \A j, k \in DOMAIN units : units[j].line = units[k].line
    BY <2>3 DEF FollowInv, RestIsTorn
  <2>5. units \in Seq(Unit) /\ n \in 1..Len(units) /\ Writes(units, n)
    BY <1>1, <2>2, <2>3
  <2> QED BY <1>2, <2>1, <2>3, <2>4, <2>5, FollowWrite
<1>4. CASE Send
  <2>1. PICK len \in Lengths : WriteUnits(Line(written + 1, len))
    BY <1>4 DEF Send
  <2>2. PICK units : units = Line(written + 1, len)
    OBVIOUS
  <2>3. len \in Nat \ {0} /\ written + 1 \in Nat /\ written' = written + 1 /\ rest = <<>>
    BY <1>1, <1>4, BridgeAssumption DEF Send
  <2>4. /\ units \in Seq(Unit) /\ Len(units) = len /\ units # <<>> /\ DOMAIN units = 1..len
        /\ \A q \in 1..len : units[q] = [line |-> written + 1, pos |-> q, len |-> len]
    BY <2>2, <2>3, LineFacts
  <2>5. PICK n \in 1..Len(units) : Writes(units, n)
    BY <1>1, <2>1, <2>2, <2>4, WriteFacts
  <2>6. /\ \A j, k \in DOMAIN units : units[j].line = units[k].line
        /\ units[1].pos = 1 /\ units[1].line = written + 1
    BY <2>3, <2>4
  <2>7. Gapless(units)
    BY <2>2, <2>3, GaplessLine
  <2> QED BY <1>2, <2>3, <2>4, <2>5, <2>6, <2>7, FollowWrite
<1> QED BY <1>3, <1>4
LEMMA FollowFill ==
    ASSUME TypeInv, FollowInv, Fill
    PROVE  FollowInv'
<1>1. UNCHANGED <<files, wfd, rest, written, pc, rfd, published, opened, intact, excused>>
  BY DEF Fill, pipelineVars, ghosts
<1>2. RestIsTorn'
  BY <1>1 DEF FollowInv, RestIsTorn, Gapless, IsNewline
<1>3. CASE ~Following
  <2>1. ~Following'
    BY <1>1, <1>3 DEF Following
  <2> QED BY <1>2, <2>1 DEF FollowInv, NothingSkipped, Appended, Following
<1>4. CASE Following
  <2>1. off <= Len(files[rfd]) /\ Gapless(Stream) /\ HeadIsExcused(Stream)
    BY <1>4 DEF FollowInv
  <2>2. /\ Unread' \in Seq(Unit) /\ Stream' = Stream /\ off' <= Len(files'[rfd'])
        /\ \E t \in Seq(Unit) : buf' = buf \o t /\ Unread = t \o Unread'
    BY <1>4, <2>1, StreamFill
  <2>3. PICK t \in Seq(Unit) : buf' = buf \o t /\ Unread = t \o Unread'
    BY <2>2
  <2>4. Gapless(Stream)' /\ HeadIsExcused(Stream)'
    BY <1>1, <2>1, <2>2 DEF Gapless, IsNewline, HeadIsExcused
  <2>5. \A id : Holds(buf, id) \/ Holds(Unread, id) => Holds(buf, id)' \/ Holds(Unread, id)'
    <3>1. PICK a, b, c, d : a = buf /\ b = buf' /\ c = Unread /\ d = Unread'
      OBVIOUS
    <3>2. a \in Seq(Unit) /\ b = a \o t /\ d \in Seq(Unit) /\ c = t \o d
      BY <2>2, <2>3, <3>1 DEF TypeInv, TypeOK
    <3>3. /\ \A k \in DOMAIN a : k \in DOMAIN b /\ b[k] = a[k]
          /\ \A k \in DOMAIN t : Len(a) + k \in DOMAIN b /\ b[Len(a) + k] = t[k]
      BY <3>2, Joining
    <3>4. /\ \A k \in DOMAIN t : k \in DOMAIN c /\ c[k] = t[k]
          /\ \A k \in DOMAIN c :
                 \/ k \in DOMAIN t
                 \/ k - Len(t) \in DOMAIN d /\ c[k] = d[k - Len(t)]
      BY <3>2, Joining
    <3>5. \A id : Holds(a, id) => Holds(b, id)
      BY <3>3 DEF Holds
    <3>6. \A id : Holds(c, id) => Holds(b, id) \/ Holds(d, id)
      BY <3>3, <3>4 DEF Holds
    <3>7. \A id : Holds(a, id) \/ Holds(c, id) => Holds(b, id) \/ Holds(d, id)
      BY <3>5, <3>6
    <3> QED BY <3>1, <3>7 DEF Holds
  <2>6. NothingSkipped'
    <3> SUFFICES ASSUME NEW id \in 1..written', Following',
                        id \in (opened' + 1)..written', id \notin excused'
                 PROVE  (Published(id) \/ Holds(buf, id) \/ Holds(Unread, id))'
      BY DEF NothingSkipped, Appended, Following, Unread
    <3>1. Published(id) \/ Holds(buf, id) \/ Holds(Unread, id)
      BY <1>1, <1>4, SkippedRestated DEF FollowInv
    <3>2. Published(id) => Published(id)'
      BY <1>1 DEF Published
    <3> QED BY <2>5, <3>1, <3>2
  <2> QED BY <1>2, <2>2, <2>4, <2>6 DEF FollowInv
<1> QED BY <1>3, <1>4

\* What readForever drops at the end of the file is the start of a torn line.
LEMMA FollowEnd ==
    ASSUME TypeInv, FollowInv, EndOfFile
    PROVE  FollowInv'
<1>1. /\ UNCHANGED <<files, wfd, rest, written, rfd, off, published, opened, intact, excused>>
      /\ pc = "read" /\ pc' = "check" /\ buf' = <<>>
  BY DEF EndOfFile, pipelineVars, ghosts
<1>2. RestIsTorn'
  BY <1>1 DEF FollowInv, RestIsTorn, Gapless, IsNewline
<1>3. CASE ~Following
  <2>1. ~Following'
    BY <1>1, <1>3 DEF Following
  <2> QED BY <1>2, <2>1 DEF FollowInv, NothingSkipped, Appended, Following
<1>4. CASE Following
  <2>1. off <= Len(files[rfd]) /\ Gapless(Stream) /\ HeadIsExcused(Stream)
    BY <1>4 DEF FollowInv
  <2>2. /\ files[rfd] \in Seq(Unit) /\ off \in Nat /\ buf \in Seq(Unit)
        /\ rest \in Seq(Unit) /\ Stream \in Seq(Unit)
    BY <1>4, <2>1, StreamTyped
  <2>3. Unread = <<>> /\ Unread' = <<>>
    <3>1. off >= Len(files[rfd]) /\ Len(files[rfd]) \in Nat
      BY <2>2 DEF EndOfFile, AtEnd
    <3>2. PICK f : f = files[rfd]
      OBVIOUS
    <3>3. Len(f) < off + 1 /\ off + 1 \in Int /\ Len(f) \in Int
      BY <2>2, <3>1, <3>2
    <3>4. SubSeq(f, off + 1, Len(f)) = <<>>
      BY <3>3, SubSeqEmpty
    <3> QED BY <1>1, <3>2, <3>4 DEF Unread
  <2>4. Stream = buf \o rest
    BY <2>2, <2>3, ConcatEmptySeq DEF Stream
  <2>5. Stream' = rest
    <3>1. Stream' = (<<>> \o <<>>) \o rest
      BY <1>1, <2>3 DEF Stream
    <3>2. <<>> \in Seq(Unit)
      OBVIOUS
    <3> QED BY <2>2, <3>1, <3>2, ConcatEmptySeq
  <2>6. Gapless(rest) /\ \A k \in DOMAIN rest : rest[k].line \in excused
    BY DEF FollowInv, RestIsTorn
  <2>7. rest # <<>> => 1 \in DOMAIN rest
    BY <2>2
  <2>8. Gapless(Stream)' /\ HeadIsExcused(Stream)'
    BY <1>1, <2>5, <2>6, <2>7 DEF Gapless, IsNewline, HeadIsExcused
  <2>9. \A k \in DOMAIN buf : ~IsNewline(buf[k])
    BY DEF EndOfFile, Newlines, IsNewline
  <2>10. ASSUME NEW j \in DOMAIN buf PROVE buf[j].line \in excused
    <3>1. PICK c : c = Stream
      OBVIOUS
    <3>2. /\ c \in Seq(Unit) /\ Len(c) = Len(buf) + Len(rest)
          /\ \A k \in DOMAIN buf : k \in DOMAIN c /\ c[k] = buf[k]
          /\ \A k \in DOMAIN rest : Len(buf) + k \in DOMAIN c /\ c[Len(buf) + k] = rest[k]
      BY <2>2, <2>4, <3>1, Joining
    <3>3. /\ Len(buf) \in Nat /\ DOMAIN buf = 1..Len(buf) /\ Len(rest) \in Nat
          /\ Len(buf) \in DOMAIN buf
      BY <2>2
    <3>4. rest # <<>>
      <4> SUFFICES ASSUME rest = <<>> PROVE FALSE
        OBVIOUS
      <4>1. Len(c) = Len(buf) /\ c # <<>>
        BY <2>2, <3>2, <3>3
      <4>2. IsNewline(c[Len(c)])
        BY <2>1, <3>1, <4>1 DEF Gapless
      <4> QED BY <2>9, <3>2, <3>3, <4>1, <4>2
    <3>5. PICK k : k = Len(buf) + 1
      OBVIOUS
    <3>6. k \in DOMAIN c /\ c[k] = rest[1] /\ j \in DOMAIN c /\ j <= k /\ c[j] = buf[j]
      BY <2>7, <3>2, <3>3, <3>4, <3>5
    <3>7. ASSUME NEW i \in j..(k - 1) PROVE ~IsNewline(c[i])
      <4>1. i \in DOMAIN buf
        BY <3>3, <3>5
      <4> QED BY <2>9, <3>2, <4>1
    <3>8. c[k].line = c[j].line
      BY <2>1, <3>1, <3>6, <3>7 DEF Gapless
    <3> QED BY <2>6, <2>7, <3>4, <3>6, <3>8
  <2>11. NothingSkipped'
    <3> SUFFICES ASSUME NEW id \in 1..written', Following',
                        id \in (opened' + 1)..written', id \notin excused'
                 PROVE  (Published(id) \/ Holds(buf, id) \/ Holds(Unread, id))'
      BY DEF NothingSkipped, Appended, Following, Unread
    <3>1. Published(id) \/ Holds(buf, id) \/ Holds(Unread, id)
      BY <1>1, <1>4, SkippedRestated DEF FollowInv
    <3>2. ~Holds(buf, id)
      BY <1>1, <2>10 DEF Holds
    <3>3. DOMAIN Unread = {}
      BY <2>3
    <3>4. ~Holds(Unread, id)
      BY <3>3 DEF Holds
    <3>5. Published(id) => Published(id)'
      BY <1>1 DEF Published
    <3> QED BY <3>1, <3>2, <3>4, <3>5
  <2>12. off' <= Len(files'[rfd'])
    BY <1>1, <2>1
  <2> QED BY <1>2, <2>8, <2>11, <2>12 DEF FollowInv
<1> QED BY <1>3, <1>4

\* A line that ReadBytes returns is a whole alert, unless it is one the bridge may
\* drop.
LEMMA FollowTake ==
    ASSUME TypeInv, FollowInv, Take
    PROVE  FollowInv'
<1>1. UNCHANGED <<files, wfd, rest, written, pc, rfd, off, opened, intact>>
  BY DEF Take, pipelineVars
<1>2. PICK k \in DOMAIN buf, line \in Seq(Unit) : TakeTo(k, line)
  BY TakeFacts
<1>3. excused \subseteq excused'
  BY <1>2 DEF TakeTo
<1>4. RestIsTorn'
  BY <1>1, <1>3 DEF FollowInv, RestIsTorn, Gapless, IsNewline
<1>5. CASE ~Following
  <2>1. ~Following'
    BY <1>1, <1>5 DEF Following
  <2> QED BY <1>4, <2>1 DEF FollowInv, NothingSkipped, Appended, Following
<1>6. CASE Following
  <2>1. off <= Len(files[rfd]) /\ Gapless(Stream) /\ HeadIsExcused(Stream)
    BY <1>6 DEF FollowInv
  <2>2. /\ \E t \in Seq(Unit) : Len(t) = k /\ Stream = t \o Stream'
        /\ Stream' \in Seq(Unit) /\ Unread' = Unread /\ off' <= Len(files'[rfd'])
    BY <1>2, <1>6, <2>1, StreamTake
  <2>3. PICK t \in Seq(Unit) : Len(t) = k /\ Stream = t \o Stream'
    BY <2>2
  <2>c. PICK c : c = Stream
    OBVIOUS
  <2>d. PICK d : d = Stream'
    OBVIOUS
  <2>4. d \in Seq(Unit) /\ c = t \o d /\ Gapless(c) /\ HeadIsExcused(c)
    BY <2>1, <2>2, <2>3, <2>c, <2>d
  <2>5. /\ buf \in Seq(Unit) /\ DOMAIN buf = 1..Len(buf) /\ Len(buf) \in Nat
        /\ \A j \in DOMAIN buf : buf[j] \in Unit
    BY DEF TypeInv, TypeOK
  <2>6. c \in Seq(Unit) /\ \A j \in DOMAIN buf : j \in DOMAIN c /\ c[j] = buf[j]
    <3>1. buf \in Seq(Unit) /\ Unread \o rest \in Seq(Unit) /\ c = buf \o (Unread \o rest)
      BY <1>6, <2>1, <2>3, <2>c, <2>d, StreamTyped
    <3>2. PICK a, b : a = buf /\ b = Unread \o rest
      OBVIOUS
    <3>3. a \in Seq(Unit) /\ b \in Seq(Unit) /\ c = a \o b
      BY <3>1, <3>2
    <3>4. c \in Seq(Unit) /\ \A j \in DOMAIN a : j \in DOMAIN c /\ c[j] = a[j]
      BY <3>3, Joining
    <3> QED BY <3>2, <3>4
  <2>7. Gapless(d)
    BY <2>4, GaplessDrop
  <2>8. HeadIsExcused(d)'
    <3> SUFFICES ASSUME d # <<>> PROVE d[1].pos = 1
      BY DEF HeadIsExcused
    <3>1. 1 \in DOMAIN d
      BY <2>4
    <3>2. k + 1 \in DOMAIN c /\ c[k + 1] = d[1]
      BY <2>3, <2>c, <2>d, <2>4, <3>1, Joining
    <3>3. IsNewline(c[k]) /\ k \in DOMAIN c
      BY <1>2, <2>6 DEF TakeTo
    <3> QED BY <2>4, <3>2, <3>3 DEF Gapless
  <2>9. Gapless(Stream)' /\ HeadIsExcused(Stream)'
    BY <2>3, <2>c, <2>d, <2>7, <2>8 DEF Gapless, IsNewline, HeadIsExcused
  \* The units up to the newline are consecutive units of one line.
  <2>10. ASSUME NEW i \in 1..k, NEW j \in 1..k, i <= j
         PROVE  /\ buf[j].line = buf[i].line /\ buf[j].len = buf[i].len
                /\ buf[j].pos = buf[i].pos + (j - i)
    <3>1. i \in DOMAIN buf /\ j \in DOMAIN buf
      BY <2>5
    <3>2. ASSUME NEW q \in i..(j - 1) PROVE ~IsNewline(c[q])
      <4>1. q \in DOMAIN buf /\ ~(k <= q)
        BY <2>5
      <4> QED BY <1>2, <2>6, <4>1 DEF TakeTo
    <3>3. i \in DOMAIN c /\ j \in DOMAIN c /\ c[i] = buf[i] /\ c[j] = buf[j]
      BY <2>6, <3>1
    <3>4. /\ c[j].line = c[i].line /\ c[j].len = c[i].len
          /\ c[j].pos = c[i].pos + (j - i)
      BY <2>4, <2>10, <3>2, <3>3 DEF Gapless
    <3> QED BY <3>3, <3>4
  <2>11. 1 \in 1..k /\ k \in 1..k /\ k \in Nat /\ DOMAIN line = 1..k /\ 1 \in DOMAIN buf
    BY <1>2, <2>5 DEF TakeTo
  <2>12. buf[1].pos = 1 => Whole(line) /\ line[1].line = buf[k].line
    <3> SUFFICES ASSUME buf[1].pos = 1 PROVE Whole(line) /\ line[1].line = buf[k].line
      OBVIOUS
    <3>1. \A j \in 1..k : line[j] = buf[j] /\ buf[j] \in Unit
      BY <1>2, <2>5, <2>11 DEF TakeTo
    <3>2. ASSUME NEW j \in 1..k
          PROVE  /\ buf[j].line = buf[1].line /\ buf[j].len = buf[1].len
                 /\ buf[j].pos = j
      <4>1. 1 <= j
        BY <2>11
      <4>2. buf[j].pos = 1 + (j - 1)
        BY <2>10, <2>11, <4>1
      <4> QED BY <2>10, <2>11, <4>1, <4>2
    <3>3. Len(line) = line[1].len
      <4>1. IsNewline(buf[k]) /\ Len(line) = k
        BY <1>2 DEF TakeTo
      <4> QED BY <2>11, <3>1, <3>2, <4>1 DEF IsNewline
    <3>4. ASSUME NEW j \in 1..k PROVE line[j] = [line[1] EXCEPT !.pos = j]
      <4>1. line[j] \in Unit /\ line[1] \in Unit
        BY <2>11, <3>1
      <4>2. line[j].line = line[1].line /\ line[j].len = line[1].len /\ line[j].pos = j
        BY <2>11, <3>1, <3>2
      <4> QED BY <4>1, <4>2 DEF Unit
    <3> QED BY <2>11, <3>1, <3>2, <3>3, <3>4 DEF Whole
  <2>13. buf[1].pos # 1 => buf[k].line <= opened \/ buf[k].line \in excused
    <3>1. c # <<>> /\ c[1] = buf[1] /\ buf[k].line = buf[1].line
      <4>1. 1 <= k
        BY <2>11
      <4>2. buf[k].line = buf[1].line
        BY <2>10, <2>11, <4>1
      <4>3. 1 \in DOMAIN c /\ c[1] = buf[1]
        BY <2>6, <2>11
      <4> QED BY <4>2, <4>3
    <3> QED BY <2>4, <3>1 DEF HeadIsExcused
  <2>14. NothingSkipped'
    <3> SUFFICES ASSUME NEW id \in 1..written', Following',
                        id \in (opened' + 1)..written', id \notin excused'
                 PROVE  (Published(id) \/ Holds(buf, id) \/ Holds(Unread, id))'
      BY DEF NothingSkipped, Appended, Following, Unread
    <3>1. Published(id) \/ Holds(buf, id) \/ Holds(Unread, id)
      BY <1>1, <1>3, <1>6, SkippedRestated DEF FollowInv
    <3>2. CASE Holds(Unread, id)
      BY <2>2, <3>2 DEF Holds
    <3>3. /\ published \in Seq(Nat) /\ written \in Nat /\ opened \in Nat
      BY DEF TypeInv, TypeOK
    <3>4. CASE Published(id)
      <4>1. DOMAIN published = 1..Len(published) /\ Len(published) \in Nat
        BY <3>3
      <4>2. PICK x : published' = published \/ published' = Append(published, x)
        BY <1>2 DEF TakeTo
      <4>3. \A m \in DOMAIN published :
                m \in DOMAIN published' /\ published'[m] = published[m]
        BY <3>3, <4>1, <4>2
      <4> QED BY <3>4, <4>3 DEF Published
    <3>5. CASE Holds(buf, id)
      <4>1. PICK j \in DOMAIN buf : buf[j].line = id
        BY <3>5 DEF Holds
      <4>2. CASE j > k
        BY <1>2, <4>1, <4>2 DEF TakeTo, Holds
      <4>3. CASE ~(j > k)
        <5>1. j \in 1..k /\ j <= k
          BY <2>5, <4>3
        <5>2. buf[k].line = id
          BY <2>10, <2>11, <4>1, <5>1
        <5>3. ~(id <= opened) /\ id \notin excused
          BY <1>1, <1>3, <3>3
        <5>4. Whole(line) /\ line[1].line = id
          BY <2>12, <2>13, <5>2, <5>3
        <5>5. published' = Append(published, id)
          BY <1>2, <5>2, <5>4 DEF TakeTo
        <5>6. id \in Nat
          BY <1>1, <3>3
        <5>7. Len(published) + 1 \in DOMAIN published' /\ published'[Len(published) + 1] = id
          BY <3>3, <5>5, <5>6, AppendProperties
        <5> QED BY <5>7 DEF Published
      <4> QED BY <4>2, <4>3
    <3> QED BY <3>1, <3>2, <3>4, <3>5
  <2> QED BY <1>4, <2>2, <2>9, <2>14 DEF FollowInv
<1> QED BY <1>5, <1>6

LEMMA FollowStep == TypeInv /\ FollowInv /\ [Next]_vars => FollowInv'
<1> SUFFICES ASSUME TypeInv, FollowInv, [Next]_vars PROVE FollowInv'
  OBVIOUS
<1>1. CASE UNCHANGED vars
  <2>1. UNCHANGED <<files, wfd, rest, written, pc, rfd, off, buf, published, opened, intact,
                    excused>>
    BY <1>1 DEF vars, pipelineVars, bridgeVars, ghosts
  <2>2. RestIsTorn'
    BY <2>1 DEF FollowInv, RestIsTorn, Gapless, IsNewline
  <2>3. Following' = Following /\ Stream' = Stream
    BY <2>1 DEF Following, Stream, Unread
  <2>4. Following' => /\ off' <= Len(files'[rfd']) /\ Gapless(Stream)'
                      /\ HeadIsExcused(Stream)'
    BY <2>1, <2>3 DEF FollowInv, Gapless, IsNewline, HeadIsExcused
  <2>5. NothingSkipped'
    BY <2>1 DEF FollowInv, NothingSkipped, Appended, Published, Holds
  <2> QED BY <2>2, <2>4, <2>5 DEF FollowInv
<1> QED BY <1>1, FollowQuiet, FollowOpen, FollowSend, FollowFill, FollowEnd, FollowTake
        DEF Next, BridgeStep

(* As long as the file the alert-bridge follows is not truncated, every      *)
(* alert that became visible whole since the bridge opened it has been       *)
(* published, is in the buffer of readForever or lies beyond the offset, for *)
(* every buffer size and line length and through every restart, removal and  *)
(* torn write.                                                               *)
THEOREM BridgeSkipsNothing == Spec => []NothingSkipped
<1>1. FollowInv => NothingSkipped
  BY DEF FollowInv
<1> QED BY <1>1, TypeInit, TypeStep, FollowInit, FollowStep, PTL DEF Spec
=============================================================================
