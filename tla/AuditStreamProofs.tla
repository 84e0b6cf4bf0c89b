-------------------------- MODULE AuditStreamProofs --------------------------
(***************************************************************************)
(* Theorems about AuditStream, for any size of the channel, the wire and   *)
(* the page and any number of events, broken connections and restarts.     *)
(***************************************************************************)
EXTENDS AuditStream, SequenceTheorems, TLAPS

(* The next event of the backlog: the one after the last that was sent.    *)
Due == IF lastSent = None THEN since ELSE lastSent + 1

(* What the handler has at each place of its code (handler.go 116-157).    *)
HandlerFits ==
  /\ pc = "none" =>
       ch = <<>> /\ backlog = <<>> /\ wire = <<>> /\ lastSent = None
  /\ pc = "subscribed" => backlog = <<>> /\ lastSent = None
  /\ pc = "live" => backlog = <<>>
  /\ lastSent = None => wire = <<>> /\ (pc # "none" => since = lastSeq + 1)
  /\ lastSent < published
  /\ \A i \in 1..Len(backlog) :
       backlog[i] = Due + i - 1 /\ backlog[i] < published

Rising(s) == \A i, j \in 1..Len(s) : i < j => s[i] < s[j]

(* The channel holds events of the log in order.                           *)
ChannelFits == Rising(ch) /\ \A i \in 1..Len(ch) : ch[i] < published

(* So does the wire, and the last of them is lastSent.                     *)
WireFits ==
  /\ Rising(wire)
  /\ \A i \in 1..Len(wire) : wire[i] < published
  /\ wire # <<>> => wire[Len(wire)] = lastSent

(* A connection that has lost nothing: the channel ends where the log      *)
(* ends, what is sent before it reaches up to it, and the wire goes on     *)
(* where the page is.                                                      *)
LosslessFits ==
  dropped # "now" /\ pc # "none" =>
    /\ \A i \in 1..Len(ch) : ch[i] = published - Len(ch) + i - 1
    /\ pc \in {"backlog", "live"} =>
         published - Len(ch) <= Due + Len(backlog)
    /\ \A i \in 1..Len(wire) : wire[i] = lastSent - Len(wire) + i
    /\ lastSent # None => lastSent - Len(wire) <= lastSeq

(* The page ends in lastSeq and is in order.                               *)
ViewFits ==
  /\ \A i, j \in 1..Len(view) : i < j => view[i].seq < view[j].seq
  /\ view # <<>> => view[Len(view)].seq = lastSeq
  /\ dropped = "no" =>
       \A i \in 1..Len(view) : view[i].seq = lastSeq - Len(view) + i

StreamTypes == TypeOK /\ lastSeq < MaxSeq

StreamInv ==
  StreamTypes /\ HandlerFits /\ ChannelFits /\ WireFits /\ LosslessFits
    /\ ViewFits

-----------------------------------------------------------------------------
(* Taking the first of a queue.                                            *)
LEMMA TailFacts ==
  ASSUME NEW S, NEW s \in Seq(S), s # <<>>
  PROVE  /\ Tail(s) \in Seq(S) /\ Len(Tail(s)) = Len(s) - 1 /\ Len(s) >= 1
         /\ Head(s) = s[1] /\ Head(s) \in S
         /\ \A i \in 1..(Len(s) - 1) : Tail(s)[i] = s[i + 1]
OBVIOUS

(* Adding at the end of one.                                               *)
LEMMA AppendFacts ==
  ASSUME NEW S, NEW s \in Seq(S), NEW e \in S
  PROVE  /\ Append(s, e) \in Seq(S) /\ Len(Append(s, e)) = Len(s) + 1
         /\ Append(s, e)[Len(s) + 1] = e
         /\ \A i \in 1..Len(s) : Append(s, e)[i] = s[i]
         /\ Append(s, e) # <<>>
OBVIOUS

(* What is taken from an ordered queue leaves it ordered.                  *)
LEMMA RisingTail ==
  ASSUME NEW s \in Seq(Int), s # <<>>, Rising(s)
  PROVE  Rising(Tail(s)) /\ \A i \in 1..Len(Tail(s)) : Tail(s)[i] > Head(s)
<1> DEFINE r == Tail(s)
<1>1. /\ r \in Seq(Int) /\ Len(r) = Len(s) - 1 /\ Len(s) >= 1
      /\ Head(s) = s[1] /\ Len(s) \in Nat
      /\ \A i \in 1..(Len(s) - 1) : r[i] = s[i + 1]
  BY TailFacts
<1> HIDE DEF r
<1>2. ASSUME NEW i \in 1..Len(r), NEW j \in 1..Len(r), i < j
      PROVE  r[i] < r[j]
  <2>1. i + 1 \in 1..Len(s) /\ j + 1 \in 1..Len(s) /\ i + 1 < j + 1
    BY <1>1, <1>2
  <2>2. s[i + 1] < s[j + 1]
    BY <2>1 DEF Rising
  <2>. QED BY <1>1, <2>2
<1>3. ASSUME NEW i \in 1..Len(r) PROVE r[i] > s[1]
  <2>1. i + 1 \in 1..Len(s) /\ 1 \in 1..Len(s) /\ 1 < i + 1
    BY <1>1
  <2>2. s[1] < s[i + 1] /\ s[1] \in Int /\ s[i + 1] \in Int
    BY <2>1 DEF Rising
  <2>. QED BY <1>1, <2>2
<1>. QED BY <1>1, <1>2, <1>3 DEF Rising, r

(* A larger event at the end keeps it ordered.                             *)
LEMMA RisingAppend ==
  ASSUME NEW s \in Seq(Int), NEW e \in Int, Rising(s),
         s # <<>> => s[Len(s)] < e
  PROVE  Rising(Append(s, e))
<1> DEFINE r == Append(s, e)
<1>1. /\ r \in Seq(Int) /\ Len(r) = Len(s) + 1 /\ r[Len(s) + 1] = e
      /\ Len(s) \in Nat /\ \A i \in 1..Len(s) : r[i] = s[i]
  BY AppendFacts
<1> HIDE DEF r
<1>2. ASSUME NEW i \in 1..Len(s) PROVE s[i] < e
  <2>1. Len(s) \in 1..Len(s) /\ s # <<>>
    BY <1>1
  <2>2. s[i] \in Int /\ s[Len(s)] \in Int
    BY <2>1
  <2>3. i = Len(s) \/ s[i] < s[Len(s)]
    BY <1>1, <2>1 DEF Rising
  <2>. QED BY <2>1, <2>2, <2>3
<1>3. ASSUME NEW i \in 1..Len(r), NEW j \in 1..Len(r), i < j
      PROVE  r[i] < r[j]
  <2>1. i \in 1..Len(s) /\ (j \in 1..Len(s) \/ j = Len(s) + 1)
    BY <1>1, <1>3
  <2>. QED BY <1>1, <1>2, <1>3, <2>1 DEF Rising
<1>. QED BY <1>3 DEF Rising, r

(* The types of the state, in the form the steps need.                     *)
LEMMA StreamFacts ==
  ASSUME StreamInv
  PROVE  /\ MaxSeq \in Nat /\ SubBuffer \in Nat /\ MaxWire \in Nat
         /\ published \in Nat /\ published <= MaxSeq
         /\ since \in Nat /\ since <= MaxSeq
         /\ lastSent \in Int /\ lastSent >= -1 /\ lastSent < published
         /\ lastSeq \in Int /\ lastSeq >= -1 /\ lastSeq < MaxSeq
         /\ ch \in Seq(Seqs) /\ ch \in Seq(Int) /\ Len(ch) \in Nat
         /\ wire \in Seq(Seqs) /\ wire \in Seq(Int) /\ Len(wire) \in Nat
         /\ backlog \in Seq(Seqs) /\ Len(backlog) \in Nat
         /\ Due \in Nat /\ (lastSent # None => Due = lastSent + 1)
         /\ (lastSent = None => Due = since)
<1>0. ASSUME NEW s \in Seq(Seqs) PROVE s \in Seq(Int)
  <2>1. s \in [1..Len(s) -> Seqs] /\ Len(s) \in Nat
    BY LenProperties
  <2>2. s \in [1..Len(s) -> Int]
    BY <2>1 DEF Seqs
  <2>. QED BY <2>1, <2>2, SeqDef
<1>1. /\ MaxSeq \in Nat /\ SubBuffer \in Nat /\ MaxWire \in Nat
      /\ published \in Nat /\ published <= MaxSeq
      /\ since \in Nat /\ since <= MaxSeq
      /\ lastSent \in Int /\ lastSent >= -1
      /\ lastSeq \in Int /\ lastSeq >= -1 /\ lastSeq < MaxSeq
  BY BufferAssumption, StreamBounds
     DEF StreamInv, StreamTypes, TypeOK, Seqs, None
<1>2. lastSent < published
  BY DEF StreamInv, HandlerFits
<1>3. ch \in Seq(Seqs) /\ wire \in Seq(Seqs) /\ backlog \in Seq(Seqs)
  BY DEF StreamInv, StreamTypes, TypeOK
<1>4. Due \in Nat
  BY <1>1 DEF Due, None
<1>. QED BY <1>0, <1>1, <1>2, <1>3, <1>4 DEF Due

-----------------------------------------------------------------------------
(* An event is published while nobody listens, into the channel, or past   *)
(* it (pipeline.go 272-278).                                               *)
LEMMA PublishStep == ASSUME StreamInv, Publish PROVE StreamInv'
<1>0. /\ published' = published + 1 /\ published < MaxSeq
      /\ UNCHANGED <<life, pc, since, backlog, lastSent, wire, lastSeq, view,
                     disconnects>>
      /\ Due' = Due
  BY DEF Publish, client, Due
<1>1. /\ StreamTypes /\ HandlerFits /\ ChannelFits /\ WireFits /\ LosslessFits
      /\ ViewFits
  BY DEF StreamInv
<1>2. /\ MaxSeq \in Nat /\ SubBuffer \in Nat
      /\ published \in Nat /\ lastSent \in Int
      /\ ch \in Seq(Seqs) /\ ch \in Seq(Int) /\ Len(ch) \in Nat
      /\ wire \in Seq(Seqs) /\ backlog \in Seq(Seqs)
      /\ Due \in Nat /\ Len(backlog) \in Nat
  BY StreamFacts
<1>3. published' \in Seqs /\ published \in Seqs
  BY <1>0, <1>2 DEF Seqs
<1>4. lastSent < published' /\ \A x \in Int : x < published => x < published'
  BY <1>0, <1>2, StreamFacts
<1>5. \A i \in 1..Len(backlog) : backlog[i] < published'
  <2>1. \A i \in 1..Len(backlog) : backlog[i] < published /\ backlog[i] \in Int
    BY <1>1, <1>2 DEF HandlerFits, Seqs
  <2>. QED BY <1>4, <2>1
<1>6. WireFits'
  <2>1. \A i \in 1..Len(wire) : wire[i] < published /\ wire[i] \in Int
    BY <1>1, <1>2 DEF WireFits, Seqs
  <2>2. \A i \in 1..Len(wire) : wire[i] < published'
    BY <1>4, <2>1
  <2>. QED BY <1>0, <1>1, <2>2 DEF WireFits
<1>7. \A i \in 1..Len(ch) : ch[i] < published' /\ ch[i] \in Int
  <2>1. \A i \in 1..Len(ch) : ch[i] < published /\ ch[i] \in Int
    BY <1>1, <1>2 DEF ChannelFits, Seqs
  <2>. QED BY <1>4, <2>1
<1>8. CASE UNCHANGED ch /\ (pc = "none" \/ dropped' = "now")
          /\ dropped' \in {dropped, "now"}
  <2>1. StreamTypes'
    BY <1>0, <1>1, <1>3, <1>8 DEF StreamTypes, TypeOK
  <2>2. HandlerFits'
    BY <1>0, <1>1, <1>4, <1>5, <1>8 DEF HandlerFits
  <2>3. ChannelFits'
    BY <1>1, <1>7, <1>8 DEF ChannelFits
  <2>4. LosslessFits'
    BY <1>0, <1>8 DEF LosslessFits
  <2>5. ViewFits'
    BY <1>0, <1>1, <1>8 DEF ViewFits
  <2>. QED BY <1>6, <2>1, <2>2, <2>3, <2>4, <2>5 DEF StreamInv
<1>9. CASE pc # "none" /\ ~Full /\ ch' = Append(ch, published)
          /\ UNCHANGED dropped
  <2>0. /\ ch' \in Seq(Seqs) /\ Len(ch') = Len(ch) + 1
        /\ ch'[Len(ch) + 1] = published
        /\ \A i \in 1..Len(ch) : ch'[i] = ch[i]
    BY <1>2, <1>3, <1>9, AppendFacts
  <2>1. Len(ch') <= SubBuffer
    BY <1>1, <1>2, <1>9, <2>0 DEF Full, StreamTypes, TypeOK
  <2>2. StreamTypes'
    BY <1>0, <1>1, <1>3, <1>9, <2>0, <2>1 DEF StreamTypes, TypeOK
  <2>3. HandlerFits'
    BY <1>0, <1>1, <1>4, <1>5, <1>9 DEF HandlerFits
  <2>4. ch # <<>> => ch[Len(ch)] < published
    <3>1. ch # <<>> => Len(ch) \in 1..Len(ch)
      BY <1>2
    <3>. QED BY <1>1, <3>1 DEF ChannelFits
  <2>5. Rising(ch')
    BY <1>1, <1>2, <1>9, <2>4, RisingAppend DEF ChannelFits
  <2>6. \A i \in 1..Len(ch') : i \in 1..Len(ch) \/ i = Len(ch) + 1
    BY <1>2, <2>0
  <2>7. ChannelFits'
    <3>1. \A i \in 1..Len(ch') : ch'[i] < published'
      BY <1>0, <1>2, <1>7, <2>0, <2>6
    <3>. QED BY <2>5, <3>1 DEF ChannelFits
  <2>8. LosslessFits'
    <3> SUFFICES ASSUME dropped # "now"
                 PROVE  LosslessFits'
      BY <1>9 DEF LosslessFits
    <3>1. /\ \A i \in 1..Len(ch) : ch[i] = published - Len(ch) + i - 1
          /\ pc \in {"backlog", "live"} =>
               published - Len(ch) <= Due + Len(backlog)
          /\ \A i \in 1..Len(wire) : wire[i] = lastSent - Len(wire) + i
          /\ lastSent # None => lastSent - Len(wire) <= lastSeq
      BY <1>1, <1>9 DEF LosslessFits
    <3>2. published' - Len(ch') = published - Len(ch)
      BY <1>0, <1>2, <2>0
    <3>3. \A i \in 1..Len(ch') : ch'[i] = published' - Len(ch') + i - 1
      <4>1. ASSUME NEW i \in 1..Len(ch')
            PROVE  ch'[i] = (published - Len(ch)) + i - 1
        <5>1. CASE i \in 1..Len(ch)
          BY <2>0, <3>1, <5>1
        <5>2. CASE i = Len(ch) + 1
          BY <1>2, <2>0, <5>2
        <5>. QED BY <2>6, <5>1, <5>2
      <4>. QED BY <3>2, <4>1
    <3>. QED BY <1>0, <3>1, <3>2, <3>3 DEF LosslessFits
  <2>9. ViewFits'
    BY <1>0, <1>1, <1>9 DEF ViewFits
  <2>. QED BY <1>6, <2>2, <2>3, <2>7, <2>8, <2>9 DEF StreamInv
<1>. QED BY <1>8, <1>9 DEF Publish

(* The hook connects again from where the page is (handler.go 116-128).    *)
LEMMA ConnectStep == ASSUME StreamInv, Connect PROVE StreamInv'
<1>0. /\ pc = "none" /\ pc' = "subscribed" /\ since' = lastSeq + 1
      /\ ch' = <<>> /\ lastSent' = None
      /\ dropped' = IF dropped = "now" THEN "earlier" ELSE dropped
      /\ UNCHANGED <<life, published, backlog, wire, lastSeq, view,
                     disconnects>>
  BY DEF Connect, client
<1>1. /\ StreamTypes /\ HandlerFits /\ ChannelFits /\ WireFits /\ LosslessFits
      /\ ViewFits
  BY DEF StreamInv
<1>2. /\ lastSeq \in Int /\ lastSeq >= -1 /\ lastSeq < MaxSeq /\ MaxSeq \in Nat
      /\ published \in Nat /\ SubBuffer \in Nat
  BY StreamFacts
<1>3. backlog = <<>> /\ wire = <<>>
  BY <1>0, <1>1 DEF HandlerFits
<1>4. since' \in Seqs
  BY <1>0, <1>2 DEF Seqs
<1>5. dropped' \in {"no", "now", "earlier"} /\ (dropped' = "no" => dropped = "no")
  BY <1>0, <1>1 DEF StreamTypes, TypeOK
<1>6. /\ ch' \in Seq(Seqs) /\ Len(ch') = 0 /\ Len(ch') <= SubBuffer
      /\ 1..Len(ch') = {} /\ 1..Len(wire') = {} /\ 1..Len(backlog') = {}
  BY <1>0, <1>2, <1>3
<1>7. StreamTypes'
  BY <1>0, <1>1, <1>4, <1>5, <1>6 DEF StreamTypes, TypeOK
<1>8. HandlerFits'
  BY <1>0, <1>2, <1>3, <1>6 DEF HandlerFits, None
<1>9. ChannelFits' /\ WireFits' /\ LosslessFits'
  BY <1>0, <1>3, <1>6 DEF ChannelFits, WireFits, LosslessFits, Rising, None
<1>10. ViewFits'
  BY <1>0, <1>1, <1>5 DEF ViewFits
<1>. QED BY <1>7, <1>8, <1>9, <1>10 DEF StreamInv

(* AllEventsSince covers whatever was published before the channel was     *)
(* registered (pipeline.go 394-405, handler.go 128-136).                   *)
LEMMA ReadBacklogStep == ASSUME StreamInv, ReadBacklog PROVE StreamInv'
<1>0. /\ pc = "subscribed" /\ pc' = "backlog"
      /\ backlog' = AllEventsSince(since)
      /\ UNCHANGED <<life, published, since, ch, lastSent, wire, lastSeq, view,
                     dropped, disconnects>>
  BY DEF ReadBacklog, client
<1>1. /\ StreamTypes /\ HandlerFits /\ ChannelFits /\ WireFits /\ LosslessFits
      /\ ViewFits
  BY DEF StreamInv
<1>2. /\ published \in Nat /\ published <= MaxSeq /\ MaxSeq \in Nat
      /\ since \in Nat /\ Len(ch) \in Nat
  BY StreamFacts
<1>3. lastSent = None /\ Due = since /\ Due' = since
  BY <1>0, <1>1 DEF HandlerFits, Due
<1> DEFINE n == IF published - since >= 0 THEN published - since ELSE 0
<1>4. n \in Nat /\ 1..(published - since) = 1..n
  BY <1>2
<1>5. backlog' = [i \in 1..n |-> since + i - 1]
  BY <1>0, <1>4 DEF AllEventsSince
<1>6. published <= since + n /\ \A i \in 1..n : since + i - 1 < published
  BY <1>2
<1> HIDE DEF n
<1>7. \A i \in 1..n : since + i - 1 \in Seqs
  BY <1>2, <1>4, <1>6 DEF Seqs
<1>8. backlog' \in Seq(Seqs) /\ Len(backlog') = n
  BY <1>4, <1>5, <1>7
<1>9. \A i \in 1..n : backlog'[i] = since + i - 1 /\ backlog'[i] < published
  BY <1>5, <1>6
<1>10. StreamTypes'
  BY <1>0, <1>1, <1>8 DEF StreamTypes, TypeOK
<1>11. HandlerFits'
  BY <1>0, <1>1, <1>3, <1>8, <1>9 DEF HandlerFits
<1>12. ChannelFits' /\ WireFits' /\ ViewFits'
  BY <1>0, <1>1 DEF ChannelFits, WireFits, ViewFits
<1>13. LosslessFits'
  <2>1. published - Len(ch) <= Due' + Len(backlog')
    BY <1>2, <1>3, <1>4, <1>6, <1>8
  <2>. QED BY <1>0, <1>1, <2>1 DEF LosslessFits
<1>. QED BY <1>10, <1>11, <1>12, <1>13 DEF StreamInv

(* An event goes on the wire: it is newer than the last, and on a          *)
(* connection that lost nothing it is the next (handler.go 137-157).       *)
LEMMA WriteFacts ==
  ASSUME StreamInv, NEW s \in Seqs, Write(s), lastSent < s, s < published,
         pc # "none",
         dropped # "now" =>
           \/ lastSent = None /\ s <= lastSeq + 1
           \/ lastSent # None /\ s = lastSent + 1,
         published' = published, lastSeq' = lastSeq
  PROVE  /\ wire' \in Seq(Seqs) /\ Len(wire') <= MaxWire
         /\ lastSent' = s /\ s \in Int /\ s # None
         /\ WireFits'
         /\ dropped # "now" =>
              /\ \A i \in 1..Len(wire') : wire'[i] = s - Len(wire') + i
              /\ s - Len(wire') <= lastSeq
<1>0. wire' = Append(wire, s) /\ lastSent' = s /\ Len(wire) < MaxWire
  BY DEF Write
<1>1. /\ MaxWire \in Nat /\ MaxSeq \in Nat /\ published \in Nat
      /\ lastSent \in Int /\ lastSeq \in Int /\ lastSent >= -1
      /\ wire \in Seq(Seqs) /\ wire \in Seq(Int) /\ Len(wire) \in Nat
  BY StreamFacts
<1>2. s \in Int /\ s >= 0 /\ s # None
  BY <1>1 DEF Seqs, None
<1>3. /\ wire' \in Seq(Seqs) /\ Len(wire') = Len(wire) + 1
      /\ wire'[Len(wire) + 1] = s /\ wire' # <<>>
      /\ \A i \in 1..Len(wire) : wire'[i] = wire[i]
  BY <1>0, <1>1, AppendFacts
<1>4. Len(wire') <= MaxWire
  BY <1>0, <1>1, <1>3
<1>5. /\ Rising(wire) /\ \A i \in 1..Len(wire) : wire[i] < published
      /\ wire # <<>> => wire[Len(wire)] = lastSent
      /\ lastSent = None => wire = <<>>
  BY DEF StreamInv, WireFits, HandlerFits
<1>6. Rising(wire')
  BY <1>0, <1>1, <1>2, <1>5, RisingAppend
<1>7. \A i \in 1..Len(wire') : i \in 1..Len(wire) \/ i = Len(wire) + 1
  BY <1>1, <1>3
<1>8. WireFits'
  <2>1. \A i \in 1..Len(wire') : wire'[i] < published
    BY <1>3, <1>5, <1>7
  <2>. QED BY <1>0, <1>3, <1>6, <2>1 DEF WireFits
<1>9. ASSUME dropped # "now"
      PROVE  /\ \A i \in 1..Len(wire') : wire'[i] = s - Len(wire') + i
             /\ s - Len(wire') <= lastSeq
  <2>1. /\ \A i \in 1..Len(wire) : wire[i] = lastSent - Len(wire) + i
        /\ lastSent # None => lastSent - Len(wire) <= lastSeq
    BY <1>9 DEF StreamInv, LosslessFits
  <2>2. CASE lastSent = None /\ s <= lastSeq + 1
    <3>1. Len(wire) = 0
      BY <1>5, <2>2
    <3>. QED BY <1>1, <1>2, <1>3, <1>7, <2>2, <3>1
  <2>3. CASE lastSent # None /\ s = lastSent + 1
    <3>1. s - Len(wire') = lastSent - Len(wire)
      BY <1>1, <1>2, <1>3, <2>3
    <3>2. ASSUME NEW i \in 1..Len(wire')
          PROVE  wire'[i] = (lastSent - Len(wire)) + i
      <4>1. CASE i \in 1..Len(wire)
        BY <1>3, <2>1, <4>1
      <4>2. CASE i = Len(wire) + 1
        BY <1>1, <1>3, <2>3, <4>2
      <4>. QED BY <1>7, <4>1, <4>2
    <3>. QED BY <2>1, <2>3, <3>1, <3>2
  <2>. QED BY <1>9, <2>2, <2>3
<1>. QED BY <1>0, <1>2, <1>3, <1>4, <1>8, <1>9

(* The backlog is written from where the page is.                          *)
LEMMA WriteBacklogStep == ASSUME StreamInv, WriteBacklog PROVE StreamInv'
<1> DEFINE s == Head(backlog)
<1>0. /\ pc = "backlog" /\ backlog # <<>> /\ Write(s)
      /\ backlog' = Tail(backlog)
      /\ UNCHANGED <<life, published, pc, since, ch, lastSeq, view, dropped,
                     disconnects>>
  BY DEF WriteBacklog, client
<1>1. /\ StreamTypes /\ HandlerFits /\ ChannelFits /\ WireFits /\ LosslessFits
      /\ ViewFits
  BY DEF StreamInv
<1>2. /\ published \in Nat /\ since \in Nat /\ Len(ch) \in Nat
      /\ lastSent \in Int /\ lastSeq \in Int /\ lastSent >= -1
      /\ backlog \in Seq(Seqs) /\ Len(backlog) \in Nat
      /\ Due \in Nat /\ (lastSent # None => Due = lastSent + 1)
      /\ (lastSent = None => Due = since)
  BY StreamFacts
<1>3. /\ backlog' \in Seq(Seqs) /\ Len(backlog') = Len(backlog) - 1
      /\ s = backlog[1] /\ s \in Seqs /\ 1 \in 1..Len(backlog)
      /\ \A i \in 1..(Len(backlog) - 1) : backlog'[i] = backlog[i + 1]
  BY <1>0, <1>2, TailFacts
<1> HIDE DEF s
<1>4. /\ \A i \in 1..Len(backlog) :
           backlog[i] = Due + i - 1 /\ backlog[i] < published
      /\ lastSent = None => since = lastSeq + 1
  BY <1>0, <1>1 DEF HandlerFits
<1>5. s = Due /\ s < published
  BY <1>2, <1>3, <1>4
<1>6. lastSent < s
  BY <1>2, <1>5 DEF None
<1>7. \/ lastSent = None /\ s <= lastSeq + 1
      \/ lastSent # None /\ s = lastSent + 1
  BY <1>2, <1>4, <1>5
<1>8. /\ wire' \in Seq(Seqs) /\ Len(wire') <= MaxWire
      /\ lastSent' = s /\ s \in Int /\ s # None
      /\ WireFits'
      /\ dropped # "now" =>
           /\ \A i \in 1..Len(wire') : wire'[i] = s - Len(wire') + i
           /\ s - Len(wire') <= lastSeq
  BY <1>0, <1>3, <1>5, <1>6, <1>7, WriteFacts
<1>9. Due' = Due + 1
  BY <1>5, <1>8 DEF Due
<1>10. \A i \in 1..Len(backlog') :
         backlog'[i] = Due' + i - 1 /\ backlog'[i] < published
  <2> SUFFICES ASSUME NEW i \in 1..Len(backlog')
               PROVE  backlog'[i] = Due' + i - 1 /\ backlog'[i] < published
    OBVIOUS
  <2>1. i + 1 \in 1..Len(backlog) /\ backlog'[i] = backlog[i + 1]
    BY <1>2, <1>3
  <2>2. backlog[i + 1] = Due + (i + 1) - 1 /\ backlog[i + 1] < published
    BY <1>4, <2>1
  <2>. QED BY <1>2, <1>9, <2>1, <2>2
<1>11. StreamTypes'
  BY <1>0, <1>1, <1>3, <1>8 DEF StreamTypes, TypeOK
<1>12. HandlerFits'
  BY <1>0, <1>5, <1>8, <1>10 DEF HandlerFits
<1>13. ChannelFits' /\ ViewFits'
  BY <1>0, <1>1 DEF ChannelFits, ViewFits
<1>14. LosslessFits'
  <2> SUFFICES ASSUME dropped # "now" PROVE LosslessFits'
    BY <1>0 DEF LosslessFits
  <2>1. /\ \A i \in 1..Len(ch) : ch[i] = published - Len(ch) + i - 1
        /\ published - Len(ch) <= Due + Len(backlog)
    BY <1>0, <1>1 DEF LosslessFits
  <2>2. published - Len(ch) <= Due' + Len(backlog')
    BY <1>2, <1>3, <1>9, <2>1
  <2>. QED BY <1>0, <1>8, <2>1, <2>2 DEF LosslessFits
<1>. QED BY <1>8, <1>11, <1>12, <1>13, <1>14 DEF StreamInv

(* The handler goes over to the channel.                                   *)
LEMMA EndBacklogStep == ASSUME StreamInv, EndBacklog PROVE StreamInv'
<1>0. /\ pc = "backlog" /\ pc' = "live" /\ backlog = <<>>
      /\ UNCHANGED <<life, published, since, ch, backlog, lastSent, wire,
                     lastSeq, view, dropped, disconnects>>
      /\ Due' = Due
  BY DEF EndBacklog, client, Due
<1>1. StreamTypes'
  BY <1>0 DEF StreamInv, StreamTypes, TypeOK
<1>2. HandlerFits'
  BY <1>0 DEF StreamInv, HandlerFits
<1>3. ChannelFits' /\ WireFits' /\ ViewFits'
  BY <1>0 DEF StreamInv, ChannelFits, WireFits, ViewFits
<1>4. LosslessFits'
  BY <1>0 DEF StreamInv, LosslessFits
<1>. QED BY <1>1, <1>2, <1>3, <1>4 DEF StreamInv

(* The live loop skips what the backlog covered and writes the rest: on a  *)
(* connection that lost nothing the channel starts no later than the event *)
(* after lastSent (handler.go 138-157).                                    *)
LEMMA ForwardStep == ASSUME StreamInv, Forward PROVE StreamInv'
<1> DEFINE s == Head(ch)
<1>0. /\ pc = "live" /\ ch # <<>> /\ ch' = Tail(ch)
      /\ UNCHANGED <<life, published, pc, since, backlog, lastSeq, view,
                     dropped, disconnects>>
      /\ \/ s <= lastSent /\ UNCHANGED <<wire, lastSent>>
         \/ ~(s <= lastSent) /\ Write(s)
  BY DEF Forward, client, Covered
<1>1. /\ StreamTypes /\ HandlerFits /\ ChannelFits /\ WireFits /\ LosslessFits
      /\ ViewFits
  BY DEF StreamInv
<1>2. /\ published \in Nat /\ since \in Nat /\ SubBuffer \in Nat
      /\ lastSent \in Int /\ lastSeq \in Int /\ lastSent >= -1
      /\ ch \in Seq(Seqs) /\ ch \in Seq(Int) /\ Len(ch) \in Nat
      /\ Due \in Nat /\ (lastSent # None => Due = lastSent + 1)
      /\ (lastSent = None => Due = since)
  BY StreamFacts
<1>3. /\ ch' \in Seq(Seqs) /\ Len(ch') = Len(ch) - 1 /\ Len(ch) >= 1
      /\ s = ch[1] /\ s \in Seqs /\ 1 \in 1..Len(ch)
      /\ \A i \in 1..(Len(ch) - 1) : ch'[i] = ch[i + 1]
  BY <1>0, <1>2, TailFacts
<1>4. Rising(ch')
  BY <1>0, <1>1, <1>2, RisingTail DEF ChannelFits
<1> HIDE DEF s
<1>5. s \in Int /\ s >= 0 /\ s < published
  BY <1>1, <1>2, <1>3, StreamBounds DEF ChannelFits, Seqs
<1>6. \A i \in 1..Len(ch') : i + 1 \in 1..Len(ch) /\ ch'[i] = ch[i + 1]
  BY <1>2, <1>3
<1>7. ChannelFits'
  BY <1>0, <1>1, <1>4, <1>6 DEF ChannelFits
<1>8. backlog = <<>> /\ Len(backlog) = 0
  BY <1>0, <1>1 DEF HandlerFits
<1>9. dropped # "now" => s = published - Len(ch) /\ s <= Due
  <2>1. dropped # "now" =>
          /\ ch[1] = published - Len(ch) + 1 - 1
          /\ published - Len(ch) <= Due + Len(backlog)
    BY <1>0, <1>1, <1>3 DEF LosslessFits
  <2>. QED BY <1>2, <1>3, <1>8, <2>1
<1>10. Len(ch') <= SubBuffer
  BY <1>1, <1>2, <1>3 DEF StreamTypes, TypeOK
<1>11. ViewFits'
  BY <1>0, <1>1 DEF ViewFits
<1>12. dropped # "now" =>
         /\ \A i \in 1..Len(ch') : ch'[i] = published - Len(ch') + i - 1
         /\ published - Len(ch') = s + 1
  <2> SUFFICES ASSUME dropped # "now"
               PROVE  /\ \A i \in 1..Len(ch') :
                           ch'[i] = published - Len(ch') + i - 1
                      /\ published - Len(ch') = s + 1
    OBVIOUS
  <2>1. published - Len(ch') = s + 1
    BY <1>2, <1>3, <1>5, <1>9
  <2>2. \A i \in 1..Len(ch) : ch[i] = s + i - 1
    BY <1>0, <1>1, <1>9 DEF LosslessFits
  <2>3. ASSUME NEW i \in 1..Len(ch') PROVE ch'[i] = (s + 1) + i - 1
    <3>1. ch[i + 1] = s + (i + 1) - 1
      BY <1>6, <2>2
    <3>. QED BY <1>5, <1>6, <3>1
  <2>. QED BY <2>1, <2>3
<1>13. CASE s <= lastSent /\ UNCHANGED <<wire, lastSent>>
  <2>0. Due' = Due /\ lastSent # None
    BY <1>0, <1>5, <1>13 DEF Due, None
  <2>1. StreamTypes'
    BY <1>0, <1>1, <1>3, <1>10, <1>13 DEF StreamTypes, TypeOK
  <2>2. HandlerFits'
    BY <1>0, <1>1, <1>13, <2>0 DEF HandlerFits
  <2>3. WireFits'
    BY <1>0, <1>1, <1>13 DEF WireFits
  <2>4. dropped # "now" => published - Len(ch') <= Due'
    BY <1>2, <1>5, <1>12, <1>13, <2>0
  <2>5. LosslessFits'
    <3>1. dropped # "now" => published - Len(ch') <= Due' + Len(backlog')
      BY <1>0, <1>2, <1>8, <2>0, <2>4, <1>12, <1>5
    <3>. QED BY <1>0, <1>1, <1>12, <1>13, <3>1 DEF LosslessFits
  <2>. QED BY <1>7, <1>11, <2>1, <2>2, <2>3, <2>5 DEF StreamInv
<1>14. CASE ~(s <= lastSent) /\ Write(s)
  <2>1. lastSent < s
    BY <1>2, <1>5, <1>14
  <2>2. dropped # "now" =>
          \/ lastSent = None /\ s <= lastSeq + 1
          \/ lastSent # None /\ s = lastSent + 1
    <3>1. lastSent = None => since = lastSeq + 1
      BY <1>0, <1>1 DEF HandlerFits
    <3>. QED BY <1>2, <1>5, <1>9, <2>1, <3>1
  <2>3. /\ wire' \in Seq(Seqs) /\ Len(wire') <= MaxWire
        /\ lastSent' = s /\ s \in Int /\ s # None
        /\ WireFits'
        /\ dropped # "now" =>
             /\ \A i \in 1..Len(wire') : wire'[i] = s - Len(wire') + i
             /\ s - Len(wire') <= lastSeq
    BY <1>0, <1>3, <1>5, <1>14, <2>1, <2>2, WriteFacts
  <2>4. Due' = s + 1
    BY <2>3 DEF Due
  <2>5. StreamTypes'
    BY <1>0, <1>1, <1>3, <1>10, <2>3 DEF StreamTypes, TypeOK
  <2>6. HandlerFits'
    BY <1>0, <1>5, <1>8, <2>3 DEF HandlerFits
  <2>7. LosslessFits'
    <3>1. dropped # "now" => published - Len(ch') <= Due' + Len(backlog')
      BY <1>0, <1>5, <1>8, <1>12, <2>4
    <3>. QED BY <1>0, <1>12, <2>3, <3>1 DEF LosslessFits
  <2>. QED BY <1>7, <1>11, <2>3, <2>5, <2>6, <2>7 DEF StreamInv
<1>. QED BY <1>0, <1>13, <1>14

(* The page keeps the latest events and adds the new one at the end        *)
(* (useAuditStream.ts 38-50).                                              *)
LEMMA KeepFacts ==
  ASSUME StreamInv, NEW s \in Seqs
  PROVE  /\ Keep(s) \in Seq([life : 0..MaxRestarts, seq : Seqs])
         /\ Len(Keep(s)) \in 1..MaxKept
         /\ Keep(s)[Len(Keep(s))].seq = s
         /\ \E o \in Nat :
              /\ Len(view) = Len(Keep(s)) - 1 + o
              /\ \A i \in 1..(Len(Keep(s)) - 1) : Keep(s)[i] = view[i + o]
<1> DEFINE R == [life : 0..MaxRestarts, seq : Seqs]
           e == Event(s)
           full == Len(view) >= MaxKept
           o == IF full THEN Len(view) - MaxKept + 1 ELSE 0
           m == Len(view) - o
           kept == IF full THEN SubSeq(view, Len(view) - MaxKept + 2, Len(view))
                   ELSE view
<1>1. /\ view \in Seq(R) /\ Len(view) \in Nat /\ Len(view) <= MaxKept
      /\ MaxKept \in Nat \ {0} /\ life \in 0..MaxRestarts
  BY BufferAssumption DEF StreamInv, StreamTypes, TypeOK
<1>2. e \in R /\ e.seq = s
  BY <1>1 DEF Event
<1>3. Keep(s) = Append(kept, e)
  BY DEF Keep
<1> HIDE DEF R, e
<1>4. o \in Nat /\ m \in 0..(MaxKept - 1) /\ Len(view) = m + o
  BY <1>1
<1>5. kept \in Seq(R) /\ Len(kept) = m /\ \A i \in 1..m : kept[i] = view[i + o]
  <2>1. CASE full
    <3>1. Len(view) = MaxKept /\ o = 1 /\ m = MaxKept - 1
      BY <1>1, <2>1
    <3>2. kept = SubSeq(view, 2, Len(view))
      <4>1. Len(view) - MaxKept + 2 = 2
        BY <1>1, <3>1
      <4>. QED BY <2>1, <4>1
    <3> HIDE DEF kept, o, m, full
    <3>3. /\ SubSeq(view, 2, Len(view)) \in Seq(R)
          /\ Len(SubSeq(view, 2, Len(view))) = Len(view) - 1
          /\ \A i \in 1..(Len(view) - 1) :
               SubSeq(view, 2, Len(view))[i] = view[i + 1]
      BY <1>1, <3>1
    <3>. QED BY <3>1, <3>2, <3>3
  <2>2. CASE ~full
    <3>1. o = 0 /\ m = Len(view) /\ kept = view
      BY <1>1, <2>2
    <3> HIDE DEF kept, o, m, full
    <3>. QED BY <1>1, <3>1
  <2>. QED BY <2>1, <2>2
<1> HIDE DEF kept, o, m, full
<1>6. /\ Append(kept, e) \in Seq(R) /\ Len(Append(kept, e)) = m + 1
      /\ Append(kept, e)[m + 1] = e
      /\ \A i \in 1..m : Append(kept, e)[i] = kept[i]
  BY <1>2, <1>5, AppendFacts
<1>7. Len(Keep(s)) - 1 = m /\ Len(Keep(s)) \in 1..MaxKept
  BY <1>1, <1>3, <1>4, <1>6
<1>8. Keep(s)[Len(Keep(s))].seq = s
  BY <1>2, <1>3, <1>6
<1>9. \A i \in 1..m : Keep(s)[i] = view[i + o]
  BY <1>3, <1>5, <1>6
<1>10. \E x \in Nat : /\ Len(view) = Len(Keep(s)) - 1 + x
                      /\ \A i \in 1..(Len(Keep(s)) - 1) : Keep(s)[i] = view[i + x]
  BY <1>4, <1>7, <1>9
<1>11. Keep(s) \in Seq(R)
  BY <1>3, <1>6
<1>. QED BY <1>7, <1>8, <1>10, <1>11 DEF R

(* The page takes an event from the wire: newer than what it has, and the  *)
(* next if no channel ever overflowed.                                     *)
LEMMA ViewGrows ==
  ASSUME StreamInv, NEW s \in Seqs, s > lastSeq, lastSeq' = s,
         view' = Keep(s), dropped' = dropped,
         dropped = "no" => s = lastSeq + 1
  PROVE  ViewFits'
<1> DEFINE n == Len(view')
<1>1. PICK o \in Nat : /\ Len(view) = n - 1 + o
                       /\ \A i \in 1..(n - 1) : view'[i] = view[i + o]
  BY KeepFacts
<1>2. n \in Nat /\ n >= 1 /\ view'[n].seq = s
  BY KeepFacts, BufferAssumption
<1>3. s \in Int /\ lastSeq \in Int
  BY StreamFacts DEF Seqs
<1>4. /\ Len(view) \in Nat /\ \A i \in 1..Len(view) : view[i].seq \in Int
  <2> DEFINE R == [life : 0..MaxRestarts, seq : Seqs]
  <2>0. \A r \in R : r.seq \in Seqs
    OBVIOUS
  <2>1. view \in Seq(R)
    BY DEF StreamInv, StreamTypes, TypeOK
  <2> HIDE DEF R
  <2>2. \A i \in 1..Len(view) : view[i] \in R
    BY <2>1, ElementOfSeq
  <2>3. \A i \in 1..Len(view) : view[i].seq \in Seqs
    BY <2>0, <2>2
  <2>. QED BY <2>1, <2>3, StreamBounds DEF Seqs
<1>5. /\ \A i, j \in 1..Len(view) : i < j => view[i].seq < view[j].seq
      /\ view # <<>> => view[Len(view)].seq = lastSeq
      /\ dropped = "no" =>
           \A i \in 1..Len(view) : view[i].seq = lastSeq - Len(view) + i
  BY DEF StreamInv, ViewFits
<1>6. \A i \in 1..Len(view) : view[i].seq <= lastSeq
  <2> SUFFICES ASSUME NEW i \in 1..Len(view) PROVE view[i].seq <= lastSeq
    OBVIOUS
  <2>1. Len(view) \in 1..Len(view) /\ view # <<>>
    BY <1>4
  <2>2. i = Len(view) \/ view[i].seq < view[Len(view)].seq
    BY <1>4, <1>5, <2>1
  <2>. QED BY <1>3, <1>4, <1>5, <2>1, <2>2
<1> HIDE DEF n
<1>7. \A i \in 1..(n - 1) :
        i + o \in 1..Len(view) /\ view'[i] = view[i + o]
  BY <1>1, <1>2
<1>8. ASSUME NEW i \in 1..n, NEW j \in 1..n, i < j
      PROVE  view'[i].seq < view'[j].seq
  <2>1. i \in 1..(n - 1) /\ (j \in 1..(n - 1) \/ j = n)
    BY <1>2, <1>8
  <2>2. CASE j \in 1..(n - 1)
    <3>1. i + o < j + o
      BY <1>8
    <3>. QED BY <1>5, <1>7, <2>1, <2>2, <3>1
  <2>3. CASE j = n
    <3>1. view'[i] = view[i + o] /\ i + o \in 1..Len(view)
      BY <1>7, <2>1
    <3>2. view[i + o].seq <= lastSeq /\ view[i + o].seq \in Int
      BY <1>4, <1>6, <3>1
    <3>3. view[i + o].seq < s
      BY <1>3, <3>2
    <3>. QED BY <1>2, <2>3, <3>1, <3>3
  <2>. QED BY <2>1, <2>2, <2>3
<1>9. ASSUME dropped = "no", NEW i \in 1..n
      PROVE  view'[i].seq = s - n + i
  <2>1. CASE i \in 1..(n - 1)
    <3>1. view[i + o].seq = lastSeq - Len(view) + (i + o)
      BY <1>5, <1>7, <1>9, <2>1
    <3>. QED BY <1>1, <1>2, <1>3, <1>7, <1>9, <2>1, <3>1
  <2>2. CASE i = n
    BY <1>2, <1>3, <2>2
  <2>. QED BY <1>2, <2>1, <2>2
<1>. QED BY <1>2, <1>8, <1>9 DEF ViewFits, n

(* The hook reads an event.                                                *)
LEMMA OnMessageStep ==
  ASSUME StreamInv, OnMessage
  PROVE  /\ StreamInv'
         /\ \/ UNCHANGED <<published, lastSeq, dropped>>
            \/ /\ lastSeq' > lastSeq /\ lastSeq' < published
               /\ dropped = "no" => lastSeq' = lastSeq + 1
               /\ UNCHANGED <<published, dropped>>
<1> DEFINE s == Head(wire)
<1>0. /\ wire # <<>> /\ wire' = Tail(wire)
      /\ UNCHANGED <<life, published, pc, since, ch, backlog, lastSent,
                     dropped, disconnects>>
      /\ Due' = Due
      /\ \/ s <= lastSeq /\ UNCHANGED <<lastSeq, view>>
         \/ s > lastSeq /\ lastSeq' = s /\ view' = Keep(s)
  BY DEF OnMessage, client, Due
<1>1. /\ StreamTypes /\ HandlerFits /\ ChannelFits /\ WireFits /\ LosslessFits
      /\ ViewFits
  BY DEF StreamInv
<1>2. /\ published \in Nat /\ MaxWire \in Nat /\ published <= MaxSeq
      /\ lastSent \in Int /\ lastSeq \in Int /\ MaxSeq \in Nat
      /\ wire \in Seq(Seqs) /\ wire \in Seq(Int) /\ Len(wire) \in Nat
  BY StreamFacts
<1>3. /\ wire' \in Seq(Seqs) /\ Len(wire') = Len(wire) - 1 /\ Len(wire) >= 1
      /\ s = wire[1] /\ s \in Seqs /\ 1 \in 1..Len(wire)
      /\ \A i \in 1..(Len(wire) - 1) : wire'[i] = wire[i + 1]
  BY <1>0, <1>2, TailFacts
<1>4. Rising(wire')
  BY <1>0, <1>1, <1>2, RisingTail DEF WireFits
<1> HIDE DEF s
<1>5. s \in Int /\ s < published
  BY <1>1, <1>2, <1>3 DEF WireFits, Seqs
<1>6. lastSent # None /\ pc # "none"
  BY <1>0, <1>1 DEF HandlerFits
<1>7. dropped # "now" =>
        s = lastSent - Len(wire) + 1 /\ lastSent - Len(wire) <= lastSeq
  BY <1>1, <1>3, <1>6 DEF LosslessFits
<1>8. \A i \in 1..Len(wire') : i + 1 \in 1..Len(wire) /\ wire'[i] = wire[i + 1]
  BY <1>2, <1>3
<1>9. WireFits'
  <2>1. \A i \in 1..Len(wire') : wire'[i] < published
    BY <1>1, <1>8 DEF WireFits
  <2>2. wire' # <<>> => wire'[Len(wire')] = lastSent
    <3>1. wire' # <<>> => Len(wire') \in 1..Len(wire')
      BY <1>3
    <3>2. wire' # <<>> => wire'[Len(wire')] = wire[Len(wire)]
      BY <1>2, <1>3, <1>8, <3>1
    <3>. QED BY <1>0, <1>1, <3>2 DEF WireFits
  <2>. QED BY <1>0, <1>4, <2>1, <2>2 DEF WireFits
<1>10. Len(wire') <= MaxWire
  BY <1>1, <1>2, <1>3 DEF StreamTypes, TypeOK
<1>11. /\ lastSeq' \in Int /\ lastSeq <= lastSeq' /\ s <= lastSeq'
       /\ lastSeq' < MaxSeq /\ lastSeq' \in Seqs \cup {None}
  BY <1>0, <1>1, <1>2, <1>3, <1>5 DEF StreamTypes, TypeOK
<1>12. ChannelFits'
  BY <1>0, <1>1 DEF ChannelFits
<1>13. HandlerFits'
  BY <1>0, <1>1, <1>6 DEF HandlerFits
<1>14. LosslessFits'
  <2> SUFFICES ASSUME dropped # "now" PROVE LosslessFits'
    BY <1>0 DEF LosslessFits
  <2>1. /\ \A i \in 1..Len(wire) : wire[i] = lastSent - Len(wire) + i
        /\ \A i \in 1..Len(ch) : ch[i] = published - Len(ch) + i - 1
        /\ pc \in {"backlog", "live"} =>
             published - Len(ch) <= Due + Len(backlog)
    BY <1>1, <1>6 DEF LosslessFits
  <2>2. ASSUME NEW i \in 1..Len(wire')
        PROVE  wire'[i] = lastSent - Len(wire') + i
    <3>1. wire[i + 1] = lastSent - Len(wire) + (i + 1)
      BY <1>8, <2>1
    <3>. QED BY <1>2, <1>3, <1>8, <3>1
  <2>3. lastSent - Len(wire') <= lastSeq'
    BY <1>2, <1>3, <1>7, <1>11
  <2>. QED BY <1>0, <2>1, <2>2, <2>3 DEF LosslessFits
<1>15. dropped = "no" /\ s > lastSeq => s = lastSeq + 1
  BY <1>2, <1>5, <1>7
<1>16. CASE s <= lastSeq /\ UNCHANGED <<lastSeq, view>>
  <2>1. StreamTypes'
    BY <1>0, <1>1, <1>3, <1>10, <1>16 DEF StreamTypes, TypeOK
  <2>2. ViewFits'
    BY <1>0, <1>1, <1>16 DEF ViewFits
  <2>. QED BY <1>0, <1>9, <1>12, <1>13, <1>14, <1>16, <2>1, <2>2 DEF StreamInv
<1>17. CASE s > lastSeq /\ lastSeq' = s /\ view' = Keep(s)
  <2>1. /\ view' \in Seq([life : 0..MaxRestarts, seq : Seqs])
        /\ Len(view') <= MaxKept
    <3>1. /\ Keep(s) \in Seq([life : 0..MaxRestarts, seq : Seqs])
          /\ Len(Keep(s)) \in 1..MaxKept
      BY <1>3, KeepFacts
    <3>2. Len(Keep(s)) <= MaxKept
      BY <3>1, BufferAssumption
    <3>. QED BY <1>17, <3>1, <3>2
  <2>2. StreamTypes'
    BY <1>0, <1>1, <1>3, <1>10, <1>11, <2>1 DEF StreamTypes, TypeOK
  <2>3. ViewFits'
    BY <1>0, <1>3, <1>15, <1>17, ViewGrows
  <2>. QED BY <1>0, <1>5, <1>9, <1>12, <1>13, <1>14, <1>15, <1>17, <2>2, <2>3
           DEF StreamInv
<1>. QED BY <1>0, <1>16, <1>17

(* A connection breaks, alone or with the server (handler.go 118-119).     *)
LEMMA CloseStep ==
  ASSUME StreamInv, CloseConnection, dropped' = dropped,
         life' \in 0..MaxRestarts, disconnects' \in 0..MaxDisconnects,
         published' \in {published, 0}
  PROVE  StreamInv'
<1>0. /\ pc' = "none" /\ ch' = <<>> /\ backlog' = <<>> /\ wire' = <<>>
      /\ since' = 0 /\ lastSent' = None /\ UNCHANGED <<lastSeq, view>>
  BY DEF CloseConnection, client
<1>1. /\ MaxSeq \in Nat /\ SubBuffer \in Nat /\ MaxWire \in Nat
      /\ published \in Nat /\ published <= MaxSeq
  BY StreamFacts
<1>2. /\ published' \in Seqs /\ published' \in Nat /\ since' \in Seqs
  BY <1>0, <1>1 DEF Seqs
<1>3. /\ ch' \in Seq(Seqs) /\ backlog' \in Seq(Seqs) /\ wire' \in Seq(Seqs)
      /\ Len(ch') = 0 /\ Len(wire') = 0 /\ Len(backlog') = 0
      /\ Len(ch') <= SubBuffer /\ Len(wire') <= MaxWire
      /\ 1..Len(ch') = {} /\ 1..Len(wire') = {} /\ 1..Len(backlog') = {}
  BY <1>0, <1>1
<1>4. StreamTypes'
  BY <1>0, <1>2, <1>3 DEF StreamInv, StreamTypes, TypeOK
<1>5. HandlerFits'
  BY <1>0, <1>2, <1>3 DEF HandlerFits, None
<1>6. ChannelFits' /\ WireFits' /\ LosslessFits'
  BY <1>0, <1>3 DEF ChannelFits, WireFits, LosslessFits, Rising
<1>7. ViewFits'
  BY <1>0 DEF StreamInv, ViewFits
<1>. QED BY <1>4, <1>5, <1>6, <1>7 DEF StreamInv

(* Every step of log, handler and hook keeps the invariant.                *)
LEMMA StreamKept == StreamInv /\ [Next]_vars => StreamInv'
<1> SUFFICES ASSUME StreamInv, [Next]_vars PROVE StreamInv'
  OBVIOUS
<1>1. CASE Disconnect
  <2>1. disconnects' \in 0..MaxDisconnects /\ life' \in 0..MaxRestarts
    BY <1>1, StreamBounds DEF Disconnect, StreamInv, StreamTypes, TypeOK
  <2>. QED BY <1>1, <2>1, CloseStep DEF Disconnect
<1>2. CASE Restart
  <2>1. disconnects' \in 0..MaxDisconnects /\ life' \in 0..MaxRestarts
    BY <1>2, StreamBounds DEF Restart, StreamInv, StreamTypes, TypeOK
  <2>. QED BY <1>2, <2>1, CloseStep DEF Restart
<1>3. CASE UNCHANGED vars
  <2>1. UNCHANGED <<life, published, lastSeq, view, pc, since, ch, backlog,
                    lastSent, wire, dropped, disconnects>> /\ Due' = Due
    BY <1>3 DEF vars, client, handler, Due
  <2>2. StreamTypes' /\ HandlerFits'
    BY <2>1 DEF StreamInv, StreamTypes, TypeOK, HandlerFits
  <2>3. ChannelFits' /\ WireFits' /\ LosslessFits' /\ ViewFits'
    BY <2>1 DEF StreamInv, ChannelFits, WireFits, LosslessFits, ViewFits
  <2>. QED BY <2>2, <2>3 DEF StreamInv
<1>4. CASE OnMessage
  BY <1>4, OnMessageStep
<1>5. CASE Publish \/ Connect \/ Serve
  BY <1>5, PublishStep, ConnectStep, ReadBacklogStep, WriteBacklogStep,
     EndBacklogStep, ForwardStep DEF Serve
<1>. QED BY <1>1, <1>2, <1>3, <1>4, <1>5 DEF Next

(* It holds before the first connection.                                   *)
LEMMA StreamStarts == Init => StreamInv
<1> SUFFICES ASSUME Init PROVE StreamInv
  OBVIOUS
<1>1. 1..Len(<<>>) = {}
  OBVIOUS
<1>2. StreamTypes
  BY BufferAssumption, StreamBounds DEF Init, StreamTypes, TypeOK, Seqs, None
<1>3. HandlerFits
  BY <1>1 DEF Init, HandlerFits, None
<1>4. ChannelFits /\ WireFits /\ LosslessFits /\ ViewFits
  BY <1>1 DEF Init, ChannelFits, WireFits, LosslessFits, ViewFits, Rising
<1>. QED BY <1>2, <1>3, <1>4 DEF StreamInv

-----------------------------------------------------------------------------
(* The feed's variables keep their types: the channel never holds more     *)
(* than its buffer and the page never more than MAX_EVENTS (pipeline.go    *)
(* 272-278, useAuditStream.ts 38-50).                                      *)
THEOREM StreamTypeCorrect == Spec => []TypeOK
<1>1. StreamInv => TypeOK
  BY DEF StreamInv, StreamTypes
<1>. QED BY <1>1, StreamStarts, StreamKept, PTL DEF Spec

(* A connection never repeats or reorders, and a page whose channels never *)
(* overflowed has no hole (handler.go 116-157, useAuditStream.ts 28-50).   *)
THEOREM FeedIsInOrder == Spec => []ConnectionInOrder
<1>1. StreamInv => ConnectionInOrder
  <2> SUFFICES ASSUME StreamInv PROVE ConnectionInOrder
    OBVIOUS
  <2>1. DOMAIN wire = 1..Len(wire)
    BY StreamFacts
  <2>2. DOMAIN view = 1..Len(view)
    BY DEF StreamInv, StreamTypes, TypeOK
  <2>3. Increasing(wire) /\ (wire # <<>> => wire[Len(wire)] = lastSent)
    BY <2>1 DEF StreamInv, WireFits, Rising, Increasing
  <2>4. Increasing([i \in DOMAIN view |-> view[i].seq])
    BY <2>2 DEF StreamInv, ViewFits, Increasing
  <2>5. dropped = "no" => Contiguous
    BY <2>2 DEF StreamInv, ViewFits, Contiguous
  <2>. QED BY <2>3, <2>4, <2>5 DEF ConnectionInOrder
<1>. QED BY <1>1, StreamStarts, StreamKept, PTL DEF Spec

(* Nothing falls between the backlog and the channel: Subscribe comes      *)
(* before AllEventsSince, so the two overlap (handler.go 124-136).         *)
THEOREM NothingIsBetween == Spec => []NothingBetween
<1>1. StreamInv => NothingBetween
  <2> SUFFICES ASSUME StreamInv, dropped = "no", pc \in {"backlog", "live"},
                      NEW s \in 0..(published - 1), ~(s <= lastSeq)
               PROVE  s \in Pending
    BY DEF NothingBetween
  <2>1. /\ published \in Nat /\ lastSent \in Int /\ lastSeq \in Int
        /\ since \in Nat /\ Due \in Nat
        /\ ch \in Seq(Seqs) /\ Len(ch) \in Nat /\ DOMAIN ch = 1..Len(ch)
        /\ wire \in Seq(Seqs) /\ Len(wire) \in Nat
        /\ DOMAIN wire = 1..Len(wire)
        /\ backlog \in Seq(Seqs) /\ Len(backlog) \in Nat
        /\ DOMAIN backlog = 1..Len(backlog)
        /\ (lastSent # None => Due = lastSent + 1)
        /\ (lastSent = None => Due = since)
    BY StreamFacts
  <2>2. s \in Int /\ s >= 0 /\ s < published /\ s > lastSeq
    BY <2>1
  <2>3. /\ \A i \in 1..Len(ch) : ch[i] = published - Len(ch) + i - 1
        /\ published - Len(ch) <= Due + Len(backlog)
        /\ \A i \in 1..Len(wire) : wire[i] = lastSent - Len(wire) + i
        /\ lastSent # None => lastSent - Len(wire) <= lastSeq
    BY DEF StreamInv, LosslessFits
  <2>4. /\ \A i \in 1..Len(backlog) : backlog[i] = Due + i - 1
        /\ lastSent = None => since = lastSeq + 1
    BY DEF StreamInv, HandlerFits
  <2>5. CASE s >= published - Len(ch)
    <3> DEFINE i == s - (published - Len(ch)) + 1
    <3>1. i \in 1..Len(ch) /\ published - Len(ch) + i - 1 = s
      BY <2>1, <2>2, <2>5
    <3> HIDE DEF i
    <3>2. ch[i] = s
      BY <2>3, <3>1
    <3>. QED BY <2>1, <3>1, <3>2 DEF Pending
  <2>6. CASE s >= Due /\ s < Due + Len(backlog)
    <3> DEFINE i == s - Due + 1
    <3>1. i \in 1..Len(backlog) /\ Due + i - 1 = s
      BY <2>1, <2>2, <2>6
    <3> HIDE DEF i
    <3>2. backlog[i] = s
      BY <2>4, <3>1
    <3>. QED BY <2>1, <3>1, <3>2 DEF Pending
  <2>7. CASE s < Due
    <3>0. lastSent # None /\ s <= lastSent
      BY <2>1, <2>2, <2>4, <2>7
    <3> DEFINE i == s - (lastSent - Len(wire))
    <3>1. i \in 1..Len(wire) /\ lastSent - Len(wire) + i = s
      BY <2>1, <2>2, <2>3, <3>0
    <3> HIDE DEF i
    <3>2. wire[i] = s
      BY <2>3, <3>1
    <3>. QED BY <2>1, <3>1, <3>2 DEF Pending
  <2>. QED BY <2>1, <2>2, <2>3, <2>5, <2>6, <2>7
<1>. QED BY <1>1, StreamStarts, StreamKept, PTL DEF Spec

(* What Feed promises, apart from its fairness.                            *)
FeedSafety == Promise!Init /\ [][Promise!Next]_(Promise!feed)

(* Log, handler and hook together are a feed: the page is shown events of  *)
(* the log in order and, until a channel overflows, skips none, whatever   *)
(* breaks (pipeline.go 272-278 and 394-405, handler.go 116-157,            *)
(* useAuditStream.ts 28-62).                                               *)
THEOREM StreamImplementsFeed == Spec => FeedSafety
<1>1. Init => Promise!Init
  BY DEF Init, Promise!Init, None
<1>2. StreamInv /\ [Next]_vars => [Promise!Next]_(Promise!feed)
  <2> SUFFICES ASSUME StreamInv, [Next]_vars
               PROVE  [Promise!Next]_(Promise!feed)
    OBVIOUS
  <2>0. /\ published \in Nat /\ lastSeq \in Int /\ lastSeq >= -1
    BY StreamFacts
  <2>1. CASE UNCHANGED <<published, lastSeq, dropped>>
    BY <2>1 DEF Promise!feed
  <2>2. CASE Publish
    <3>1. (dropped' = "no") = (dropped = "no") \/ (dropped' = "no") = FALSE
      BY <2>2 DEF Publish
    <3>2. /\ published < MaxSeq /\ published' = published + 1
          /\ lastSeq' = lastSeq
      BY <2>2 DEF Publish, client
    <3>3. (dropped' = "no") \in {dropped = "no", FALSE}
      BY <3>1
    <3>. QED BY <3>2, <3>3 DEF Promise!Next, Promise!Publish
  <2>3. CASE Connect
    BY <2>3 DEF Connect, client, Promise!feed
  <2>4. CASE OnMessage
    <3>1. CASE UNCHANGED <<published, lastSeq, dropped>>
      BY <3>1, <2>1
    <3>2. CASE /\ lastSeq' > lastSeq /\ lastSeq' < published
               /\ dropped = "no" => lastSeq' = lastSeq + 1
               /\ UNCHANGED <<published, dropped>>
      <4>0. lastSeq' \in Int
        <5>1. StreamInv'
          BY <2>4, OnMessageStep
        <5>2. lastSeq' \in Seqs \cup {None}
          BY <5>1 DEF StreamInv, StreamTypes, TypeOK
        <5>. QED BY <5>2, StreamBounds DEF Seqs, None
      <4>1. lastSeq + 1 < published
        BY <2>0, <3>2, <4>0
      <4>2. lastSeq' + 1 \in ((lastSeq + 1) + 1)..published
        <5>1. lastSeq' > lastSeq /\ lastSeq' < published
          BY <3>2
        <5>2. \A x, y, p \in Int :
                y > x /\ y < p => y + 1 \in ((x + 1) + 1)..p
          OBVIOUS
        <5>3. published \in Int /\ lastSeq \in Int
          BY <2>0
        <5>. QED BY <4>0, <5>1, <5>2, <5>3
      <4>6. dropped = "no" => lastSeq' + 1 = (lastSeq + 1) + 1
        BY <3>2
      <4>3. published' = published /\ dropped' = dropped
        BY <3>2
      <4>4. CASE dropped = "no"
        BY <4>1, <4>3, <4>4, <4>6 DEF Promise!Next, Promise!Show
      <4>5. CASE ~(dropped = "no")
        BY <4>1, <4>2, <4>3, <4>5 DEF Promise!Next, Promise!Show
      <4>. QED BY <4>4, <4>5
    <3>. QED BY <2>4, <3>1, <3>2, OnMessageStep
  <2>5. CASE Restart
    BY <2>5 DEF Restart, CloseConnection, client, Promise!Next, Promise!Restart
  <2>6. CASE Serve \/ Disconnect \/ UNCHANGED vars
    <3>1. UNCHANGED <<published, lastSeq, dropped>>
      BY <2>6 DEF Serve, ReadBacklog, WriteBacklog, EndBacklog, Forward,
                  Disconnect, CloseConnection, vars, client
    <3>. QED BY <2>1, <3>1
  <2>. QED BY <2>2, <2>3, <2>4, <2>5, <2>6 DEF Next
<1>. QED BY <1>1, <1>2, StreamStarts, StreamKept, PTL DEF Spec, FeedSafety

=============================================================================
