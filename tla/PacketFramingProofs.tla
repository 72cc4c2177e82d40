-------------------------- MODULE PacketFramingProofs --------------------------
(***************************************************************************)
(* Proofs about PacketFraming for any sizes of headers, bodies and buffer  *)
(* and any number of packets.  The invariant says where in its packet the  *)
(* RecvPacket is: how many bytes of the size, or of the body, it has.      *)
(***************************************************************************)
EXTENDS PacketFraming, SequenceTheorems, TLAPS

\* The packet that is being received.
Current == Len(delivered) + 1

\* The bytes of the size or of the body that have arrived.
Have == IF stage = "received" THEN recvbytes + cb ELSE recvbytes

SizePhase ==
  /\ at = Begin[Current] + Have /\ Have <= HeaderBytes
  /\ \A j \in 0 .. Have - 1 : sizebuf[j] = Begin[Current] + j
  /\ wsabuf = [into |-> "size", off |-> recvbytes, len |-> HeaderBytes - recvbytes]
  /\ stage = "received" => Current <= N /\ (Have = HeaderBytes => target = Body[Current])
  /\ recvbytes < HeaderBytes

BodyPhase ==
  /\ Current <= N
  /\ at = Begin[Current] + HeaderBytes + Have /\ Have <= Body[Current]
  /\ \A j \in 0 .. Have - 1 : buf[j] = Begin[Current] + HeaderBytes + j
  /\ wsabuf = [into |-> "body", off |-> recvbytes, len |-> target - recvbytes]
  /\ target = Body[Current]
  /\ recvbytes < Body[Current]

Phases ==
  /\ stage = "idle" => /\ delivered = <<>> /\ at = Begin[1]
                       /\ sizeflag = TRUE /\ recvbytes = 0
  /\ stage \in {"asked", "received"} =>
       (sizeflag = TRUE => SizePhase) /\ (sizeflag = FALSE => BodyPhase)
  /\ stage = "handler" => at = Begin[Current]

Contents == UNION {[0 .. m - 1 -> Int] : m \in Nat}

FramingInv ==
  /\ TypeOK
  /\ delivered \in Seq(Contents)
  /\ DeliversBodies
  /\ Phases

LEMMA FramingInit == Init => FramingInv
<1> SUFFICES ASSUME Init PROVE FramingInv OBVIOUS
<1> USE FramingAssumption DEF FramingAssumption
<1>1. Begin[1] \in Nat /\ NoByte \in Int BY DEF NoByte
<1>2. delivered = <<>> /\ stage = "idle" /\ wsabuf = [into |-> "size", off |-> 0, len |-> 0]
  BY DEF Init
<1>3. sizeflag \in BOOLEAN BY Zenon DEF Init
<1>4. sizebuf \in [0 .. HeaderBytes - 1 -> Int] /\ buf \in [0 .. Capacity - 1 -> Int]
  BY <1>1 DEF Init
<1>5. TypeOK BY <1>1, <1>2, <1>3, <1>4 DEF Init, TypeOK
<1>6. Phases BY <1>2 DEF Init, Phases
<1> QED BY <1>2, <1>5, <1>6 DEF FramingInv, DeliversBodies

\* What a call of RecvAsync leaves.
LEMMA Asks ==
  ASSUME NEW flag, NEW done, NEW size, RecvAsync(flag, done, size), stage' # "closed"
  PROVE  /\ stage' = "asked"
         /\ flag = TRUE =>
              wsabuf' = [into |-> "size", off |-> done, len |-> HeaderBytes - done]
         /\ flag = FALSE => wsabuf' = [into |-> "body", off |-> done, len |-> size - done]
BY DEF RecvAsync, GetReady

LEMMA AsksTyped ==
  ASSUME NEW flag \in BOOLEAN, NEW done \in Nat, NEW size \in Nat, RecvAsync(flag, done, size),
         wsabuf \in [into : {"size", "body"}, off : Nat, len : Nat], HeaderBytes \in Nat,
         flag = TRUE => done <= HeaderBytes, flag = FALSE => done <= size
  PROVE  /\ wsabuf' \in [into : {"size", "body"}, off : Nat, len : Nat]
         /\ stage' \in {"asked", "closed"}
BY DEF RecvAsync, GetReady

\* Bytes stored behind those of the packet that are there already.
LEMMA StoredNext ==
  ASSUME NEW m \in Nat, NEW b \in [0 .. m - 1 -> Int], NEW off \in Nat, NEW n \in Nat,
         at \in Nat, off + n <= m, NEW base \in Nat, at = base + off,
         \A j \in 0 .. off - 1 : b[j] = base + j
  PROVE  /\ Stored(b, off, n) \in [0 .. m - 1 -> Int]
         /\ \A j \in 0 .. off + n - 1 : Stored(b, off, n)[j] = base + j
<1>1. ASSUME NEW j \in 0 .. m - 1 PROVE Stored(b, off, n)[j] \in Int BY DEF Stored
<1>2. DOMAIN Stored(b, off, n) = 0 .. m - 1 BY DEF Stored
<1>3. ASSUME NEW j \in 0 .. off + n - 1 PROVE Stored(b, off, n)[j] = base + j
  <2>1. j \in 0 .. m - 1 BY <1>3
  <2>2. CASE j \in off .. off + n - 1 BY <2>1, <2>2 DEF Stored
  <2>3. CASE j \notin off .. off + n - 1
    <3>1. j \in 0 .. off - 1 BY <1>3, <2>3
    <3> QED BY <2>1, <2>3, <3>1 DEF Stored
  <2> QED BY <2>2, <2>3
<1>4. Stored(b, off, n) = [j \in 0 .. m - 1 |-> Stored(b, off, n)[j]] BY DEF Stored
<1> QED BY <1>1, <1>3, <1>4

LEMMA FramingReceived ==
  ASSUME FramingInv, NEW n \in 1 .. wsabuf.len, Received(n)
  PROVE  FramingInv'
<1>20. /\ HeaderBytes \in Nat \ {0} /\ Capacity \in Nat /\ N \in Nat /\ Begin[N + 1] \in Nat
       /\ \A p \in 1 .. N : Body[p] \in 1 .. Capacity
       /\ \A p \in 1 .. N + 1 : Begin[p] \in Nat
  BY FramingAssumption, SMTT(30) DEF FramingAssumption
<1>1. /\ stage = "asked" /\ stage' = "received" /\ at' = at + n /\ cb' = n
      /\ n <= wsabuf.len /\ at + n <= Begin[N + 1]
      /\ UNCHANGED <<sizeflag, recvbytes, wsabuf, delivered>>
  BY DEF Received
<1>2. /\ at \in Nat /\ recvbytes \in Nat /\ target \in 0 .. Capacity /\ sizeflag \in BOOLEAN
      /\ sizebuf \in [0 .. HeaderBytes - 1 -> Int] /\ buf \in [0 .. Capacity - 1 -> Int]
      /\ wsabuf \in [into : {"size", "body"}, off : Nat, len : Nat]
  BY DEF FramingInv, TypeOK
<1>3. n \in Nat /\ n > 0 BY <1>2
<1>4. Len(delivered) \in Nat /\ Len(delivered) <= N BY DEF FramingInv, DeliversBodies
<1>5. Have = recvbytes /\ Have' = recvbytes + n /\ Current' = Current /\ Current \in 1 .. N + 1
  BY <1>1, <1>4, <1>20 DEF Have, Current
<1>6. DeliversBodies' /\ delivered' \in Seq(Contents)
  BY <1>1 DEF FramingInv, DeliversBodies
<1>7. CASE sizeflag = TRUE
  <2>1. SizePhase BY <1>1, <1>7 DEF FramingInv, Phases
  <2>2. /\ at = Begin[Current] + recvbytes /\ recvbytes < HeaderBytes
        /\ \A j \in 0 .. recvbytes - 1 : sizebuf[j] = Begin[Current] + j
        /\ wsabuf = [into |-> "size", off |-> recvbytes, len |-> HeaderBytes - recvbytes]
    BY <1>5, <2>1 DEF SizePhase
  <2>3. /\ sizebuf' = Stored(sizebuf, recvbytes, n) /\ target' \in ValuesOf(sizebuf')
        /\ buf' = buf
    BY <2>2 DEF Received
  <2>4. recvbytes + n <= HeaderBytes BY <1>1, <1>2, <1>3, <1>20, <2>2
  <2>5. Begin[Current] \in Nat /\ HeaderBytes \in Nat BY <1>5, <1>20
  <2>6. /\ sizebuf' \in [0 .. HeaderBytes - 1 -> Int]
        /\ \A j \in 0 .. recvbytes + n - 1 : sizebuf'[j] = Begin[Current] + j
    <3> DEFINE base == Begin[Current]
    <3>1. base \in Nat /\ at = base + recvbytes BY <2>2, <2>5
    <3>2. \A j \in 0 .. recvbytes - 1 : sizebuf[j] = base + j BY <2>2
    <3>3. HeaderBytes \in Nat BY <2>5
    <3> HIDE DEF base
    <3>4. /\ Stored(sizebuf, recvbytes, n) \in [0 .. HeaderBytes - 1 -> Int]
          /\ \A j \in 0 .. recvbytes + n - 1 : Stored(sizebuf, recvbytes, n)[j] = base + j
      <4>1. recvbytes \in Nat /\ n \in Nat /\ at \in Nat BY <1>2, <1>3
      <4>2. sizebuf \in [0 .. HeaderBytes - 1 -> Int] BY <1>2
      <4> QED BY <2>4, <3>1, <3>2, <3>3, <4>1, <4>2, StoredNext, SMTT(30)
    <3> QED BY <2>3, <3>4 DEF base
  <2>7. Current <= N
    <3>1. Begin[N + 1] \in Nat BY <1>20
    <3>2. at + n > Begin[Current] BY <1>2, <1>3, <2>2, <2>5
    <3>3. Begin[Current] < Begin[N + 1] BY <1>1, <1>2, <1>3, <2>5, <3>1, <3>2
    <3>4. Current # N + 1 BY <2>5, <3>3
    <3> QED BY <1>5, <1>20, <3>4
  <2>8. recvbytes + n = HeaderBytes => target' = Body[Current]
    <3>1. ASSUME recvbytes + n = HeaderBytes
          PROVE \A j \in DOMAIN sizebuf' : sizebuf'[j] = Begin[Current] + j
      <4>1. DOMAIN sizebuf' = 0 .. recvbytes + n - 1 BY <1>2, <1>3, <1>20, <2>6, <3>1
      <4> QED BY <2>6, <4>1
    <3> QED BY <1>4, <1>5, <2>3, <2>7, <3>1 DEF ValuesOf
  <2>9. target' \in 0 .. Capacity BY <2>3 DEF ValuesOf
  <2>10. TypeOK' BY <1>1, <1>2, <1>3, <2>3, <2>6, <2>9 DEF TypeOK
  <2>11. SizePhase'
    <3>1. /\ at' = Begin[Current'] + Have' /\ Have' <= HeaderBytes
          /\ \A j \in 0 .. Have' - 1 : sizebuf'[j] = Begin[Current'] + j
      BY <1>1, <1>2, <1>3, <1>5, <2>2, <2>4, <2>5, <2>6
    <3> QED BY <1>1, <1>5, <2>2, <2>7, <2>8, <3>1 DEF SizePhase
  <2> QED BY <1>1, <1>6, <1>7, <2>10, <2>11 DEF FramingInv, Phases
<1>8. CASE sizeflag = FALSE
  <2>1. BodyPhase BY <1>1, <1>8 DEF FramingInv, Phases
  <2>2. /\ Current <= N /\ at = Begin[Current] + HeaderBytes + recvbytes
        /\ \A j \in 0 .. recvbytes - 1 : buf[j] = Begin[Current] + HeaderBytes + j
        /\ wsabuf = [into |-> "body", off |-> recvbytes, len |-> target - recvbytes]
        /\ target = Body[Current] /\ recvbytes < Body[Current]
    BY <1>5, <2>1 DEF BodyPhase
  <2>3. buf' = Stored(buf, recvbytes, n) /\ UNCHANGED <<sizebuf, target>>
    BY <2>2 DEF Received
  <2>4. recvbytes + n <= Body[Current] /\ Body[Current] \in 1 .. Capacity
    BY <1>1, <1>2, <1>3, <1>5, <1>20, <2>2
  <2>5. Begin[Current] \in Nat /\ HeaderBytes \in Nat BY <1>5, <1>20
  <2>6. /\ buf' \in [0 .. Capacity - 1 -> Int]
        /\ \A j \in 0 .. recvbytes + n - 1 : buf'[j] = Begin[Current] + HeaderBytes + j
    <3> DEFINE base == Begin[Current] + HeaderBytes
    <3>1. base \in Nat /\ at = base + recvbytes BY <1>2, <2>2, <2>5
    <3>2. \A j \in 0 .. recvbytes - 1 : buf[j] = base + j BY <2>2
    <3>3. Capacity \in Nat /\ recvbytes + n <= Capacity BY <1>2, <1>3, <1>20, <2>4
    <3> HIDE DEF base
    <3>4. /\ Stored(buf, recvbytes, n) \in [0 .. Capacity - 1 -> Int]
          /\ \A j \in 0 .. recvbytes + n - 1 : Stored(buf, recvbytes, n)[j] = base + j
      BY <1>2, <1>3, <3>1, <3>2, <3>3, StoredNext, SMTT(30)
    <3> QED BY <2>3, <3>4 DEF base
  <2>7. TypeOK' BY <1>1, <1>2, <1>3, <2>3, <2>6 DEF TypeOK
  <2>8. BodyPhase'
    <3>1. /\ at' = Begin[Current'] + HeaderBytes + Have' /\ Have' <= Body[Current']
          /\ \A j \in 0 .. Have' - 1 : buf'[j] = Begin[Current'] + HeaderBytes + j
      <4>1. at' = Begin[Current] + HeaderBytes + (recvbytes + n)
        BY <1>1, <1>2, <1>3, <2>2, <2>5
      <4> QED BY <1>2, <1>3, <1>5, <2>4, <2>5, <2>6, <4>1
    <3> QED BY <1>1, <1>5, <2>2, <2>3, <3>1 DEF BodyPhase
  <2> QED BY <1>1, <1>6, <1>8, <2>7, <2>8 DEF FramingInv, Phases
<1> QED BY <1>2, <1>7, <1>8

\* The facts about the constants and the types that the other steps use.
LEMMA FramingFacts ==
  ASSUME FramingInv
  PROVE  /\ HeaderBytes \in Nat \ {0} /\ Capacity \in Nat /\ N \in Nat
         /\ \A p \in 1 .. N : Body[p] \in 1 .. Capacity /\ Begin[p] \in Nat
         /\ \A p \in 1 .. N : Begin[p + 1] = Begin[p] + HeaderBytes + Body[p]
         /\ Len(delivered) \in Nat /\ Len(delivered) <= N
         /\ at \in Nat /\ recvbytes \in Nat /\ cb \in Nat /\ target \in 0 .. Capacity
         /\ sizeflag \in BOOLEAN
         /\ sizebuf \in [0 .. HeaderBytes - 1 -> Int] /\ buf \in [0 .. Capacity - 1 -> Int]
         /\ wsabuf \in [into : {"size", "body"}, off : Nat, len : Nat]
<1>1. HeaderBytes \in Nat \ {0} /\ Capacity \in Nat /\ N \in Nat
  BY FramingAssumption DEF FramingAssumption
<1>2. /\ \A p \in 1 .. N : Body[p] \in 1 .. Capacity /\ Begin[p] \in Nat
      /\ \A p \in 1 .. N : Begin[p + 1] = Begin[p] + HeaderBytes + Body[p]
  <2>1. \A p \in 1 .. N : p \in 1 .. N + 1 BY <1>1
  <2> QED BY <2>1, FramingAssumption DEF FramingAssumption
<1>3. Len(delivered) \in Nat
  <2>1. delivered \in Seq(Contents) BY DEF FramingInv
  <2> QED BY <2>1, LenProperties
<1>4. Len(delivered) <= N BY DEF FramingInv, DeliversBodies
<1>5. /\ at \in Nat /\ recvbytes \in Nat /\ cb \in Nat /\ target \in 0 .. Capacity
      /\ sizebuf \in [0 .. HeaderBytes - 1 -> Int] /\ buf \in [0 .. Capacity - 1 -> Int]
      /\ wsabuf \in [into : {"size", "body"}, off : Nat, len : Nat]
  BY DEF FramingInv, TypeOK
<1>6. sizeflag \in BOOLEAN BY Zenon DEF FramingInv, TypeOK
<1> QED BY <1>1, <1>2, <1>3, <1>4, <1>5, <1>6

LEMMA FramingRecv ==
  ASSUME FramingInv, Recv \/ Ends
  PROVE  FramingInv'
<1>1. UNCHANGED <<at, sizeflag, recvbytes, target, sizebuf, buf, cb, delivered>>
  BY DEF Recv, Ends
<1>2. DeliversBodies' /\ delivered' \in Seq(Contents) BY <1>1 DEF FramingInv, DeliversBodies
<1>3. CASE Ends
  <2>1. TypeOK' BY <1>1, <1>3 DEF Ends, FramingInv, TypeOK
  <2>2. Phases' BY <1>3 DEF Ends, Phases
  <2> QED BY <1>2, <2>1, <2>2 DEF FramingInv
<1>4. CASE Recv
  <2>1. /\ RecvAsync(TRUE, 0, target)
        /\ delivered = <<>> /\ at = Begin[1] /\ sizeflag = TRUE /\ recvbytes = 0
    BY <1>4 DEF Recv, FramingInv, Phases
  <2>2. wsabuf' \in [into : {"size", "body"}, off : Nat, len : Nat]
        /\ stage' \in {"asked", "closed"}
    <3>1. /\ HeaderBytes \in Nat /\ 0 <= HeaderBytes /\ target \in Nat
          /\ wsabuf \in [into : {"size", "body"}, off : Nat, len : Nat]
      BY FramingFacts
    <3>2. RecvAsync(TRUE, 0, target) BY <2>1
    <3> QED BY ONLY <3>1, <3>2, AsksTyped
  <2>3. TypeOK' BY <1>1, <2>2 DEF FramingInv, TypeOK
  <2>4. stage' = "asked" => SizePhase'
    <3> SUFFICES ASSUME stage' = "asked" PROVE SizePhase' OBVIOUS
    <3>1. wsabuf' = [into |-> "size", off |-> 0, len |-> HeaderBytes - 0]
      BY <2>1, Asks
    <3>2. Have' = 0 /\ Current' = 1 BY <1>1, <2>1 DEF Have, Current
    <3> QED BY <1>1, <2>1, <3>1, <3>2, FramingFacts DEF SizePhase
  <2>5. Phases' BY <1>1, <2>1, <2>2, <2>4 DEF Phases
  <2> QED BY <1>2, <2>3, <2>5 DEF FramingInv
<1> QED BY <1>3, <1>4

LEMMA FramingSize ==
  ASSUME FramingInv, CompleteSize
  PROVE  FramingInv'
<1> DEFINE done == recvbytes + cb
<1>1. /\ stage = "received" /\ sizeflag = TRUE
      /\ sizeflag' = (done # HeaderBytes)
      /\ recvbytes' = IF done = HeaderBytes THEN 0 ELSE done
      /\ RecvAsync(sizeflag', recvbytes', target)
      /\ UNCHANGED <<at, target, sizebuf, buf, cb, delivered>>
  BY FramingFacts DEF CompleteSize
<1>2. SizePhase /\ Have = done /\ done \in Nat
  BY <1>1, FramingFacts DEF FramingInv, Phases, Have
<1>3. /\ Current <= N /\ done <= HeaderBytes /\ at = Begin[Current] + done
      /\ \A j \in 0 .. done - 1 : sizebuf[j] = Begin[Current] + j
      /\ done = HeaderBytes => target = Body[Current]
  BY <1>1, <1>2 DEF SizePhase
<1>4. Current \in 1 .. N /\ Current' = Current BY <1>1, <1>3, FramingFacts DEF Current
<1>5. DeliversBodies' /\ delivered' \in Seq(Contents) BY <1>1 DEF FramingInv, DeliversBodies
<1>6. recvbytes' \in Nat /\ (done # HeaderBytes => recvbytes' = done /\ done < HeaderBytes)
  BY <1>1, <1>2, <1>3, FramingFacts
<1>7. sizeflag' \in BOOLEAN /\ (sizeflag' = TRUE <=> done # HeaderBytes) BY <1>1
<1>8. /\ wsabuf' \in [into : {"size", "body"}, off : Nat, len : Nat]
      /\ stage' \in {"asked", "closed"}
  <2>1. /\ target \in Nat /\ HeaderBytes \in Nat
        /\ wsabuf \in [into : {"size", "body"}, off : Nat, len : Nat]
    BY FramingFacts
  <2>2. /\ sizeflag' = TRUE => recvbytes' <= HeaderBytes
        /\ sizeflag' = FALSE => recvbytes' <= target
    BY <1>1, <1>6, <1>7, <2>1
  <2> QED BY <1>1, <1>6, <1>7, <2>1, <2>2, AsksTyped
<1>9. TypeOK' BY <1>1, <1>6, <1>7, <1>8 DEF FramingInv, TypeOK
<1>10. ASSUME stage' = "asked", sizeflag' = TRUE PROVE SizePhase'
  <2>1. wsabuf' = [into |-> "size", off |-> recvbytes', len |-> HeaderBytes - recvbytes']
    BY <1>1, <1>10, Asks
  <2>2. Have' = done BY <1>6, <1>7, <1>10 DEF Have
  <2> QED BY <1>1, <1>3, <1>4, <1>6, <1>7, <1>10, <2>1, <2>2 DEF SizePhase
<1>11. ASSUME stage' = "asked", sizeflag' = FALSE PROVE BodyPhase'
  <2>1. wsabuf' = [into |-> "body", off |-> recvbytes', len |-> target - recvbytes']
    BY <1>1, <1>11, Asks
  <2>2. done = HeaderBytes BY <1>7, <1>11
  <2>3. recvbytes' = 0 /\ Have' = 0 BY <1>1, <1>11, <2>2 DEF Have
  <2>4. Body[Current] \in 1 .. Capacity /\ Begin[Current] \in Nat BY <1>4, FramingFacts
  <2>5. HeaderBytes \in Nat /\ Capacity \in Nat BY FramingFacts
  <2>6. at = Begin[Current] + HeaderBytes + 0 /\ target = Body[Current] /\ 0 < Body[Current]
    BY <1>3, <2>2, <2>4, <2>5
  <2> QED BY <1>1, <1>3, <1>4, <2>1, <2>3, <2>4, <2>6 DEF BodyPhase
<1>12. Phases' BY <1>8, <1>10, <1>11 DEF Phases
<1> QED BY <1>5, <1>9, <1>12 DEF FramingInv

LEMMA FramingPart ==
  ASSUME FramingInv, CompletePart
  PROVE  FramingInv'
<1> DEFINE done == recvbytes + cb
<1>1. /\ stage = "received" /\ sizeflag = FALSE /\ done # target /\ recvbytes' = done
      /\ RecvAsync(FALSE, recvbytes', target)
      /\ UNCHANGED <<at, sizeflag, target, sizebuf, buf, cb, delivered>>
  BY FramingFacts DEF CompletePart
<1>2. BodyPhase /\ Have = done /\ done \in Nat
  <2>1. done \in Nat BY FramingFacts
  <2>2. Phases BY DEF FramingInv
  <2> QED BY <1>1, <2>1, <2>2 DEF Phases, Have
<1>3. /\ Current <= N /\ at = Begin[Current] + HeaderBytes + done
      /\ \A j \in 0 .. done - 1 : buf[j] = Begin[Current] + HeaderBytes + j
      /\ done <= Body[Current] /\ target = Body[Current]
  BY <1>2 DEF BodyPhase
<1>4. Current \in 1 .. N /\ Current' = Current BY <1>1, <1>3, FramingFacts DEF Current
<1>5. done < Body[Current] BY <1>1, <1>2, <1>3, <1>4, FramingFacts, SMTT(30)
<1>6. DeliversBodies' /\ delivered' \in Seq(Contents) BY <1>1 DEF FramingInv, DeliversBodies
<1>7. /\ wsabuf' \in [into : {"size", "body"}, off : Nat, len : Nat]
      /\ stage' \in {"asked", "closed"}
  <2>1. /\ target \in Nat /\ HeaderBytes \in Nat
        /\ wsabuf \in [into : {"size", "body"}, off : Nat, len : Nat]
    BY FramingFacts
  <2>2. recvbytes' \in Nat /\ recvbytes' <= target BY <1>1, <1>2, <1>3
  <2> QED BY <1>1, <2>1, <2>2, AsksTyped
<1>8. TypeOK' BY <1>1, <1>2, <1>7 DEF FramingInv, TypeOK
<1>9. ASSUME stage' = "asked" PROVE BodyPhase'
  <2>1. wsabuf' = [into |-> "body", off |-> recvbytes', len |-> target - recvbytes']
    BY <1>1, <1>9, Asks
  <2>2. Have' = done BY <1>1, <1>9 DEF Have
  <2> QED BY <1>1, <1>3, <1>4, <1>5, <2>1, <2>2 DEF BodyPhase
<1>10. Phases' BY <1>1, <1>7, <1>9 DEF Phases
<1> QED BY <1>6, <1>8, <1>10 DEF FramingInv

LEMMA FramingBody ==
  ASSUME FramingInv, CompleteBody
  PROVE  FramingInv'
<1> DEFINE done == recvbytes + cb
           body == [j \in 0 .. done - 1 |-> buf[j]]
<1>1. /\ stage = "received" /\ sizeflag = FALSE /\ done = target /\ recvbytes' = done
      /\ delivered' = Append(delivered, body) /\ stage' = "handler"
      /\ UNCHANGED <<at, sizeflag, target, sizebuf, buf, wsabuf, cb>>
  BY FramingFacts DEF CompleteBody
<1>2. BodyPhase /\ Have = done /\ done \in Nat
  <2>1. done \in Nat BY FramingFacts
  <2>2. Phases BY DEF FramingInv
  <2> QED BY <1>1, <2>1, <2>2 DEF Phases, Have
<1>3. /\ Current <= N /\ at = Begin[Current] + HeaderBytes + done
      /\ \A j \in 0 .. done - 1 : buf[j] = Begin[Current] + HeaderBytes + j
      /\ target = Body[Current]
  BY <1>2 DEF BodyPhase
<1>4. Current \in 1 .. N BY <1>3, FramingFacts DEF Current
<1>5. body = BodyOf(Current) BY <1>1, <1>3 DEF BodyOf
<1>6. body \in Contents
  <2>1. done <= Capacity /\ buf \in [0 .. Capacity - 1 -> Int] /\ Capacity \in Nat
    BY <1>1, FramingFacts
  <2>2. body \in [0 .. done - 1 -> Int] BY <1>2, <2>1
  <2> QED BY <1>2, <2>2 DEF Contents
<1> HIDE DEF body
<1>7. delivered \in Seq(Contents) BY DEF FramingInv
<1>8. /\ delivered' \in Seq(Contents) /\ Len(delivered') = Len(delivered) + 1
      /\ \A p \in 1 .. Len(delivered) : delivered'[p] = delivered[p]
      /\ delivered'[Len(delivered) + 1] = body
  BY <1>1, <1>6, <1>7, AppendProperties
<1>9. DeliversBodies'
  <2>1. ASSUME NEW p \in 1 .. Len(delivered') PROVE delivered'[p] = BodyOf(p)
    <3>1. CASE p \in 1 .. Len(delivered)
      BY <1>8, <3>1 DEF FramingInv, DeliversBodies
    <3>2. CASE p = Len(delivered) + 1 BY <1>5, <1>8, <3>2 DEF Current
    <3> QED BY <1>8, <3>1, <3>2, FramingFacts
  <2>2. Len(delivered') <= N BY <1>4, <1>8 DEF Current
  <2> QED BY <2>1, <2>2 DEF DeliversBodies, BodyOf
<1>10. TypeOK' BY <1>1, <1>2 DEF FramingInv, TypeOK
<1>11. Phases'
  <2>1. Current' = Current + 1 BY <1>8, FramingFacts DEF Current
  <2>2. Begin[Current + 1] = Begin[Current] + HeaderBytes + Body[Current]
    BY <1>4, FramingFacts
  <2>3. at' = Begin[Current'] BY <1>1, <1>3, <2>1, <2>2
  <2> QED BY <1>1, <2>3 DEF Phases
<1> QED BY <1>8, <1>9, <1>10, <1>11 DEF FramingInv

LEMMA FramingClear ==
  ASSUME FramingInv, ClearAndRecv
  PROVE  FramingInv'
<1>1. /\ stage = "handler" /\ sizeflag' = TRUE /\ recvbytes' = 0 /\ target' = 0
      /\ RecvAsync(TRUE, 0, 0) /\ UNCHANGED <<at, sizebuf, buf, cb, delivered>>
  BY DEF ClearAndRecv, Clear
<1>2. at = Begin[Current] BY <1>1 DEF FramingInv, Phases
<1>3. DeliversBodies' /\ delivered' \in Seq(Contents) BY <1>1 DEF FramingInv, DeliversBodies
<1>4. /\ wsabuf' \in [into : {"size", "body"}, off : Nat, len : Nat]
      /\ stage' \in {"asked", "closed"}
  <2>1. /\ HeaderBytes \in Nat /\ 0 <= HeaderBytes
        /\ wsabuf \in [into : {"size", "body"}, off : Nat, len : Nat]
    BY FramingFacts
  <2>2. RecvAsync(TRUE, 0, 0) BY <1>1
  <2> QED BY ONLY <2>1, <2>2, AsksTyped
<1>5. TypeOK'
  <2>1. target' \in 0 .. Capacity BY <1>1, FramingFacts
  <2> QED BY <1>1, <1>4, <2>1 DEF FramingInv, TypeOK
<1>6. ASSUME stage' = "asked" PROVE SizePhase'
  <2>1. wsabuf' = [into |-> "size", off |-> 0, len |-> HeaderBytes - 0] BY <1>1, <1>6, Asks
  <2>2. Have' = 0 /\ Current' = Current BY <1>1, <1>6 DEF Have, Current
  <2>3. at = Begin[Current] + 0 BY <1>2, FramingFacts
  <2> QED BY <1>1, <1>6, <2>1, <2>2, <2>3, FramingFacts DEF SizePhase
<1>7. Phases' BY <1>1, <1>4, <1>6 DEF Phases
<1> QED BY <1>3, <1>5, <1>7 DEF FramingInv

LEMMA FramingStep == FramingInv /\ [Next]_vars => FramingInv'
<1> SUFFICES ASSUME FramingInv, [Next]_vars PROVE FramingInv' OBVIOUS
<1>1. CASE UNCHANGED vars
  BY <1>1 DEF vars, FramingInv, TypeOK, DeliversBodies, Phases, SizePhase, BodyPhase, Have, Current
<1>2. CASE Next
  BY <1>2, FramingRecv, FramingSize, FramingPart, FramingBody, FramingClear, FramingReceived
     DEF Next
<1> QED BY <1>1, <1>2

\* Every variable keeps its type: no offset or length of a receive turns negative.
THEOREM FramingTypes == Spec => []TypeOK
<1>1. FramingInv => TypeOK BY DEF FramingInv
<1> QED BY <1>1, FramingInit, FramingStep, PTL DEF Spec

\* For any sizes of the packets and any way the connection cuts them, the session
\* gets the body of each packet, whole and in order.
THEOREM FramingDelivers == Spec => []DeliversBodies
<1>1. FramingInv => DeliversBodies BY DEF FramingInv
<1> QED BY <1>1, FramingInit, FramingStep, PTL DEF Spec

\* A receive never asks for bytes behind the size or the body that is missing.
THEOREM FramingAsksForRest == Spec => []AsksForRest
<1>1. FramingInv => AsksForRest
  <2> SUFFICES ASSUME FramingInv, stage = "asked", Current <= N
               PROVE  IF wsabuf.into = "size"
                      THEN /\ at + wsabuf.len = Begin[Current] + HeaderBytes
                           /\ wsabuf.off + wsabuf.len = HeaderBytes
                      ELSE /\ at + wsabuf.len = Begin[Current + 1]
                           /\ wsabuf.off + wsabuf.len = Body[Current]
    BY DEF AsksForRest, Current
  <2>1. Have = recvbytes BY DEF Have
  <2>2. /\ Current \in 1 .. N /\ Begin[Current] \in Nat /\ Body[Current] \in Nat
        /\ HeaderBytes \in Nat /\ recvbytes \in Nat
        /\ Begin[Current + 1] = Begin[Current] + HeaderBytes + Body[Current]
    BY FramingFacts, SMTT(30) DEF Current
  <2>3. CASE sizeflag = TRUE
    BY <2>1, <2>2, <2>3 DEF FramingInv, Phases, SizePhase
  <2>4. CASE sizeflag = FALSE
    <3>1. /\ at = Begin[Current] + HeaderBytes + recvbytes /\ target = Body[Current]
          /\ wsabuf = [into |-> "body", off |-> recvbytes, len |-> target - recvbytes]
      BY <2>1, <2>4 DEF FramingInv, Phases, BodyPhase
    <3>2. wsabuf.into = "body" /\ wsabuf.off = recvbytes /\ wsabuf.len = Body[Current] - recvbytes
      BY <3>1
    <3> QED BY <2>2, <3>1, <3>2
  <2> QED BY <2>3, <2>4, FramingFacts
<1> QED BY <1>1, FramingInit, FramingStep, PTL DEF Spec
================================================================================
