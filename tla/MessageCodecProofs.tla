------------------------- MODULE MessageCodecProofs -------------------------
(***************************************************************************)
(* Proofs about the v2 message format, for every message and every byte    *)
(* string: the two decoders accept the same ones, those that are well      *)
(* formed, decoding inverts encoding, and encoding inverts decoding.       *)
(* CodecAgrees checks the same on the samples of MessageCodec.             *)
(***************************************************************************)
EXTENDS MessageCodec, SequenceTheorems, TLAPS

---------------------------------------------------------------------------
(* Where cells start.  Starts is recursive: its value exists because each  *)
(* tuple of cells has one, which is exhibited, and follows cell by cell.   *)

IsStarts(cells, f) ==
  /\ Len(cells) \in Nat
  /\ DOMAIN f = 1 .. Len(cells) + 1
  /\ f[1] = 0
  /\ \A i \in 1 .. Len(cells) : f[i + 1] = f[i] + cells[i].w

\* If some function lists the starts of the cells, Starts does.
LEMMA StartsUnfolds ==
  ASSUME NEW cells, NEW f, f = [i \in DOMAIN f |-> f[i]], IsStarts(cells, f)
  PROVE  IsStarts(cells, Starts(cells))
<1> DEFINE s == Starts(cells)
           Unfolds(g) == g = [i \in 1 .. Len(cells) + 1 |->
                                IF i = 1 THEN 0 ELSE g[i - 1] + cells[i - 1].w]
<1>1. Unfolds(f)
  <2>1. ASSUME NEW i \in 1 .. Len(cells) + 1
        PROVE  f[i] = IF i = 1 THEN 0 ELSE f[i - 1] + cells[i - 1].w
    <3>1. CASE i = 1  BY <3>1 DEF IsStarts
    <3>2. CASE i # 1
      <4>1. i - 1 \in 1 .. Len(cells) /\ (i - 1) + 1 = i  BY <3>2 DEF IsStarts
      <4> QED  BY <3>2, <4>1 DEF IsStarts
    <3> QED  BY <3>1, <3>2
  <2> QED  BY <2>1 DEF IsStarts
<1>2. s = CHOOSE g : Unfolds(g)  BY DEF Starts
<1> HIDE DEF Unfolds
<1>3. Unfolds(s)  BY <1>1, <1>2
<1>4. s = [i \in 1 .. Len(cells) + 1 |->
             IF i = 1 THEN 0 ELSE s[i - 1] + cells[i - 1].w]
  BY <1>3 DEF Unfolds
<1> HIDE DEF s
<1>5. DOMAIN s = 1 .. Len(cells) + 1 /\ s[1] = 0  BY <1>4 DEF IsStarts
<1>6. ASSUME NEW i \in 1 .. Len(cells)
      PROVE  s[i + 1] = s[i] + cells[i].w
  <2>1. i + 1 \in 1 .. Len(cells) + 1 /\ i + 1 # 1 /\ (i + 1) - 1 = i
    BY DEF IsStarts
  <2> QED  BY <1>4, <2>1
<1> QED  BY <1>5, <1>6 DEF s, IsStarts

\* The bytes raw are the cells, each at its start s[i].
Holds(raw, cells, s) ==
  /\ raw = [len |-> s[Len(cells) + 1],
            at  |-> [o \in DOMAIN raw.at |-> raw.at[o]]]
  /\ DOMAIN raw.at = {s[i] : i \in DOMAIN cells}
  /\ \A i \in DOMAIN cells : raw.at[s[i]] = cells[i]

\* The bytes of cells that start at distinct offsets hold each cell there.
LEMMA CellsAreAtStarts ==
  ASSUME NEW cells,
         \A i, j \in DOMAIN cells : Starts(cells)[i] = Starts(cells)[j] => i = j
  PROVE  Holds(BytesOf(cells), cells, Starts(cells))
<1> DEFINE raw == BytesOf(cells)
           s   == Starts(cells)
<1>1. raw = [len |-> s[Len(cells) + 1],
             at  |-> [o \in {s[i] : i \in DOMAIN cells} |->
                        cells[CHOOSE i \in DOMAIN cells : s[i] = o]]]
  BY DEF BytesOf
<1> HIDE DEF raw, s
<1>2. raw.at = [o \in {s[i] : i \in DOMAIN cells} |->
                  cells[CHOOSE i \in DOMAIN cells : s[i] = o]]
  BY <1>1
<1>3. ASSUME NEW i \in DOMAIN cells  PROVE raw.at[s[i]] = cells[i]
  <2>1. (CHOOSE k \in DOMAIN cells : s[k] = s[i]) = i  BY DEF s
  <2> QED  BY <1>2, <2>1, SMTT(30)
<1> QED  BY <1>1, <1>2, <1>3 DEF raw, s, Holds

\* A header occupies 148 bytes, its fields at the offsets the decoder reads.
HoldsHeader(raw, h) ==
  /\ raw = [len |-> 148, at |-> [o \in DOMAIN raw.at |-> raw.at[o]]]
  /\ DOMAIN raw.at = {0, 4, 8, 12, 44, 76, 108, 140, 144}
  /\ raw.at[0] = Cell(4, h.version)
  /\ raw.at[4] = Cell(4, AsU32[h.source_domain])
  /\ raw.at[8] = Cell(4, AsU32[h.destination_domain])
  /\ raw.at[12] = Cell(32, h.nonce)
  /\ raw.at[44] = Cell(32, h.sender)
  /\ raw.at[76] = Cell(32, h.recipient)
  /\ raw.at[108] = Cell(32, h.destination_caller)
  /\ raw.at[140] = Cell(4, h.min_finality_threshold)
  /\ raw.at[144] = Cell(4, h.finality_threshold_executed)

\* Encoding a header writes every field of it at its offset.
LEMMA HeaderLayout ==
  ASSUME NEW h
  PROVE  HoldsHeader(EncodeHeader(h), h)
<1> DEFINE f     == <<0, 4, 8, 12, 44, 76, 108, 140, 144, 148>>
           cells == HeaderCells(h)
           s     == Starts(cells)
<1>1. Len(cells) = 9 /\ DOMAIN cells = 1 .. 9 /\ DOMAIN f = 1 .. 10
  BY DEF HeaderCells
<1>2. /\ cells[1] = Cell(4, h.version)
      /\ cells[2] = Cell(4, AsU32[h.source_domain])
      /\ cells[3] = Cell(4, AsU32[h.destination_domain])
      /\ cells[4] = Cell(32, h.nonce)
      /\ cells[5] = Cell(32, h.sender)
      /\ cells[6] = Cell(32, h.recipient)
      /\ cells[7] = Cell(32, h.destination_caller)
      /\ cells[8] = Cell(4, h.min_finality_threshold)
      /\ cells[9] = Cell(4, h.finality_threshold_executed)
  BY DEF HeaderCells
<1>3. /\ cells[1].w = 4 /\ cells[2].w = 4 /\ cells[3].w = 4 /\ cells[4].w = 32
      /\ cells[5].w = 32 /\ cells[6].w = 32 /\ cells[7].w = 32 /\ cells[8].w = 4
      /\ cells[9].w = 4
  BY <1>2 DEF Cell
<1> HIDE DEF cells
<1>4. IsStarts(cells, f) /\ f = [i \in DOMAIN f |-> f[i]]
  BY <1>1, <1>3 DEF IsStarts
<1> HIDE DEF f
<1>5. IsStarts(cells, s)  BY <1>4, StartsUnfolds
<1> HIDE DEF s
<1>6. s[1] = 0 /\ s[1 + 1] = 4 /\ s[2 + 1] = 8 /\ s[3 + 1] = 12
  BY <1>1, <1>3, <1>5 DEF IsStarts
<1>7. s[4 + 1] = 44 /\ s[5 + 1] = 76 /\ s[6 + 1] = 108 /\ s[7 + 1] = 140
  BY <1>1, <1>3, <1>5, <1>6 DEF IsStarts
<1>8. s[8 + 1] = 144 /\ s[9 + 1] = 148
  BY <1>1, <1>3, <1>5, <1>7 DEF IsStarts
<1>9. \A i, j \in DOMAIN cells : s[i] = s[j] => i = j
  BY <1>1, <1>6, <1>7, <1>8
<1>10. {s[i] : i \in DOMAIN cells} = {0, 4, 8, 12, 44, 76, 108, 140, 144}
  BY <1>1, <1>6, <1>7, <1>8
<1> DEFINE raw == BytesOf(cells)
<1>11. Holds(raw, cells, s)  BY <1>9, CellsAreAtStarts DEF s
<1>12. raw = EncodeHeader(h)  BY DEF EncodeHeader, cells
<1> HIDE DEF raw
<1>13. /\ raw.at[0] = cells[1] /\ raw.at[4] = cells[2] /\ raw.at[8] = cells[3]
       /\ raw.at[12] = cells[4] /\ raw.at[44] = cells[5] /\ raw.at[76] = cells[6]
       /\ raw.at[108] = cells[7] /\ raw.at[140] = cells[8]
       /\ raw.at[144] = cells[9]
  BY <1>1, <1>6, <1>7, <1>8, <1>11 DEF Holds
<1> QED  BY <1>1, <1>2, <1>8, <1>10, <1>11, <1>12, <1>13 DEF Holds, HoldsHeader

\* The cells of a body without a hook, and with one.
LEMMA PlainBodyStarts ==
  ASSUME NEW cells, Len(cells) = 8, DOMAIN cells = 1 .. 8, cells[1].w = 4,
         \A i \in 2 .. 8 : cells[i].w = 32
  PROVE  LET s == Starts(cells)
         IN /\ s[1] = 0 /\ s[2] = 4 /\ s[3] = 36 /\ s[4] = 68 /\ s[5] = 100
            /\ s[6] = 132 /\ s[7] = 164 /\ s[8] = 196 /\ s[9] = 228
<1> DEFINE f == <<0, 4, 36, 68, 100, 132, 164, 196, 228>>
           s == Starts(cells)
<1>1. IsStarts(cells, f) /\ f = [i \in DOMAIN f |-> f[i]]  BY DEF IsStarts
<1> HIDE DEF f
<1>2. IsStarts(cells, s)  BY <1>1, StartsUnfolds
<1> HIDE DEF s
<1>3. s[1] = 0 /\ s[1 + 1] = 4 /\ s[2 + 1] = 36 /\ s[3 + 1] = 68
  BY <1>2 DEF IsStarts
<1>4. s[4 + 1] = 100 /\ s[5 + 1] = 132 /\ s[6 + 1] = 164
  BY <1>2, <1>3 DEF IsStarts
<1>5. s[7 + 1] = 196 /\ s[8 + 1] = 228
  BY <1>2, <1>4 DEF IsStarts
<1> QED  BY <1>3, <1>4, <1>5 DEF s

\* Where the cells of a body with a hook start.
LEMMA HookBodyStarts ==
  ASSUME NEW cells, Len(cells) = 9, DOMAIN cells = 1 .. 9, cells[1].w = 4,
         \A i \in 2 .. 8 : cells[i].w = 32, cells[9].w \in Nat
  PROVE  LET s == Starts(cells)
         IN /\ s[1] = 0 /\ s[2] = 4 /\ s[3] = 36 /\ s[4] = 68 /\ s[5] = 100
            /\ s[6] = 132 /\ s[7] = 164 /\ s[8] = 196 /\ s[9] = 228
            /\ s[10] = 228 + cells[9].w
<1> DEFINE f == <<0, 4, 36, 68, 100, 132, 164, 196, 228, 228 + cells[9].w>>
           s == Starts(cells)
<1>1. IsStarts(cells, f) /\ f = [i \in DOMAIN f |-> f[i]]
  <2>1. /\ f[1] = 0 /\ f[1 + 1] = f[1] + 4 /\ f[2 + 1] = f[2] + 32
        /\ f[3 + 1] = f[3] + 32 /\ f[4 + 1] = f[4] + 32
        /\ f[5 + 1] = f[5] + 32 /\ f[6 + 1] = f[6] + 32
        /\ f[7 + 1] = f[7] + 32 /\ f[8 + 1] = f[8] + 32
        /\ f[9 + 1] = f[9] + cells[9].w
    OBVIOUS
  <2>2. DOMAIN f = 1 .. 10 /\ f = [i \in DOMAIN f |-> f[i]]  OBVIOUS
  <2> HIDE DEF f
  <2>3. \A i \in 1 .. 9 : f[i + 1] = f[i] + cells[i].w
    <3>1. \A i \in 1 .. 9 : i = 1 \/ i = 9 \/ i \in 2 .. 8  OBVIOUS
    <3>2. \A i \in 2 .. 8 : f[i + 1] = f[i] + cells[i].w
      <4>1. \A i \in 2 .. 8 : i \in {2, 3, 4, 5, 6, 7, 8}  OBVIOUS
      <4> QED  BY <2>1, <4>1
    <3> QED  BY <2>1, <3>1, <3>2
  <2> QED  BY <2>1, <2>2, <2>3 DEF IsStarts
<1> HIDE DEF f
<1>2. IsStarts(cells, s)  BY <1>1, StartsUnfolds
<1> HIDE DEF s
<1>3. s[1] = 0 /\ s[1 + 1] = 4 /\ s[2 + 1] = 36 /\ s[3 + 1] = 68
  BY <1>2 DEF IsStarts
<1>4. s[4 + 1] = 100 /\ s[5 + 1] = 132 /\ s[6 + 1] = 164
  BY <1>2, <1>3 DEF IsStarts
<1>5. s[7 + 1] = 196 /\ s[8 + 1] = 228 /\ s[9 + 1] = 228 + cells[9].w
  BY <1>2, <1>4 DEF IsStarts
<1> QED  BY <1>3, <1>4, <1>5 DEF s

\* The offsets of the fields of a body, and of its hook.
BodyOffsets(s) ==
  /\ s[1] = 0 /\ s[2] = 4 /\ s[3] = 36 /\ s[4] = 68 /\ s[5] = 100
  /\ s[6] = 132 /\ s[7] = 164 /\ s[8] = 196 /\ s[9] = 228

\* No two cells of a body start at one offset.
LEMMA BodyOffsetsDiffer ==
  ASSUME NEW s, BodyOffsets(s)
  PROVE  \A i, j \in 1 .. 9 : s[i] = s[j] => i = j
<1> DEFINE at(i) == IF i = 1 THEN 0 ELSE 32 * i - 60
<1>1. ASSUME NEW i \in 1 .. 9  PROVE s[i] = at(i)
  <2>1. \/ i = 1 \/ i = 2 \/ i = 3 \/ i = 4 \/ i = 5 \/ i = 6 \/ i = 7 \/ i = 8
        \/ i = 9
    OBVIOUS
  <2> QED  BY <2>1 DEF BodyOffsets
<1>2. \A i, j \in 1 .. 9 : at(i) = at(j) => i = j  OBVIOUS
<1> HIDE DEF at
<1> QED  BY <1>1, <1>2

\* The cells that BodyCells pushes.
LEMMA BodyCellsAre ==
  ASSUME NEW b, b.hook_data \in Seq({"byte"})
  PROVE  LET cells == BodyCells(b)
             hook  == b.hook_data
         IN /\ Len(cells) = IF hook = <<>> THEN 8 ELSE 9
            /\ DOMAIN cells = 1 .. Len(cells)
            /\ cells[1] = Cell(4, b.version)
            /\ cells[2] = Cell(32, b.burn_token)
            /\ cells[3] = Cell(32, b.mint_recipient)
            /\ cells[4] = Cell(32, b.amount)
            /\ cells[5] = Cell(32, b.message_sender)
            /\ cells[6] = Cell(32, b.max_fee)
            /\ cells[7] = Cell(32, b.fee_executed)
            /\ cells[8] = Cell(32, b.expiration_block)
            /\ hook # <<>> => cells[9] = Cell(Len(hook), hook)
<1> DEFINE front == << Cell(4, b.version), Cell(32, b.burn_token),
                       Cell(32, b.mint_recipient), Cell(32, b.amount),
                       Cell(32, b.message_sender), Cell(32, b.max_fee),
                       Cell(32, b.fee_executed), Cell(32, b.expiration_block) >>
           last  == Cell(Len(b.hook_data), b.hook_data)
           S     == {front[i] : i \in 1 .. 8} \cup {last}
<1>1. /\ Len(front) = 8 /\ DOMAIN front = 1 .. 8
      /\ front[1] = Cell(4, b.version) /\ front[2] = Cell(32, b.burn_token)
      /\ front[3] = Cell(32, b.mint_recipient) /\ front[4] = Cell(32, b.amount)
      /\ front[5] = Cell(32, b.message_sender)
      /\ front[6] = Cell(32, b.max_fee) /\ front[7] = Cell(32, b.fee_executed)
      /\ front[8] = Cell(32, b.expiration_block)
  OBVIOUS
<1>2. front = [i \in 1 .. 8 |-> front[i]]  OBVIOUS
<1>3. BodyCells(b) = front \o (IF b.hook_data = <<>> THEN <<>> ELSE << last >>)
  BY DEF BodyCells
<1> HIDE DEF front, last
<1>4. front \in Seq(S) /\ << last >> \in Seq(S) /\ <<>> \in Seq(S)
  BY <1>1, <1>2
<1>5. front \o <<>> = front  BY <1>4
<1>6. LET all == front \o << last >>
      IN /\ Len(all) = 9 /\ DOMAIN all = 1 .. 9 /\ all[9] = last
         /\ \A i \in 1 .. 8 : all[i] = front[i]
  <2> DEFINE tail == << last >>
             all  == front \o tail
  <2>1. Len(tail) = 1 /\ tail[1] = last /\ tail \in Seq(S)  BY <1>4
  <2> HIDE DEF S, tail
  <2>2. /\ all \in Seq(S) /\ Len(all) = Len(front) + Len(tail)
        /\ \A i \in 1 .. Len(front) + Len(tail) :
             all[i] = IF i =< Len(front) THEN front[i] ELSE tail[i - Len(front)]
    BY <1>4, <2>1, ConcatProperties
  <2>3. DOMAIN all = 1 .. Len(all)  BY <2>2
  <2> HIDE DEF all
  <2>4. \A i \in 1 .. 9 : all[i] = IF i =< 8 THEN front[i] ELSE tail[i - 8]
    BY <1>1, <2>1, <2>2
  <2>5. all[9] = tail[1]  BY <2>4
  <2>6. \A i \in 1 .. 8 : all[i] = front[i]  BY <2>4
  <2>7. Len(all) = 9  BY <1>1, <2>1, <2>2
  <2> QED  BY <2>1, <2>3, <2>5, <2>6, <2>7 DEF all, tail
<1>7. CASE b.hook_data = <<>>  BY <1>1, <1>3, <1>5, <1>7
<1>8. CASE b.hook_data # <<>>
  <2> DEFINE all == front \o << last >>
  <2>1. BodyCells(b) = all  BY <1>3, <1>8
  <2> HIDE DEF all
  <2>2. /\ Len(all) = 9 /\ DOMAIN all = 1 .. 9 /\ all[9] = last
        /\ \A i \in 1 .. 8 : all[i] = front[i]
    BY <1>6 DEF all
  <2> QED  BY <1>1, <1>8, <2>1, <2>2 DEF last
<1> QED  BY <1>7, <1>8

\* A body occupies 228 bytes and those of its hook.
HoldsBody(raw, b) ==
  /\ raw = [len |-> 228 + Len(b.hook_data),
            at  |-> [o \in DOMAIN raw.at |-> raw.at[o]]]
  /\ DOMAIN raw.at = {0, 4, 36, 68, 100, 132, 164, 196}
                       \cup (IF b.hook_data = <<>> THEN {} ELSE {228})
  /\ raw.at[0] = Cell(4, b.version)
  /\ raw.at[4] = Cell(32, b.burn_token)
  /\ raw.at[36] = Cell(32, b.mint_recipient)
  /\ raw.at[68] = Cell(32, b.amount)
  /\ raw.at[100] = Cell(32, b.message_sender)
  /\ raw.at[132] = Cell(32, b.max_fee)
  /\ raw.at[164] = Cell(32, b.fee_executed)
  /\ raw.at[196] = Cell(32, b.expiration_block)
  /\ b.hook_data # <<>> =>
       raw.at[228] = Cell(Len(b.hook_data), b.hook_data)

\* Encoding a body writes every field of it at its offset, the hook last.
LEMMA BodyLayout ==
  ASSUME NEW b, b.hook_data \in Seq({"byte"})
  PROVE  HoldsBody(EncodeBody(b), b)
<1> DEFINE hook  == b.hook_data
           cells == BodyCells(b)
           s     == Starts(cells)
           raw   == BytesOf(cells)
<1>1. Len(hook) \in Nat /\ (hook = <<>> => Len(hook) = 0)
  OBVIOUS
<1>2. raw = EncodeBody(b)  BY DEF EncodeBody
<1>3. /\ Len(cells) = IF hook = <<>> THEN 8 ELSE 9
      /\ DOMAIN cells = 1 .. Len(cells)
      /\ cells[1] = Cell(4, b.version)
      /\ cells[2] = Cell(32, b.burn_token)
      /\ cells[3] = Cell(32, b.mint_recipient)
      /\ cells[4] = Cell(32, b.amount)
      /\ cells[5] = Cell(32, b.message_sender)
      /\ cells[6] = Cell(32, b.max_fee)
      /\ cells[7] = Cell(32, b.fee_executed)
      /\ cells[8] = Cell(32, b.expiration_block)
      /\ hook # <<>> => cells[9] = Cell(Len(hook), hook)
  BY BodyCellsAre
<1>4. (\A i, j \in DOMAIN cells : s[i] = s[j] => i = j) => Holds(raw, cells, s)
  BY CellsAreAtStarts
<1> HIDE DEF cells, raw
<1>5. /\ cells[1].w = 4 /\ cells[2].w = 32 /\ cells[3].w = 32
      /\ cells[4].w = 32 /\ cells[5].w = 32 /\ cells[6].w = 32
      /\ cells[7].w = 32 /\ cells[8].w = 32
      /\ hook # <<>> => cells[9].w = Len(hook)
  BY <1>3 DEF Cell
<1>6. \A i \in 2 .. 8 : cells[i].w = 32  BY <1>5
<1>7. CASE hook = <<>>
  <2>1. Len(cells) = 8 /\ DOMAIN cells = 1 .. 8  BY <1>3, <1>7
  <2>2. /\ s[1] = 0 /\ s[2] = 4 /\ s[3] = 36 /\ s[4] = 68 /\ s[5] = 100
        /\ s[6] = 132 /\ s[7] = 164 /\ s[8] = 196 /\ s[9] = 228
    BY <2>1, <1>5, <1>6, PlainBodyStarts
  <2> HIDE DEF s
  <2>a. DOMAIN cells = {1, 2, 3, 4, 5, 6, 7, 8}  BY <2>1
  <2>3. \A i, j \in DOMAIN cells : s[i] = s[j] => i = j
    <3>1. BodyOffsets(s)  BY <2>2 DEF BodyOffsets
    <3> QED  BY <2>1, <3>1, BodyOffsetsDiffer
  <2>4. Holds(raw, cells, s)  BY <1>4, <2>3
  <2>5. DOMAIN raw.at = {0, 4, 36, 68, 100, 132, 164, 196}
    BY <2>a, <2>2, <2>4, SMTT(30) DEF Holds
  <2>6. /\ raw.at[0] = cells[1] /\ raw.at[4] = cells[2] /\ raw.at[36] = cells[3]
        /\ raw.at[68] = cells[4] /\ raw.at[100] = cells[5]
        /\ raw.at[132] = cells[6] /\ raw.at[164] = cells[7]
        /\ raw.at[196] = cells[8]
    BY <2>a, <2>2, <2>4, SMTT(30) DEF Holds
  <2>7. raw = [len |-> 228 + Len(hook),
               at |-> [o \in DOMAIN raw.at |-> raw.at[o]]]
    BY <1>1, <1>7, <2>1, <2>2, <2>4 DEF Holds
  <2> QED  BY <1>2, <1>3, <1>7, <2>5, <2>6, <2>7 DEF HoldsBody
<1>8. CASE hook # <<>>
  <2>1. Len(cells) = 9 /\ DOMAIN cells = 1 .. 9  BY <1>3, <1>8
  <2>2. /\ s[1] = 0 /\ s[2] = 4 /\ s[3] = 36 /\ s[4] = 68 /\ s[5] = 100
        /\ s[6] = 132 /\ s[7] = 164 /\ s[8] = 196 /\ s[9] = 228
        /\ s[10] = 228 + Len(hook)
    BY <1>1, <1>8, <2>1, <1>5, <1>6, HookBodyStarts, SMTT(30)
  <2> HIDE DEF s
  <2>a. DOMAIN cells = {1, 2, 3, 4, 5, 6, 7, 8, 9}  BY <2>1
  <2>3. \A i, j \in DOMAIN cells : s[i] = s[j] => i = j
    <3>1. BodyOffsets(s)  BY <2>2 DEF BodyOffsets
    <3> QED  BY <2>1, <3>1, BodyOffsetsDiffer
  <2>4. Holds(raw, cells, s)  BY <1>4, <2>3
  <2>5. DOMAIN raw.at = {0, 4, 36, 68, 100, 132, 164, 196, 228}
    BY <2>a, <2>2, <2>4, SMTT(30) DEF Holds
  <2>6. /\ raw.at[0] = cells[1] /\ raw.at[4] = cells[2] /\ raw.at[36] = cells[3]
        /\ raw.at[68] = cells[4] /\ raw.at[100] = cells[5]
        /\ raw.at[132] = cells[6] /\ raw.at[164] = cells[7]
        /\ raw.at[196] = cells[8] /\ raw.at[228] = cells[9]
    <3>1. /\ raw.at[s[1]] = cells[1] /\ raw.at[s[2]] = cells[2]
          /\ raw.at[s[3]] = cells[3] /\ raw.at[s[4]] = cells[4]
          /\ raw.at[s[5]] = cells[5] /\ raw.at[s[6]] = cells[6]
          /\ raw.at[s[7]] = cells[7] /\ raw.at[s[8]] = cells[8]
          /\ raw.at[s[9]] = cells[9]
      BY <2>a, <2>4 DEF Holds
    <3> QED  BY <2>2, <3>1
  <2>7. raw = [len |-> 228 + Len(hook),
               at |-> [o \in DOMAIN raw.at |-> raw.at[o]]]
    BY <2>1, <2>2, <2>4 DEF Holds
  <2> QED  BY <1>2, <1>3, <1>8, <2>5, <2>6, <2>7 DEF HoldsBody
<1> QED  BY <1>7, <1>8

---------------------------------------------------------------------------
(* What a decoder reads.  DecodeHeader and ParseHeader accept the same     *)
(* headers, DecodeForDomains and ParseForDomains the same bodies, and what *)
(* they return is what the cells hold.                                     *)

\* What a result holds.
LEMMA Results ==
  /\ \A v : Ok(v).ok = TRUE /\ Ok(v).val = v
  /\ \A e : Err(e).ok = FALSE
BY DEF Ok, Err

HeaderIsAccepted(raw) ==
  /\ raw.len >= HEADER_SIZE
  /\ ReadU32(raw, 0) = CCTP_V2_MESSAGE_VERSION
  /\ {ReadU32(raw, 4), ReadU32(raw, 8)} \subseteq DOMAIN FromU32Arms

HeaderRead(raw) ==
  MessageHeader(FromU32Arms[ReadU32(raw, 4)], FromU32Arms[ReadU32(raw, 8)],
    Slice(raw, 12, 44), Slice(raw, 44, 76), Slice(raw, 76, 108),
    Slice(raw, 108, 140), ReadU32(raw, 140), ReadU32(raw, 144))

\* A header is decoded and parsed to the same fields, or to neither.
LEMMA HeaderDecoding ==
  ASSUME NEW raw, raw.len \in Nat
  PROVE  /\ HeaderIsAccepted(raw) =>
              /\ DecodeHeader(raw) = Ok(HeaderRead(raw))
              /\ ParseHeader(raw) = Ok(HeaderRead(raw))
         /\ ~ HeaderIsAccepted(raw) =>
              ~ DecodeHeader(raw).ok /\ ~ ParseHeader(raw).ok
<1>1. /\ HeaderIsAccepted(raw) => DecodeHeader(raw) = Ok(HeaderRead(raw))
      /\ ~ HeaderIsAccepted(raw) => ~ DecodeHeader(raw).ok
  <2>1. CASE raw.len < HEADER_SIZE \/ ReadU32(raw, 0) # CCTP_V2_MESSAGE_VERSION
    BY <2>1 DEF HeaderIsAccepted, DecodeHeader, DecodeHeaderAt, HEADER_SIZE, Err
  <2>2. CASE ~ (raw.len < HEADER_SIZE \/ ReadU32(raw, 0) # CCTP_V2_MESSAGE_VERSION)
    <3>1. DecodeHeader(raw) = OrElse(
            AndThen(DomainFromU32(ReadU32(raw, 4)), LAMBDA source :
            AndThen(DomainFromU32(ReadU32(raw, 8)), LAMBDA destination :
              Ok(MessageHeader(source, destination, Slice(raw, 12, 44),
                   Slice(raw, 44, 76), Slice(raw, 76, 108), Slice(raw, 108, 140),
                   ReadU32(raw, 140), ReadU32(raw, 144))))), "None")
      BY <2>2 DEF DecodeHeader, DecodeHeaderAt
    <3> QED
      <4> DEFINE source      == DomainFromU32(ReadU32(raw, 4))
                 destination == DomainFromU32(ReadU32(raw, 8))
      <4>1. HeaderIsAccepted(raw) <=>
              /\ ReadU32(raw, 4) \in DOMAIN FromU32Arms
              /\ ReadU32(raw, 8) \in DOMAIN FromU32Arms
        BY <2>2 DEF HeaderIsAccepted, HEADER_SIZE
      <4>2. CASE HeaderIsAccepted(raw)
        <5>1. /\ source = Ok(FromU32Arms[ReadU32(raw, 4)])
              /\ destination = Ok(FromU32Arms[ReadU32(raw, 8)])
          BY <4>1, <4>2 DEF DomainFromU32
        <5>2. DecodeHeader(raw) = OrElse(Ok(HeaderRead(raw)), "None")
          BY <3>1, <5>1, Results DEF AndThen, HeaderRead
        <5> QED  BY <4>2, <5>2, Results DEF OrElse
      <4>3. CASE ~ HeaderIsAccepted(raw)
        <5>1. source = Err("InvalidDomainId") \/ destination = Err("InvalidDomainId")
          BY <4>1, <4>3 DEF DomainFromU32
        <5> QED  BY <3>1, <4>3, <5>1, Results DEF AndThen, OrElse
      <4> QED  BY <4>2, <4>3
  <2> QED  BY <2>1, <2>2
<1>2. ParseHeader(raw) =
        IF raw.len < HEADER_SIZE \/ ReadU32(raw, 0) # CCTP_V2_MESSAGE_VERSION
        THEN Err("ParseMessage") ELSE OrElse(DecodeHeader(raw), "ParseMessage")
  BY DEF ParseHeader, AndThen, CheckSupportedVersion, Ok, Err
<1> QED  BY <1>1, <1>2, Results DEF HeaderIsAccepted, HEADER_SIZE, OrElse

BodyIsAccepted(raw, source, destination) ==
  /\ raw.len >= MIN_SIZE
  /\ ReadU32(raw, 0) = CCTP_V2_BURN_BODY_VERSION
  /\ IsEvm(source) =>
       /\ IsCanonicalEvmAddressWord(Slice(raw, 4, 36))
       /\ IsCanonicalEvmAddressWord(Slice(raw, 100, 132))
  /\ IsEvm(destination) => IsCanonicalEvmAddressWord(Slice(raw, 36, 68))

BodyRead(raw) ==
  [version |-> 1, burn_token |-> Slice(raw, 4, 36),
   mint_recipient |-> Slice(raw, 36, 68), amount |-> Slice(raw, 68, 100),
   message_sender |-> Slice(raw, 100, 132), max_fee |-> Slice(raw, 132, 164),
   fee_executed |-> Slice(raw, 164, 196),
   expiration_block |-> Slice(raw, 196, 228),
   hook_data |-> IF raw.len = MIN_SIZE THEN <<>> ELSE Slice(raw, 228, raw.len)]

\* A body of the right size and version is decoded to what its cells hold.
LEMMA BodyDecoding ==
  ASSUME NEW raw, raw.len \in Nat
  PROVE  /\ raw.len >= MIN_SIZE /\ ReadU32(raw, 0) = CCTP_V2_BURN_BODY_VERSION =>
              /\ BodyShape(raw) = Ok("unit")
              /\ DecodeBody(raw) = Ok(BodyRead(raw))
              /\ ParseBody(raw) = Ok(BodyRead(raw))
         /\ ~ (raw.len >= MIN_SIZE /\ ReadU32(raw, 0) = CCTP_V2_BURN_BODY_VERSION) =>
              ~ BodyShape(raw).ok
<1>1. ~ (raw.len < MIN_SIZE) <=> raw.len >= MIN_SIZE  BY DEF MIN_SIZE
<1>2. CASE raw.len >= MIN_SIZE /\ ReadU32(raw, 0) = CCTP_V2_BURN_BODY_VERSION
  <2>1. BodyShape(raw) = Ok("unit")
    BY <1>1, <1>2 DEF BodyShape, CheckSupportedVersion
  <2>2. DecodeBody(raw) = Ok(BodyRead(raw))
    BY <1>1, <1>2 DEF DecodeBody, BodyRead, CCTP_V2_BURN_BODY_VERSION
  <2> QED  BY <1>2, <2>1, <2>2 DEF ParseBody, AndThen, OrElse, Ok
<1>3. CASE ~ (raw.len >= MIN_SIZE /\ ReadU32(raw, 0) = CCTP_V2_BURN_BODY_VERSION)
  BY <1>1, <1>3 DEF BodyShape, CheckSupportedVersion, Err
<1> QED  BY <1>2, <1>3

\* A body is decoded and parsed to the same fields, or to neither.
LEMMA BodyParsing ==
  ASSUME NEW raw, raw.len \in Nat, NEW source, NEW destination
  PROVE  /\ BodyIsAccepted(raw, source, destination) =>
              /\ ParseForDomains(raw, source, destination) = Ok(BodyRead(raw))
              /\ DecodeForDomains(raw, source, destination) = Ok(BodyRead(raw))
         /\ ~ BodyIsAccepted(raw, source, destination) =>
              /\ ~ ParseForDomains(raw, source, destination).ok
              /\ ~ DecodeForDomains(raw, source, destination).ok
<1> DEFINE token     == CheckWordForDomain(source, Slice(raw, 4, 36))
           recipient == CheckWordForDomain(destination, Slice(raw, 36, 68))
           sender    == CheckWordForDomain(source, Slice(raw, 100, 132))
           sized     == /\ raw.len >= MIN_SIZE
                        /\ ReadU32(raw, 0) = CCTP_V2_BURN_BODY_VERSION
<1>1. BodyIsAccepted(raw, source, destination)
        <=> sized /\ token.ok /\ recipient.ok /\ sender.ok
  BY DEF BodyIsAccepted, CheckWordForDomain, CheckCanonicalAddressWord, Ok, Err
<1>2. ParseForDomains(raw, source, destination) =
        AndThen(BodyShape(raw), LAMBDA u :
        AndThen(token, LAMBDA v :
        AndThen(recipient, LAMBDA w :
        AndThen(sender, LAMBDA x : OrElse(DecodeBody(raw), "ParseMessage")))))
  BY DEF ParseForDomains
<1>3. /\ sized => BodyShape(raw).ok /\ DecodeBody(raw) = Ok(BodyRead(raw))
      /\ ~ sized => ~ BodyShape(raw).ok
  BY BodyDecoding DEF Ok
<1> HIDE DEF token, recipient, sender, sized
<1>4. /\ sized /\ token.ok /\ recipient.ok /\ sender.ok =>
           ParseForDomains(raw, source, destination) = Ok(BodyRead(raw))
      /\ ~ (sized /\ token.ok /\ recipient.ok /\ sender.ok) =>
           ~ ParseForDomains(raw, source, destination).ok
  BY <1>2, <1>3, Results DEF AndThen, OrElse
<1> QED  BY <1>1, <1>4, Results DEF DecodeForDomains, OrElse

---------------------------------------------------------------------------
(* The two decoders, for every byte string whose cells are those of a      *)
(* message as far as it goes.                                              *)

IsCell(raw, offset, width) ==
  offset \in DOMAIN raw.at /\ raw.at[offset].w = width

LaidOut(raw) ==
  /\ raw.len \in Nat /\ DOMAIN raw.at \subseteq Nat
  /\ raw.len >= HEADER_SIZE =>
       IsCell(raw, 0, 4) /\ IsCell(raw, 4, 4) /\ IsCell(raw, 8, 4)
  /\ raw.len >= HEADER_SIZE + MIN_SIZE =>
       /\ IsCell(raw, 148, 4) /\ IsCell(raw, 152, 32)
       /\ IsCell(raw, 184, 32) /\ IsCell(raw, 248, 32)

\* A cell is read as one slice, of the whole and of the rest after the header.
LEMMA CellIsSlice ==
  ASSUME NEW raw, NEW o \in Nat, NEW w \in Nat, IsCell(raw, o, w)
  PROVE  Slice(raw, o, o + w) = raw.at[o].v
<1>1. (o + w) - o = w  OBVIOUS
<1> QED  BY <1>1 DEF Slice, IsCell

\* The bytes from an offset on hold the cells that start there or later.
LEMMA CellOfRest ==
  ASSUME NEW raw, DOMAIN raw.at \subseteq Nat, NEW from \in Nat, NEW o \in Nat,
         from + o \in DOMAIN raw.at
  PROVE  /\ o \in DOMAIN SliceFrom(raw, from).at
         /\ SliceFrom(raw, from).at[o] = raw.at[from + o]
<1>1. (from + o) - from = o /\ from + o >= from  OBVIOUS
<1>2. from + o \in {j \in DOMAIN raw.at : j >= from}  BY <1>1
<1>3. o \in {k - from : k \in {j \in DOMAIN raw.at : j >= from}}  BY <1>1, <1>2
<1>4. SliceFrom(raw, from).at
        = [k \in {k - from : k \in {j \in DOMAIN raw.at : j >= from}} |->
             raw.at[k + from]]
  BY DEF SliceFrom
<1>5. o + from = from + o  OBVIOUS
<1> QED  BY <1>3, <1>4, <1>5

\* The message that both decoders return for bytes that they accept.
MessageRead(raw) ==
  [header |-> HeaderRead(raw), body |-> BodyRead(SliceFrom(raw, HEADER_SIZE))]

\* Wherever the cells of a message are, what is accepted is what is well formed.
LEMMA AcceptedIsWellFormed ==
  ASSUME NEW raw, LaidOut(raw)
  PROVE  WellFormed(raw) <=>
           /\ HeaderIsAccepted(raw)
           /\ BodyIsAccepted(SliceFrom(raw, HEADER_SIZE),
                HeaderRead(raw).source_domain,
                HeaderRead(raw).destination_domain)
<1> DEFINE rest == SliceFrom(raw, HEADER_SIZE)
           s    == FromU32Arms[ReadU32(raw, 4)]
           d    == FromU32Arms[ReadU32(raw, 8)]
<1>1. /\ HeaderRead(raw).source_domain = s
      /\ HeaderRead(raw).destination_domain = d
  BY DEF HeaderRead, MessageHeader
<1>2. rest.len = raw.len - 148  BY DEF SliceFrom, HEADER_SIZE
<1>3. CASE ~ (raw.len >= 376)
  <2>1. ~ WellFormed(raw)  BY <1>3 DEF WellFormed, HEADER_SIZE, MIN_SIZE
  <2>2. ~ (rest.len >= 228)  BY <1>2, <1>3 DEF LaidOut
  <2> QED  BY <1>1, <2>1, <2>2 DEF BodyIsAccepted, MIN_SIZE
<1>4. CASE raw.len >= 376
  <2>1. /\ raw.len >= 148 /\ DOMAIN raw.at \subseteq Nat
        /\ IsCell(raw, 0, 4) /\ IsCell(raw, 4, 4) /\ IsCell(raw, 8, 4)
        /\ IsCell(raw, 148, 4) /\ IsCell(raw, 152, 32)
        /\ IsCell(raw, 184, 32) /\ IsCell(raw, 248, 32)
    BY <1>4 DEF LaidOut, HEADER_SIZE, MIN_SIZE
  <2>2. /\ ReadU32(raw, 0) = raw.at[0].v /\ ReadU32(raw, 4) = raw.at[4].v
        /\ ReadU32(raw, 8) = raw.at[8].v
    BY <2>1 DEF ReadU32, IsCell, Slice
  <2>3. /\ 0 \in DOMAIN rest.at /\ rest.at[0] = raw.at[148]
        /\ 4 \in DOMAIN rest.at /\ rest.at[4] = raw.at[152]
        /\ 36 \in DOMAIN rest.at /\ rest.at[36] = raw.at[184]
        /\ 100 \in DOMAIN rest.at /\ rest.at[100] = raw.at[248]
    <3>1. /\ 148 + 0 \in DOMAIN raw.at /\ 148 + 4 \in DOMAIN raw.at
          /\ 148 + 36 \in DOMAIN raw.at /\ 148 + 100 \in DOMAIN raw.at
      BY <2>1 DEF IsCell
    <3>2. /\ 0 \in DOMAIN rest.at /\ rest.at[0] = raw.at[148 + 0]
          /\ 4 \in DOMAIN rest.at /\ rest.at[4] = raw.at[148 + 4]
          /\ 36 \in DOMAIN rest.at /\ rest.at[36] = raw.at[148 + 36]
          /\ 100 \in DOMAIN rest.at /\ rest.at[100] = raw.at[148 + 100]
      BY <2>1, <3>1, CellOfRest DEF HEADER_SIZE
    <3> QED  BY <3>2
  <2> HIDE DEF rest
  <2>4. /\ ReadU32(rest, 0) = raw.at[148].v
        /\ Slice(rest, 4, 36) = raw.at[152].v
        /\ Slice(rest, 36, 68) = raw.at[184].v
        /\ Slice(rest, 100, 132) = raw.at[248].v
    BY <2>1, <2>3 DEF ReadU32, IsCell, Slice
  <2>5. rest.len >= MIN_SIZE  BY <1>2, <1>4 DEF MIN_SIZE, LaidOut
  <2>6. WellFormed(raw) <=>
          /\ raw.at[0].v = 1 /\ raw.at[148].v = 1
          /\ {raw.at[4].v, raw.at[8].v} \subseteq DOMAIN FromU32Arms
          /\ IsEvm(s) => raw.at[152].v.lead = 0 /\ raw.at[248].v.lead = 0
          /\ IsEvm(d) => raw.at[184].v.lead = 0
    BY <1>4, <2>2 DEF WellFormed, HEADER_SIZE, MIN_SIZE
  <2>7. BodyIsAccepted(rest, s, d) <=>
          /\ raw.at[148].v = 1
          /\ IsEvm(s) => raw.at[152].v.lead = 0 /\ raw.at[248].v.lead = 0
          /\ IsEvm(d) => raw.at[184].v.lead = 0
    BY <2>4, <2>5 DEF BodyIsAccepted, CCTP_V2_BURN_BODY_VERSION,
                      IsCanonicalEvmAddressWord
  <2>8. HeaderIsAccepted(raw) <=>
          /\ raw.at[0].v = 1
          /\ {raw.at[4].v, raw.at[8].v} \subseteq DOMAIN FromU32Arms
    BY <2>1, <2>2 DEF HeaderIsAccepted, HEADER_SIZE, CCTP_V2_MESSAGE_VERSION
  <2> QED  BY <1>1, <2>6, <2>7, <2>8 DEF rest
<1> QED  BY <1>3, <1>4

\* decode and parse accept exactly what the documentation of parse lists
\* (protocol/message.rs:624-627, 644-648), and return the same message.
LEMMA DecodersReadTheSame ==
  ASSUME NEW raw, LaidOut(raw)
  PROVE  /\ WellFormed(raw) =>
              /\ Parse(raw) = Ok(MessageRead(raw))
              /\ Decode(raw) = Ok(MessageRead(raw))
         /\ ~ WellFormed(raw) => ~ Parse(raw).ok /\ ~ Decode(raw).ok
<1> DEFINE rest == SliceFrom(raw, HEADER_SIZE)
           h    == HeaderRead(raw)
           s    == h.source_domain
           d    == h.destination_domain
<1>1. raw.len \in Nat  BY DEF LaidOut
<1>2. CASE ~ HeaderIsAccepted(raw)
  <2>1. ~ WellFormed(raw)  BY <1>2, AcceptedIsWellFormed
  <2>2. ~ DecodeHeader(raw).ok /\ ~ ParseHeader(raw).ok
    BY <1>1, <1>2, HeaderDecoding
  <2> QED  BY <2>1, <2>2 DEF Parse, Decode, AndThen
<1>3. CASE HeaderIsAccepted(raw)
  <2>1. DecodeHeader(raw) = Ok(h) /\ ParseHeader(raw) = Ok(h)
    BY <1>1, <1>3, HeaderDecoding
  <2>2. rest.len \in Nat
    BY <1>1, <1>3 DEF SliceFrom, HeaderIsAccepted, HEADER_SIZE
  <2>3. WellFormed(raw) <=> BodyIsAccepted(rest, s, d)
    BY <1>3, AcceptedIsWellFormed
  <2>4. /\ Parse(raw) = AndThen(ParseForDomains(rest, s, d), LAMBDA b :
                          Ok([header |-> h, body |-> b]))
        /\ Decode(raw) = AndThen(DecodeForDomains(rest, s, d), LAMBDA b :
                           Ok([header |-> h, body |-> b]))
    BY <2>1, Results DEF Parse, Decode, AndThen
  <2>5. /\ BodyIsAccepted(rest, s, d) =>
             /\ ParseForDomains(rest, s, d) = Ok(BodyRead(rest))
             /\ DecodeForDomains(rest, s, d) = Ok(BodyRead(rest))
        /\ ~ BodyIsAccepted(rest, s, d) =>
             ~ ParseForDomains(rest, s, d).ok /\ ~ DecodeForDomains(rest, s, d).ok
    BY <2>2, BodyParsing
  <2> HIDE DEF rest, h
  <2>6. MessageRead(raw) = [header |-> h, body |-> BodyRead(rest)]
    BY DEF MessageRead, rest, h
  <2> QED  BY <2>3, <2>4, <2>5, <2>6, Results DEF AndThen
<1> QED  BY <1>2, <1>3

\* decode and parse accept the same bytes, those that are well formed, and return
\* the same for them (protocol/message.rs: ParsedV2Message::decode and parse),
\* whatever the bytes are, as long as the words that are checked are words.
THEOREM DecodersAgreeOnBytes ==
  ASSUME NEW raw, LaidOut(raw)
  PROVE  DecodersAgreeOn(raw)
BY DecodersReadTheSame, Results DEF DecodersAgreeOn

---------------------------------------------------------------------------
(* The bytes of a whole message.                                           *)

\* from_u32 and as_u32 are inverse to each other (protocol/domain_id.rs).
LEMMA DomainNumbersInvert ==
  /\ \A u \in DOMAIN FromU32Arms :
       FromU32Arms[u] \in Domains /\ AsU32[FromU32Arms[u]] = u
  /\ \A d \in Domains :
       AsU32[d] \in DOMAIN FromU32Arms /\ FromU32Arms[AsU32[d]] = d
<1>1. \A d \in Domains :
        AsU32[d] \in DOMAIN FromU32Arms /\ FromU32Arms[AsU32[d]] = d
  BY DEF FromU32Arms, Domains, AsU32
<1>2. \A u \in DOMAIN FromU32Arms : \E d \in Domains : AsU32[d] = u
  <2>1. \A u \in 0 .. 3 : \E d \in Domains : AsU32[d] = u
    BY DEF Domains, AsU32
  <2>2. \A u \in 5 .. 12 : \E d \in Domains : AsU32[d] = u
    BY DEF Domains, AsU32
  <2>3. \A u \in 13 .. 19 : \E d \in Domains : AsU32[d] = u
    BY DEF Domains, AsU32
  <2>4. \A u \in 25 .. 33 : \E d \in Domains : AsU32[d] = u
    BY DEF Domains, AsU32
  <2>5. \A u \in {21, 22, 37} : \E d \in Domains : AsU32[d] = u
    BY DEF Domains, AsU32
  <2>6. \A u \in 5 .. 19 : u \in 5 .. 12 \/ u \in 13 .. 19
    OBVIOUS
  <2>7. DOMAIN FromU32Arms = (0 .. 3) \cup (5 .. 19) \cup {21, 22} \cup (25 .. 33) \cup {37}
    BY DEF FromU32Arms
  <2> HIDE DEF Domains
  <2> QED  BY <2>1, <2>2, <2>3, <2>4, <2>5, <2>6, <2>7
<1>3. \A u \in DOMAIN FromU32Arms :
        FromU32Arms[u] \in Domains /\ AsU32[FromU32Arms[u]] = u
  BY <1>1, <1>2
<1> QED  BY <1>1, <1>3

\* The bytes raw are those of the message m, field by field.
HoldsMessage(raw, m) ==
  /\ raw = [len |-> 376 + Len(m.body.hook_data),
            at  |-> [o \in DOMAIN raw.at |-> raw.at[o]]]
  /\ DOMAIN raw.at =
       {0, 4, 8, 12, 44, 76, 108, 140, 144}
         \cup ({148, 152, 184, 216, 248, 280, 312, 344}
                 \cup (IF m.body.hook_data = <<>> THEN {} ELSE {376}))
  /\ raw.at[0] = Cell(4, m.header.version)
  /\ raw.at[4] = Cell(4, AsU32[m.header.source_domain])
  /\ raw.at[8] = Cell(4, AsU32[m.header.destination_domain])
  /\ raw.at[12] = Cell(32, m.header.nonce)
  /\ raw.at[44] = Cell(32, m.header.sender)
  /\ raw.at[76] = Cell(32, m.header.recipient)
  /\ raw.at[108] = Cell(32, m.header.destination_caller)
  /\ raw.at[140] = Cell(4, m.header.min_finality_threshold)
  /\ raw.at[144] = Cell(4, m.header.finality_threshold_executed)
  /\ raw.at[148] = Cell(4, m.body.version)
  /\ raw.at[152] = Cell(32, m.body.burn_token)
  /\ raw.at[184] = Cell(32, m.body.mint_recipient)
  /\ raw.at[216] = Cell(32, m.body.amount)
  /\ raw.at[248] = Cell(32, m.body.message_sender)
  /\ raw.at[280] = Cell(32, m.body.max_fee)
  /\ raw.at[312] = Cell(32, m.body.fee_executed)
  /\ raw.at[344] = Cell(32, m.body.expiration_block)
  /\ m.body.hook_data # <<>> =>
       raw.at[376] = Cell(Len(m.body.hook_data), m.body.hook_data)

\* Encoding writes every field at its offset.
LEMMA EncodeHolds ==
  ASSUME NEW m, m.body.hook_data \in Seq({"byte"})
  PROVE  HoldsMessage(Encode(m), m)
<1> DEFINE h   == EncodeHeader(m.header)
           b   == EncodeBody(m.body)
           raw == Extend(h, b)
           moved == {148 + k : k \in DOMAIN b.at}
<1>1. HoldsHeader(h, m.header)  BY HeaderLayout
<1>2. HoldsBody(b, m.body)  BY BodyLayout
<1>3. raw = Encode(m)  BY DEF Encode
<1> HIDE DEF h, b
<1>4. h.len = 148 /\ b.len = 228 + Len(m.body.hook_data)
  BY <1>1, <1>2 DEF HoldsHeader, HoldsBody
<1>5. /\ raw.len = h.len + b.len
      /\ raw.at = [o \in DOMAIN h.at \cup {148 + k : k \in DOMAIN b.at} |->
                     IF o \in DOMAIN h.at THEN h.at[o] ELSE b.at[o - 148]]
  BY <1>4 DEF Extend
<1>6. DOMAIN h.at = {0, 4, 8, 12, 44, 76, 108, 140, 144}
  BY <1>1 DEF HoldsHeader
<1>7. moved
        = {148, 152, 184, 216, 248, 280, 312, 344}
            \cup (IF m.body.hook_data = <<>> THEN {} ELSE {376})
  <2>1. DOMAIN b.at = {0, 4, 36, 68, 100, 132, 164, 196}
                        \cup (IF m.body.hook_data = <<>> THEN {} ELSE {228})
    BY <1>2 DEF HoldsBody
  <2>2. CASE m.body.hook_data = <<>>  BY <2>1, <2>2
  <2>3. CASE m.body.hook_data # <<>>  BY <2>1, <2>3
  <2> QED  BY <2>2, <2>3
<1> HIDE DEF moved
<1>8. /\ raw = [len |-> raw.len, at |-> raw.at]
      /\ raw.at = [o \in DOMAIN raw.at |-> raw.at[o]]
  BY <1>5 DEF Extend
<1> HIDE DEF raw
<1>9. raw = [len |-> 376 + Len(m.body.hook_data),
             at  |-> [o \in DOMAIN raw.at |-> raw.at[o]]]
  <2>1. Len(m.body.hook_data) \in Nat  OBVIOUS
  <2> QED  BY <1>4, <1>5, <1>8, <2>1
<1>10. DOMAIN raw.at = DOMAIN h.at \cup moved
  BY <1>5 DEF moved
<1>11. \A o \in DOMAIN h.at : raw.at[o] = h.at[o]  BY <1>5
<1>12. /\ raw.at[148] = b.at[0] /\ raw.at[152] = b.at[4]
       /\ raw.at[184] = b.at[36] /\ raw.at[216] = b.at[68]
       /\ raw.at[248] = b.at[100] /\ raw.at[280] = b.at[132]
       /\ raw.at[312] = b.at[164] /\ raw.at[344] = b.at[196]
       /\ m.body.hook_data # <<>> => raw.at[376] = b.at[228]
  <2>1. \A o \in DOMAIN raw.at \ DOMAIN h.at : raw.at[o] = b.at[o - 148]
    BY <1>5
  <2>2. \A o \in {148, 152, 184, 216, 248, 280, 312, 344, 376} :
          o \notin DOMAIN h.at
    BY <1>6
  <2>3. \A o \in {148, 152, 184, 216, 248, 280, 312, 344} : o \in DOMAIN raw.at
    BY <1>7, <1>10
  <2>4. m.body.hook_data # <<>> => 376 \in DOMAIN raw.at
    BY <1>7, <1>10
  <2> QED  BY <2>1, <2>2, <2>3, <2>4, SMTT(30)
<1>13. /\ raw.at[0] = h.at[0] /\ raw.at[4] = h.at[4] /\ raw.at[8] = h.at[8]
       /\ raw.at[12] = h.at[12] /\ raw.at[44] = h.at[44]
       /\ raw.at[76] = h.at[76] /\ raw.at[108] = h.at[108]
       /\ raw.at[140] = h.at[140] /\ raw.at[144] = h.at[144]
  BY <1>6, <1>11
<1>14. /\ h.at[0] = Cell(4, m.header.version)
       /\ h.at[4] = Cell(4, AsU32[m.header.source_domain])
       /\ h.at[8] = Cell(4, AsU32[m.header.destination_domain])
       /\ h.at[12] = Cell(32, m.header.nonce)
       /\ h.at[44] = Cell(32, m.header.sender)
       /\ h.at[76] = Cell(32, m.header.recipient)
       /\ h.at[108] = Cell(32, m.header.destination_caller)
       /\ h.at[140] = Cell(4, m.header.min_finality_threshold)
       /\ h.at[144] = Cell(4, m.header.finality_threshold_executed)
  BY <1>1 DEF HoldsHeader
<1>15. /\ b.at[0] = Cell(4, m.body.version)
       /\ b.at[4] = Cell(32, m.body.burn_token)
       /\ b.at[36] = Cell(32, m.body.mint_recipient)
       /\ b.at[68] = Cell(32, m.body.amount)
       /\ b.at[100] = Cell(32, m.body.message_sender)
       /\ b.at[132] = Cell(32, m.body.max_fee)
       /\ b.at[164] = Cell(32, m.body.fee_executed)
       /\ b.at[196] = Cell(32, m.body.expiration_block)
       /\ m.body.hook_data # <<>> =>
            b.at[228] = Cell(Len(m.body.hook_data), m.body.hook_data)
  BY <1>2 DEF HoldsBody
<1>16. DOMAIN raw.at =
         {0, 4, 8, 12, 44, 76, 108, 140, 144}
           \cup ({148, 152, 184, 216, 248, 280, 312, 344}
                   \cup (IF m.body.hook_data = <<>> THEN {} ELSE {376}))
  BY <1>6, <1>7, <1>10
<1>17. HoldsMessage(raw, m)
  BY <1>9, <1>12, <1>13, <1>14, <1>15, <1>16 DEF HoldsMessage
<1> QED  BY <1>3, <1>17

\* A message has one byte string.
LEMMA HeldBytesAreUnique ==
  ASSUME NEW m, NEW one, NEW two, HoldsMessage(one, m), HoldsMessage(two, m)
  PROVE  one = two
<1>1. one.len = two.len /\ DOMAIN one.at = DOMAIN two.at
  BY DEF HoldsMessage
<1>2. \A o \in DOMAIN one.at : one.at[o] = two.at[o]
  <2>1. CASE m.body.hook_data = <<>>  BY <2>1 DEF HoldsMessage
  <2>2. CASE m.body.hook_data # <<>>  BY <2>2 DEF HoldsMessage
  <2> QED  BY <2>1, <2>2
<1>3. /\ one = [len |-> one.len, at |-> [o \in DOMAIN one.at |-> one.at[o]]]
      /\ two = [len |-> two.len, at |-> [o \in DOMAIN two.at |-> two.at[o]]]
  BY DEF HoldsMessage
<1>4. [o \in DOMAIN one.at |-> one.at[o]] = [o \in DOMAIN two.at |-> two.at[o]]
  BY <1>1, <1>2
<1> QED  BY <1>1, <1>3, <1>4

---------------------------------------------------------------------------
(* Decoding inverts encoding.                                              *)

\* The value of a message of the library: its version is that of the format,
\* its domains are DomainIds, and the addresses of EVM domains are padded.
IsMessage(m) ==
  /\ m = [header |-> MessageHeader(m.header.source_domain,
            m.header.destination_domain, m.header.nonce, m.header.sender,
            m.header.recipient, m.header.destination_caller,
            m.header.min_finality_threshold,
            m.header.finality_threshold_executed),
          body |-> [version |-> 1, burn_token |-> m.body.burn_token,
            mint_recipient |-> m.body.mint_recipient, amount |-> m.body.amount,
            message_sender |-> m.body.message_sender, max_fee |-> m.body.max_fee,
            fee_executed |-> m.body.fee_executed,
            expiration_block |-> m.body.expiration_block,
            hook_data |-> m.body.hook_data]]
  /\ {m.header.source_domain, m.header.destination_domain} \subseteq Domains
  /\ m.body.hook_data \in Seq({"byte"})
  /\ IsEvm(m.header.source_domain) =>
       m.body.burn_token.lead = 0 /\ m.body.message_sender.lead = 0
  /\ IsEvm(m.header.destination_domain) => m.body.mint_recipient.lead = 0

\* The bytes of a message are laid out as one.
LEMMA HeldIsLaidOut ==
  ASSUME NEW raw, NEW m, HoldsMessage(raw, m),
         m.body.hook_data \in Seq({"byte"})
  PROVE  LaidOut(raw)
<1>1. raw.len = 376 + Len(m.body.hook_data)  BY DEF HoldsMessage
<1>2. Len(m.body.hook_data) \in Nat  OBVIOUS
<1>3. DOMAIN raw.at \subseteq Nat
  <2>1. CASE m.body.hook_data = <<>>  BY <2>1 DEF HoldsMessage
  <2>2. CASE m.body.hook_data # <<>>  BY <2>2 DEF HoldsMessage
  <2> QED  BY <2>1, <2>2
<1>4. /\ IsCell(raw, 0, 4) /\ IsCell(raw, 4, 4) /\ IsCell(raw, 8, 4)
      /\ IsCell(raw, 148, 4) /\ IsCell(raw, 152, 32)
      /\ IsCell(raw, 184, 32) /\ IsCell(raw, 248, 32)
  BY DEF HoldsMessage, IsCell, Cell
<1> QED  BY <1>1, <1>2, <1>3, <1>4 DEF LaidOut

\* What a decoder reads from the bytes of a message, header and body.
LEMMA HeldIsRead ==
  ASSUME NEW raw, NEW m, HoldsMessage(raw, m), IsMessage(m)
  PROVE  MessageRead(raw) = m
<1> DEFINE rest == SliceFrom(raw, HEADER_SIZE)
           hook == m.body.hook_data
<1>1. HeaderRead(raw) = m.header
  <2>1. /\ ReadU32(raw, 4) = AsU32[m.header.source_domain]
        /\ ReadU32(raw, 8) = AsU32[m.header.destination_domain]
        /\ Slice(raw, 12, 44) = m.header.nonce
        /\ Slice(raw, 44, 76) = m.header.sender
        /\ Slice(raw, 76, 108) = m.header.recipient
        /\ Slice(raw, 108, 140) = m.header.destination_caller
        /\ ReadU32(raw, 140) = m.header.min_finality_threshold
        /\ ReadU32(raw, 144) = m.header.finality_threshold_executed
    BY DEF HoldsMessage, ReadU32, Slice, Cell
  <2>2. /\ FromU32Arms[AsU32[m.header.source_domain]] = m.header.source_domain
        /\ FromU32Arms[AsU32[m.header.destination_domain]]
             = m.header.destination_domain
    BY DomainNumbersInvert DEF IsMessage
  <2> QED  BY <2>1, <2>2 DEF HeaderRead, IsMessage
<1>2. BodyRead(rest) = m.body
  <2>1. rest.len = 228 + Len(hook) /\ Len(hook) \in Nat
    BY SMTT(30) DEF HoldsMessage, SliceFrom, HEADER_SIZE, IsMessage
  <2>2. DOMAIN raw.at \subseteq Nat
    BY HeldIsLaidOut DEF LaidOut, IsMessage
  <2>3. /\ 148 + 4 \in DOMAIN raw.at /\ 148 + 36 \in DOMAIN raw.at
        /\ 148 + 68 \in DOMAIN raw.at /\ 148 + 100 \in DOMAIN raw.at
        /\ 148 + 132 \in DOMAIN raw.at /\ 148 + 164 \in DOMAIN raw.at
        /\ 148 + 196 \in DOMAIN raw.at
        /\ hook # <<>> => 148 + 228 \in DOMAIN raw.at
    BY DEF HoldsMessage
  <2>4. /\ 4 \in DOMAIN rest.at /\ rest.at[4] = raw.at[148 + 4]
        /\ 36 \in DOMAIN rest.at /\ rest.at[36] = raw.at[148 + 36]
        /\ 68 \in DOMAIN rest.at /\ rest.at[68] = raw.at[148 + 68]
        /\ 100 \in DOMAIN rest.at /\ rest.at[100] = raw.at[148 + 100]
        /\ 132 \in DOMAIN rest.at /\ rest.at[132] = raw.at[148 + 132]
        /\ 164 \in DOMAIN rest.at /\ rest.at[164] = raw.at[148 + 164]
        /\ 196 \in DOMAIN rest.at /\ rest.at[196] = raw.at[148 + 196]
        /\ hook # <<>> =>
             228 \in DOMAIN rest.at /\ rest.at[228] = raw.at[148 + 228]
    BY <2>2, <2>3, CellOfRest DEF HEADER_SIZE
  <2> HIDE DEF rest
  <2>5. /\ Slice(rest, 4, 36) = m.body.burn_token
        /\ Slice(rest, 36, 68) = m.body.mint_recipient
        /\ Slice(rest, 68, 100) = m.body.amount
        /\ Slice(rest, 100, 132) = m.body.message_sender
        /\ Slice(rest, 132, 164) = m.body.max_fee
        /\ Slice(rest, 164, 196) = m.body.fee_executed
        /\ Slice(rest, 196, 228) = m.body.expiration_block
    <3>1. /\ rest.at[4] = Cell(32, m.body.burn_token)
          /\ rest.at[36] = Cell(32, m.body.mint_recipient)
          /\ rest.at[68] = Cell(32, m.body.amount)
          /\ rest.at[100] = Cell(32, m.body.message_sender)
          /\ rest.at[132] = Cell(32, m.body.max_fee)
          /\ rest.at[164] = Cell(32, m.body.fee_executed)
          /\ rest.at[196] = Cell(32, m.body.expiration_block)
      BY <2>4 DEF HoldsMessage
    <3> QED  BY <2>4, <3>1 DEF Slice, Cell
  <2>6. (IF rest.len = MIN_SIZE THEN <<>> ELSE Slice(rest, 228, rest.len)) = hook
    <3>1. CASE hook = <<>>
      BY <2>1, <3>1 DEF MIN_SIZE
    <3>2. CASE hook # <<>>
      <4>1. Len(hook) # 0  BY <3>2 DEF IsMessage
      <4>2. rest.at[228] = Cell(Len(hook), hook)
        BY <2>4, <3>2 DEF HoldsMessage
      <4>3. Slice(rest, 228, rest.len) = hook
        BY <2>1, <2>4, <3>2, <4>2 DEF Slice, Cell
      <4> QED  BY <2>1, <4>1, <4>3 DEF MIN_SIZE
    <3> QED  BY <3>1, <3>2
  <2>7. m.body = [version |-> 1, burn_token |-> m.body.burn_token,
            mint_recipient |-> m.body.mint_recipient, amount |-> m.body.amount,
            message_sender |-> m.body.message_sender, max_fee |-> m.body.max_fee,
            fee_executed |-> m.body.fee_executed,
            expiration_block |-> m.body.expiration_block, hook_data |-> hook]
    BY DEF IsMessage
  <2> QED  BY <2>5, <2>6, <2>7 DEF BodyRead
<1>3. m = [header |-> m.header, body |-> m.body]  BY DEF IsMessage
<1> QED  BY <1>1, <1>2, <1>3 DEF MessageRead

\* The bytes of a message are well formed.
LEMMA HeldIsWellFormed ==
  ASSUME NEW raw, NEW m, HoldsMessage(raw, m), IsMessage(m)
  PROVE  WellFormed(raw)
<1>1. raw.len = 376 + Len(m.body.hook_data) /\ Len(m.body.hook_data) \in Nat
  BY DEF HoldsMessage, IsMessage
<1>2. m.header.version = 1 /\ m.body.version = 1
  <2>1. m.header = MessageHeader(m.header.source_domain,
            m.header.destination_domain, m.header.nonce, m.header.sender,
            m.header.recipient, m.header.destination_caller,
            m.header.min_finality_threshold,
            m.header.finality_threshold_executed)
    BY DEF IsMessage
  <2>2. m.header.version = 1
    BY <2>1 DEF MessageHeader, CCTP_V2_MESSAGE_VERSION
  <2> QED  BY <2>2 DEF IsMessage
<1>3. /\ raw.at[0].v = 1 /\ raw.at[148].v = 1
      /\ raw.at[4].v = AsU32[m.header.source_domain]
      /\ raw.at[8].v = AsU32[m.header.destination_domain]
      /\ raw.at[152].v = m.body.burn_token
      /\ raw.at[184].v = m.body.mint_recipient
      /\ raw.at[248].v = m.body.message_sender
  BY <1>2 DEF HoldsMessage, Cell
<1>4. /\ AsU32[m.header.source_domain] \in DOMAIN FromU32Arms
      /\ AsU32[m.header.destination_domain] \in DOMAIN FromU32Arms
      /\ FromU32Arms[AsU32[m.header.source_domain]] = m.header.source_domain
      /\ FromU32Arms[AsU32[m.header.destination_domain]]
           = m.header.destination_domain
  BY DomainNumbersInvert DEF IsMessage
<1>5. raw.len >= HEADER_SIZE + MIN_SIZE
  BY <1>1 DEF HEADER_SIZE, MIN_SIZE
<1> QED  BY <1>3, <1>4, <1>5 DEF WellFormed, HEADER_SIZE, IsMessage

\* What the library encodes, it decodes and parses to the same message, for
\* every nonce, word, amount, fee and hook: no field is written where another
\* one is read (MessageHeader::encode and decode, BurnMessageV2::encode and
\* decode, in protocol/message.rs).
THEOREM EncodedMessageIsRead ==
  ASSUME NEW m, IsMessage(m)
  PROVE  /\ Parse(Encode(m)) = Ok(m)
         /\ Decode(Encode(m)) = Ok(m)
<1> DEFINE raw == Encode(m)
<1>1. m.body.hook_data \in Seq({"byte"})  BY DEF IsMessage
<1>2. HoldsMessage(raw, m)  BY <1>1, EncodeHolds
<1> HIDE DEF raw
<1>3. LaidOut(raw) /\ WellFormed(raw) /\ MessageRead(raw) = m
  BY <1>1, <1>2, HeldIsLaidOut, HeldIsWellFormed, HeldIsRead
<1>4. Parse(raw) = Ok(m) /\ Decode(raw) = Ok(m)
  BY <1>3, DecodersReadTheSame
<1> QED  BY <1>4 DEF raw

---------------------------------------------------------------------------
(* Encoding inverts decoding.                                              *)

\* The bytes of one body.
LEMMA HeldBodiesAreUnique ==
  ASSUME NEW b, NEW one, NEW two, HoldsBody(one, b), HoldsBody(two, b)
  PROVE  one = two
<1>1. one.len = two.len /\ DOMAIN one.at = DOMAIN two.at
  BY DEF HoldsBody
<1>2. \A o \in DOMAIN one.at : one.at[o] = two.at[o]
  <2>1. CASE b.hook_data = <<>>  BY <2>1 DEF HoldsBody
  <2>2. CASE b.hook_data # <<>>  BY <2>2 DEF HoldsBody
  <2> QED  BY <2>1, <2>2
<1>3. /\ one = [len |-> one.len, at |-> [o \in DOMAIN one.at |-> one.at[o]]]
      /\ two = [len |-> two.len, at |-> [o \in DOMAIN two.at |-> two.at[o]]]
  BY DEF HoldsBody
<1>4. [o \in DOMAIN one.at |-> one.at[o]] = [o \in DOMAIN two.at |-> two.at[o]]
  BY <1>1, <1>2
<1> QED  BY <1>1, <1>3, <1>4

\* After the header of a message come the bytes of its body.
LEMMA RestHoldsBody ==
  ASSUME NEW raw, NEW m, HoldsMessage(raw, m),
         m.body.hook_data \in Seq({"byte"})
  PROVE  HoldsBody(SliceFrom(raw, HEADER_SIZE), m.body)
<1> DEFINE rest == SliceFrom(raw, HEADER_SIZE)
           hook == m.body.hook_data
           D    == {j \in DOMAIN raw.at : j >= 148}
<1>1. /\ rest = [len |-> rest.len, at |-> rest.at]
      /\ rest.at = [o \in {k - 148 : k \in D} |-> raw.at[o + 148]]
      /\ rest.len = raw.len - 148
  BY DEF SliceFrom, HEADER_SIZE
<1>2. Len(hook) \in Nat  OBVIOUS
<1>3. rest.len = 228 + Len(hook)  BY <1>1, <1>2 DEF HoldsMessage
<1>4. D = {148, 152, 184, 216, 248, 280, 312, 344}
            \cup (IF hook = <<>> THEN {} ELSE {376})
  <2>1. CASE hook = <<>>  BY <2>1 DEF HoldsMessage
  <2>2. CASE hook # <<>>  BY <2>2 DEF HoldsMessage
  <2> QED  BY <2>1, <2>2
<1>5. {k - 148 : k \in D} = {0, 4, 36, 68, 100, 132, 164, 196}
                              \cup (IF hook = <<>> THEN {} ELSE {228})
  <2> HIDE DEF D
  <2>1. CASE hook = <<>>  BY <1>4, <2>1
  <2>2. CASE hook # <<>>  BY <1>4, <2>2
  <2> QED  BY <2>1, <2>2
<1> HIDE DEF rest, D
<1>6. DOMAIN rest.at = {0, 4, 36, 68, 100, 132, 164, 196}
                         \cup (IF hook = <<>> THEN {} ELSE {228})
  BY <1>1, <1>5
<1>7. \A o \in DOMAIN rest.at : rest.at[o] = raw.at[o + 148]  BY <1>1
<1>8. /\ rest.at[0] = raw.at[148] /\ rest.at[4] = raw.at[152]
      /\ rest.at[36] = raw.at[184] /\ rest.at[68] = raw.at[216]
      /\ rest.at[100] = raw.at[248] /\ rest.at[132] = raw.at[280]
      /\ rest.at[164] = raw.at[312] /\ rest.at[196] = raw.at[344]
      /\ hook # <<>> => rest.at[228] = raw.at[376]
  <2>1. \A o \in {0, 4, 36, 68, 100, 132, 164, 196} : o \in DOMAIN rest.at
    BY <1>6
  <2>2. hook # <<>> => 228 \in DOMAIN rest.at  BY <1>6
  <2> QED  BY <1>7, <2>1, <2>2, SMTT(30)
<1>9. rest = [len |-> 228 + Len(hook), at |-> [o \in DOMAIN rest.at |-> rest.at[o]]]
  BY <1>1, <1>3
<1>10. HoldsBody(rest, m.body)
  <2>1. /\ raw.at[148] = Cell(4, m.body.version)
        /\ raw.at[152] = Cell(32, m.body.burn_token)
        /\ raw.at[184] = Cell(32, m.body.mint_recipient)
        /\ raw.at[216] = Cell(32, m.body.amount)
        /\ raw.at[248] = Cell(32, m.body.message_sender)
        /\ raw.at[280] = Cell(32, m.body.max_fee)
        /\ raw.at[312] = Cell(32, m.body.fee_executed)
        /\ raw.at[344] = Cell(32, m.body.expiration_block)
        /\ hook # <<>> => raw.at[376] = Cell(Len(hook), hook)
    BY DEF HoldsMessage
  <2> QED  BY <1>6, <1>8, <1>9, <2>1 DEF HoldsBody
<1> QED  BY <1>10 DEF rest

\* The byte strings whose cells are exactly those of a message, whatever they
\* hold.
HasCell(raw, offset, width) ==
  raw.at[offset] = Cell(width, raw.at[offset].v)

MessageCells(raw, hook) ==
  /\ raw = [len |-> 376 + Len(hook),
            at  |-> [o \in DOMAIN raw.at |-> raw.at[o]]]
  /\ DOMAIN raw.at =
       {0, 4, 8, 12, 44, 76, 108, 140, 144}
         \cup ({148, 152, 184, 216, 248, 280, 312, 344}
                 \cup (IF hook = <<>> THEN {} ELSE {376}))
  /\ HasCell(raw, 0, 4) /\ HasCell(raw, 4, 4) /\ HasCell(raw, 8, 4)
  /\ HasCell(raw, 12, 32) /\ HasCell(raw, 44, 32) /\ HasCell(raw, 76, 32)
  /\ HasCell(raw, 108, 32) /\ HasCell(raw, 140, 4) /\ HasCell(raw, 144, 4)
  /\ HasCell(raw, 148, 4) /\ HasCell(raw, 152, 32) /\ HasCell(raw, 184, 32)
  /\ HasCell(raw, 216, 32) /\ HasCell(raw, 248, 32) /\ HasCell(raw, 280, 32)
  /\ HasCell(raw, 312, 32) /\ HasCell(raw, 344, 32)
  /\ hook # <<>> => raw.at[376] = Cell(Len(hook), hook)

MessageBytes(raw) == \E hook \in Seq({"byte"}) : MessageCells(raw, hook)

\* Bytes with the cells of a message are laid out for both decoders.
LEMMA CellsAreLaidOut ==
  ASSUME NEW raw, NEW hook \in Seq({"byte"}), MessageCells(raw, hook)
  PROVE  LaidOut(raw)
<1>1. raw.len = 376 + Len(hook) /\ Len(hook) \in Nat  BY DEF MessageCells
<1>2. DOMAIN raw.at \subseteq Nat
  <2>1. CASE hook = <<>>  BY <2>1 DEF MessageCells
  <2>2. CASE hook # <<>>  BY <2>2 DEF MessageCells
  <2> QED  BY <2>1, <2>2
<1>3. /\ IsCell(raw, 0, 4) /\ IsCell(raw, 4, 4) /\ IsCell(raw, 8, 4)
      /\ IsCell(raw, 148, 4) /\ IsCell(raw, 152, 32)
      /\ IsCell(raw, 184, 32) /\ IsCell(raw, 248, 32)
  BY SMTT(30) DEF MessageCells, HasCell, IsCell, Cell
<1> QED  BY <1>1, <1>2, <1>3 DEF LaidOut

\* Well-formed bytes hold the message that is read from them.
LEMMA ReadIsHeld ==
  ASSUME NEW raw, NEW hook \in Seq({"byte"}), MessageCells(raw, hook),
         WellFormed(raw)
  PROVE  /\ HoldsMessage(raw, MessageRead(raw))
         /\ MessageRead(raw).body.hook_data = hook
<1> DEFINE m    == MessageRead(raw)
           rest == SliceFrom(raw, HEADER_SIZE)
<1>1. /\ m.header = HeaderRead(raw) /\ m.body = BodyRead(rest)
      /\ m = [header |-> m.header, body |-> m.body]
  BY DEF MessageRead
<1>2. raw.len = 376 + Len(hook) /\ Len(hook) \in Nat  BY DEF MessageCells
<1>3. rest.len = 228 + Len(hook)
  BY <1>2 DEF SliceFrom, HEADER_SIZE
<1>4. DOMAIN raw.at \subseteq Nat  BY CellsAreLaidOut DEF LaidOut
<1>5. /\ 148 + 4 \in DOMAIN raw.at /\ 148 + 36 \in DOMAIN raw.at
      /\ 148 + 68 \in DOMAIN raw.at /\ 148 + 100 \in DOMAIN raw.at
      /\ 148 + 132 \in DOMAIN raw.at /\ 148 + 164 \in DOMAIN raw.at
      /\ 148 + 196 \in DOMAIN raw.at
      /\ hook # <<>> => 148 + 228 \in DOMAIN raw.at
  BY DEF MessageCells
<1>6. /\ 4 \in DOMAIN rest.at /\ rest.at[4] = raw.at[148 + 4]
      /\ 36 \in DOMAIN rest.at /\ rest.at[36] = raw.at[148 + 36]
      /\ 68 \in DOMAIN rest.at /\ rest.at[68] = raw.at[148 + 68]
      /\ 100 \in DOMAIN rest.at /\ rest.at[100] = raw.at[148 + 100]
      /\ 132 \in DOMAIN rest.at /\ rest.at[132] = raw.at[148 + 132]
      /\ 164 \in DOMAIN rest.at /\ rest.at[164] = raw.at[148 + 164]
      /\ 196 \in DOMAIN rest.at /\ rest.at[196] = raw.at[148 + 196]
      /\ hook # <<>> =>
           228 \in DOMAIN rest.at /\ rest.at[228] = raw.at[148 + 228]
  BY <1>4, <1>5, CellOfRest, SMTT(30) DEF HEADER_SIZE
<1> HIDE DEF rest, m
<1>7. /\ Slice(rest, 4, 36) = raw.at[152].v
      /\ Slice(rest, 36, 68) = raw.at[184].v
      /\ Slice(rest, 68, 100) = raw.at[216].v
      /\ Slice(rest, 100, 132) = raw.at[248].v
      /\ Slice(rest, 132, 164) = raw.at[280].v
      /\ Slice(rest, 164, 196) = raw.at[312].v
      /\ Slice(rest, 196, 228) = raw.at[344].v
  <2>1. /\ raw.at[152].w = 32 /\ raw.at[184].w = 32 /\ raw.at[216].w = 32
        /\ raw.at[248].w = 32 /\ raw.at[280].w = 32 /\ raw.at[312].w = 32
        /\ raw.at[344].w = 32
    BY SMTT(30) DEF MessageCells, HasCell, Cell
  <2> QED  BY <1>6, <2>1 DEF Slice
<1>8. (IF rest.len = MIN_SIZE THEN <<>> ELSE Slice(rest, 228, rest.len)) = hook
  <2>1. CASE hook = <<>>  BY <1>2, <1>3, <2>1 DEF MIN_SIZE
  <2>2. CASE hook # <<>>
    <3>1. Len(hook) # 0  BY <2>2
    <3>2. rest.at[228] = Cell(Len(hook), hook)
      BY <1>6, <2>2 DEF MessageCells
    <3>3. Slice(rest, 228, rest.len) = hook
      BY <1>2, <1>3, <1>6, <2>2, <3>2 DEF Slice, Cell
    <3> QED  BY <1>2, <1>3, <3>1, <3>3 DEF MIN_SIZE
  <2> QED  BY <2>1, <2>2
<1>9. m.body = [version |-> 1, burn_token |-> raw.at[152].v,
         mint_recipient |-> raw.at[184].v, amount |-> raw.at[216].v,
         message_sender |-> raw.at[248].v, max_fee |-> raw.at[280].v,
         fee_executed |-> raw.at[312].v, expiration_block |-> raw.at[344].v,
         hook_data |-> hook]
  BY <1>1, <1>7, <1>8 DEF BodyRead
<1>10. m.header = MessageHeader(FromU32Arms[raw.at[4].v],
         FromU32Arms[raw.at[8].v], raw.at[12].v, raw.at[44].v, raw.at[76].v,
         raw.at[108].v, raw.at[140].v, raw.at[144].v)
  <2>1. /\ raw.at[4].w = 4 /\ raw.at[8].w = 4 /\ raw.at[12].w = 32
        /\ raw.at[44].w = 32 /\ raw.at[76].w = 32 /\ raw.at[108].w = 32
        /\ raw.at[140].w = 4 /\ raw.at[144].w = 4
    BY SMTT(30) DEF MessageCells, HasCell, Cell
  <2>2. {4, 8, 12, 44, 76, 108, 140, 144} \subseteq DOMAIN raw.at
    BY DEF MessageCells
  <2>3. /\ ReadU32(raw, 4) = raw.at[4].v /\ ReadU32(raw, 8) = raw.at[8].v
        /\ Slice(raw, 12, 44) = raw.at[12].v /\ Slice(raw, 44, 76) = raw.at[44].v
        /\ Slice(raw, 76, 108) = raw.at[76].v
        /\ Slice(raw, 108, 140) = raw.at[108].v
        /\ ReadU32(raw, 140) = raw.at[140].v /\ ReadU32(raw, 144) = raw.at[144].v
    BY <2>1, <2>2 DEF ReadU32, Slice
  <2> QED  BY <1>1, <2>3 DEF HeaderRead
<1>11. /\ raw.at[0].v = 1 /\ raw.at[148].v = 1
       /\ AsU32[FromU32Arms[raw.at[4].v]] = raw.at[4].v
       /\ AsU32[FromU32Arms[raw.at[8].v]] = raw.at[8].v
  BY DomainNumbersInvert DEF WellFormed, HEADER_SIZE
<1>12. /\ raw.at[0] = Cell(4, m.header.version)
       /\ raw.at[4] = Cell(4, AsU32[m.header.source_domain])
       /\ raw.at[8] = Cell(4, AsU32[m.header.destination_domain])
       /\ raw.at[12] = Cell(32, m.header.nonce)
       /\ raw.at[44] = Cell(32, m.header.sender)
       /\ raw.at[76] = Cell(32, m.header.recipient)
       /\ raw.at[108] = Cell(32, m.header.destination_caller)
       /\ raw.at[140] = Cell(4, m.header.min_finality_threshold)
       /\ raw.at[144] = Cell(4, m.header.finality_threshold_executed)
  <2>1. /\ m.header.version = 1
        /\ m.header.source_domain = FromU32Arms[raw.at[4].v]
        /\ m.header.destination_domain = FromU32Arms[raw.at[8].v]
        /\ m.header.nonce = raw.at[12].v /\ m.header.sender = raw.at[44].v
        /\ m.header.recipient = raw.at[76].v
        /\ m.header.destination_caller = raw.at[108].v
        /\ m.header.min_finality_threshold = raw.at[140].v
        /\ m.header.finality_threshold_executed = raw.at[144].v
    BY <1>10 DEF MessageHeader, CCTP_V2_MESSAGE_VERSION
  <2> QED  BY <1>11, <2>1 DEF MessageCells, HasCell
<1>13. /\ raw.at[148] = Cell(4, m.body.version)
       /\ raw.at[152] = Cell(32, m.body.burn_token)
       /\ raw.at[184] = Cell(32, m.body.mint_recipient)
       /\ raw.at[216] = Cell(32, m.body.amount)
       /\ raw.at[248] = Cell(32, m.body.message_sender)
       /\ raw.at[280] = Cell(32, m.body.max_fee)
       /\ raw.at[312] = Cell(32, m.body.fee_executed)
       /\ raw.at[344] = Cell(32, m.body.expiration_block)
       /\ m.body.hook_data = hook
  BY <1>9, <1>11 DEF MessageCells, HasCell
<1>14. HoldsMessage(raw, m)
  BY <1>12, <1>13 DEF HoldsMessage, MessageCells
<1> QED  BY <1>13, <1>14 DEF m

\* A well-formed byte string is the encoding of the message it is parsed to,
\* so that the hash of that message is its hash, and the header and the body
\* are found in it apart (protocol/message.rs: encode, message_hash, parse).
THEOREM ParsedMessageIsEncoded ==
  ASSUME NEW raw, MessageBytes(raw), WellFormed(raw)
  PROVE  EncodersInvertOn(raw)
<1> DEFINE m    == MessageRead(raw)
           rest == SliceFrom(raw, HEADER_SIZE)
<1>1. PICK hook \in Seq({"byte"}) : MessageCells(raw, hook)  BY DEF MessageBytes
<1>2. LaidOut(raw)  BY <1>1, CellsAreLaidOut
<1>3. Parse(raw).val = m  BY <1>2, DecodersReadTheSame, Results
<1>4. HoldsMessage(raw, m) /\ m.body.hook_data \in Seq({"byte"})
  BY <1>1, ReadIsHeld
<1> HIDE DEF m
<1>5. Encode(m) = raw
  <2>1. HoldsMessage(Encode(m), m)  BY <1>4, EncodeHolds
  <2> QED  BY <1>4, <2>1, HeldBytesAreUnique
<1>6. EncodeHeader(m.header).len = HEADER_SIZE
  BY HeaderLayout DEF HoldsHeader, HEADER_SIZE
<1>7. rest = EncodeBody(m.body)
  <2>1. HoldsBody(rest, m.body)  BY <1>4, RestHoldsBody
  <2>2. HoldsBody(EncodeBody(m.body), m.body)  BY <1>4, BodyLayout
  <2> QED  BY <2>1, <2>2, HeldBodiesAreUnique
<1>8. ParseBody(rest) = Ok(m.body)
  <2>1. BodyIsAccepted(rest, HeaderRead(raw).source_domain,
                       HeaderRead(raw).destination_domain)
    BY <1>2, AcceptedIsWellFormed
  <2>2. rest.len \in Nat
    BY <1>1 DEF MessageCells, SliceFrom, HEADER_SIZE
  <2>3. ParseBody(rest) = Ok(BodyRead(rest))
    BY <2>1, <2>2, BodyDecoding DEF BodyIsAccepted
  <2> QED  BY <2>3 DEF m, MessageRead
<1> QED
  BY <1>3, <1>5, <1>6, <1>7, <1>8 DEF EncodersInvertOn, MessageHash

---------------------------------------------------------------------------
(* The summary, and the samples of MessageCodec.                           *)

\* The summary of a well-formed message lacks an address only where its domain
\* has none, and never drops one for its padding (ParsedV2MessageSummary).
THEOREM SummaryKeepsEveryAddress ==
  ASSUME NEW raw, LaidOut(raw), WellFormed(raw)
  PROVE  SummaryKeepsAddresses(raw)
<1> DEFINE m == MessageRead(raw)
           h == m.header
           b == m.body
           s == Summary(m)
           rest == SliceFrom(raw, HEADER_SIZE)
<1>1. SummaryParse(raw).val = s
  BY DecodersReadTheSame, Results DEF SummaryParse, AndThen
<1>2. /\ s.source_domain = h.source_domain
      /\ s.destination_domain = h.destination_domain
      /\ s.burn_token = Projection(h.source_domain, b.burn_token)
      /\ s.mint_recipient = Projection(h.destination_domain, b.mint_recipient)
      /\ s.message_sender = Projection(h.source_domain, b.message_sender)
  BY DEF Summary
<1> HIDE DEF s
<1>3. /\ IsEvm(h.source_domain) =>
           /\ IsCanonicalEvmAddressWord(b.burn_token)
           /\ IsCanonicalEvmAddressWord(b.message_sender)
      /\ IsEvm(h.destination_domain) =>
           IsCanonicalEvmAddressWord(b.mint_recipient)
  <2>1. h = HeaderRead(raw) /\ b = BodyRead(rest)  BY DEF MessageRead
  <2>2. BodyIsAccepted(rest, h.source_domain, h.destination_domain)
    BY <2>1, AcceptedIsWellFormed
  <2>3. /\ b.burn_token = Slice(rest, 4, 36)
        /\ b.mint_recipient = Slice(rest, 36, 68)
        /\ b.message_sender = Slice(rest, 100, 132)
    BY <2>1 DEF BodyRead
  <2> QED  BY <2>2, <2>3 DEF BodyIsAccepted
<1> HIDE DEF m
<1>4. \A domain, word :
        Projection(domain, word).ok <=>
          IsEvm(domain) /\ IsCanonicalEvmAddressWord(word)
  BY Results DEF Projection, DecodeAddressWord
<1> QED  BY <1>1, <1>2, <1>3, <1>4 DEF SummaryKeepsAddresses

\* An encoded message has the cells of a message.
LEMMA EncodedCells ==
  ASSUME NEW m, m.body.hook_data \in Seq({"byte"})
  PROVE  MessageCells(Encode(m), m.body.hook_data)
<1> DEFINE raw == Encode(m)
<1>1. HoldsMessage(raw, m)  BY EncodeHolds
<1> HIDE DEF raw
<1>2. /\ HasCell(raw, 0, 4) /\ HasCell(raw, 4, 4) /\ HasCell(raw, 8, 4)
      /\ HasCell(raw, 12, 32) /\ HasCell(raw, 44, 32) /\ HasCell(raw, 76, 32)
      /\ HasCell(raw, 108, 32) /\ HasCell(raw, 140, 4) /\ HasCell(raw, 144, 4)
      /\ HasCell(raw, 148, 4) /\ HasCell(raw, 152, 32) /\ HasCell(raw, 184, 32)
      /\ HasCell(raw, 216, 32) /\ HasCell(raw, 248, 32) /\ HasCell(raw, 280, 32)
      /\ HasCell(raw, 312, 32) /\ HasCell(raw, 344, 32)
  BY <1>1 DEF HoldsMessage, HasCell, Cell
<1>3. MessageCells(raw, m.body.hook_data)
  BY <1>1, <1>2 DEF HoldsMessage, MessageCells
<1> QED  BY <1>3 DEF raw

\* Another value in one of the first cells leaves the cells what they are.
LEMMA WithKeepsCells ==
  ASSUME NEW raw, NEW hook \in Seq({"byte"}), MessageCells(raw, hook),
         NEW offset \in {0, 4, 8, 148}, NEW value
  PROVE  MessageCells(With(raw, offset, value), hook)
<1> DEFINE new == With(raw, offset, value)
<1>1. new = [raw EXCEPT !.at[offset].v = value]  BY DEF With
<1>2. raw = [len |-> raw.len, at |-> raw.at]
      /\ raw.at = [o \in DOMAIN raw.at |-> raw.at[o]]
  BY DEF MessageCells
<1>3. new = [len |-> raw.len, at |-> [raw.at EXCEPT ![offset].v = value]]
  BY <1>1, <1>2
<1>4. raw.at[offset] = [w |-> 4, v |-> raw.at[offset].v]
  BY DEF MessageCells, HasCell, Cell
<1>5. offset \in DOMAIN raw.at  BY DEF MessageCells
<1> HIDE DEF new
<1>6. /\ new.at = [new.at EXCEPT ![offset] = new.at[offset]]
      /\ DOMAIN new.at = DOMAIN raw.at
      /\ new.at = [o \in DOMAIN new.at |-> new.at[o]]
      /\ new.at[offset] = [w |-> 4, v |-> value]
      /\ \A o \in DOMAIN raw.at : o # offset => new.at[o] = raw.at[o]
  BY <1>2, <1>3, <1>4, <1>5
<1>7. \A o \in DOMAIN raw.at : \A w : HasCell(raw, o, w) => HasCell(new, o, w)
  <2> SUFFICES ASSUME NEW o \in DOMAIN raw.at, NEW w, HasCell(raw, o, w)
               PROVE  HasCell(new, o, w)
    OBVIOUS
  <2>1. CASE o = offset
    BY <1>4, <1>6, <2>1 DEF HasCell, Cell
  <2>2. CASE o # offset  BY <1>6, <2>2 DEF HasCell
  <2> QED  BY <2>1, <2>2
<1>8. /\ {0, 4, 8, 12, 44, 76, 108, 140, 144} \subseteq DOMAIN raw.at
      /\ {148, 152, 184, 216, 248, 280, 312, 344} \subseteq DOMAIN raw.at
      /\ hook # <<>> => 376 \in DOMAIN raw.at
  BY DEF MessageCells
<1>9. /\ HasCell(new, 0, 4) /\ HasCell(new, 4, 4) /\ HasCell(new, 8, 4)
      /\ HasCell(new, 12, 32) /\ HasCell(new, 44, 32) /\ HasCell(new, 76, 32)
      /\ HasCell(new, 108, 32) /\ HasCell(new, 140, 4) /\ HasCell(new, 144, 4)
      /\ HasCell(new, 148, 4) /\ HasCell(new, 152, 32) /\ HasCell(new, 184, 32)
      /\ HasCell(new, 216, 32) /\ HasCell(new, 248, 32) /\ HasCell(new, 280, 32)
      /\ HasCell(new, 312, 32) /\ HasCell(new, 344, 32)
  BY <1>7, <1>8 DEF MessageCells
<1>10. hook # <<>> => new.at[376] = raw.at[376]  BY <1>6, <1>8
<1>11. new = [len |-> raw.len, at |-> [o \in DOMAIN new.at |-> new.at[o]]]
  BY <1>3, <1>6
<1>12. MessageCells(new, hook)
  BY <1>6, <1>9, <1>10, <1>11 DEF MessageCells
<1> QED  BY <1>12 DEF new

\* Bytes cut off before the end of the header or of the body.
LEMMA TruncatedIsLaidOut ==
  ASSUME NEW raw, NEW hook \in Seq({"byte"}), MessageCells(raw, hook),
         NEW len \in {HEADER_SIZE - 1, HEADER_SIZE + MIN_SIZE - 1}
  PROVE  LaidOut(Truncated(raw, len)) /\ ~ WellFormed(Truncated(raw, len))
<1> DEFINE cut == Truncated(raw, len)
<1>1. len \in {147, 375}  BY DEF HEADER_SIZE, MIN_SIZE
<1>2. /\ cut.len = len
      /\ cut.at = [o \in {k \in DOMAIN raw.at : k + raw.at[k].w =< len} |->
                     raw.at[o]]
  BY DEF Truncated
<1> HIDE DEF cut
<1>3. DOMAIN cut.at \subseteq Nat
  BY <1>2, CellsAreLaidOut DEF LaidOut
<1>4. ASSUME len = 375
      PROVE  IsCell(cut, 0, 4) /\ IsCell(cut, 4, 4) /\ IsCell(cut, 8, 4)
  <2>1. IsCell(raw, 0, 4) /\ IsCell(raw, 4, 4) /\ IsCell(raw, 8, 4)
    BY DEF MessageCells, HasCell, IsCell, Cell
  <2> QED  BY <1>2, <1>4, <2>1 DEF IsCell
<1>5. LaidOut(cut)
  BY <1>1, <1>2, <1>3, <1>4 DEF LaidOut, HEADER_SIZE, MIN_SIZE
<1>6. ~ WellFormed(cut)
  BY <1>1, <1>2 DEF WellFormed, HEADER_SIZE, MIN_SIZE
<1> QED  BY <1>5, <1>6 DEF cut

\* Every sample is laid out as a message, and a whole one when well formed.
LEMMA SamplesAreBytes ==
  ASSUME NEW raw \in SampleRaws
  PROVE  LaidOut(raw) /\ (WellFormed(raw) => MessageBytes(raw))
<1>1. PICK m \in SampleMessages :
        LET full == Encode(m)
        IN raw \in {full, With(full, 0, 0), With(full, 4, 4), With(full, 8, 99),
                    With(full, HEADER_SIZE, 2), Truncated(full, HEADER_SIZE - 1),
                    Truncated(full, HEADER_SIZE + MIN_SIZE - 1)}
  BY DEF SampleRaws
<1> DEFINE full == Encode(m)
           hook == m.body.hook_data
<1>2. hook \in Seq({"byte"})
  <2>1. \E data \in {<<>>, <<"byte">>} : \E header, token, recipient, sender :
          m = [header |-> header,
               body   |-> [version |-> 1, burn_token |-> token,
                 mint_recipient |-> recipient, amount |-> 7,
                 message_sender |-> sender, max_fee |-> 3,
                 fee_executed |-> 2, expiration_block |-> 1,
                 hook_data |-> data]]
    BY DEF SampleMessages
  <2>2. hook = <<>> \/ hook = <<"byte">>  BY <2>1
  <2>3. <<>> \in Seq({"byte"}) /\ <<"byte">> \in Seq({"byte"})  OBVIOUS
  <2> HIDE DEF hook
  <2> QED  BY <2>2, <2>3
<1>3. MessageCells(full, hook)  BY <1>2, EncodedCells
<1> HIDE DEF full, hook
<1>4. CASE raw = full
  BY <1>2, <1>3, <1>4, CellsAreLaidOut DEF MessageBytes
<1>5. CASE raw \in {With(full, 0, 0), With(full, 4, 4), With(full, 8, 99),
                    With(full, HEADER_SIZE, 2)}
  <2>1. MessageCells(raw, hook)
    BY <1>2, <1>3, <1>5, WithKeepsCells DEF HEADER_SIZE
  <2> QED  BY <1>2, <2>1, CellsAreLaidOut DEF MessageBytes
<1>6. CASE raw \in {Truncated(full, HEADER_SIZE - 1),
                    Truncated(full, HEADER_SIZE + MIN_SIZE - 1)}
  BY <1>2, <1>3, <1>6, TruncatedIsLaidOut
<1> QED  BY <1>1, <1>4, <1>5, <1>6 DEF full

\* All that CodecAgrees checks.
LEMMA CodecAgreement ==
  DecodersAgree /\ EncodersInvert /\ BuildersCommute /\ SummariesKeepAddresses
<1>1. DecodersAgree
  BY SamplesAreBytes, DecodersAgreeOnBytes DEF DecodersAgree
<1>2. EncodersInvert
  BY SamplesAreBytes, ParsedMessageIsEncoded DEF EncodersInvert, WellFormedRaws
<1>3. BuildersCommute
  BY DEF BuildersCommute, WithHookData, WithMaxFee, NewWithFastTransfer,
         NewWithHooks, BurnMessage
<1>4. SummariesKeepAddresses
  BY SamplesAreBytes, SummaryKeepsEveryAddress
  DEF SummariesKeepAddresses, WellFormedRaws
<1> QED  BY <1>1, <1>2, <1>3, <1>4
=============================================================================
