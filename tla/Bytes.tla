-------------------------------- MODULE Bytes --------------------------------
(***************************************************************************)
(* What the functions that run over the bytes of a pbuf chain compute: the *)
(* checksums of inet_chksum.c (algorithm 2, little endian) and the copying *)
(* and searching functions of pbuf.c.  A chain is a sequence of pbufs, of  *)
(* which only the parity of the payload's address and the bytes count.     *)
(* Each initial state is one input; there is nothing to step.              *)
(***************************************************************************)
EXTENDS Integers, Sequences, SequencesExt

CONSTANTS
  ByteValues,          \* 256 in the code
  MaxPbufs, MaxBytes,  \* of an input: pbufs, and bytes in all of them
  MaxPbufLen

ASSUME BytesAssumption == ByteValues \in Nat \ {0, 1} /\ MaxPbufs \in Nat /\ MaxBytes \in Nat

VARIABLE input
bytesVars == <<input>>

ByteSet == 0 .. ByteValues - 1
WordValues == ByteValues * ByteValues
SumOver(s) == FoldLeft(LAMBDA a, b : a + b, 0, s)
TotLen(c) == SumOver([i \in DOMAIN c |-> Len(c[i].data)])
Flat(c) == FlattenSeq([i \in DOMAIN c |-> c[i].data])
BytesInputs ==
  UNION {{c \in [1 .. n -> [odd : BOOLEAN, data : BoundedSeq(ByteSet, MaxPbufLen)]] : TotLen(c) <= MaxBytes} : n \in 1 .. MaxPbufs}
NoInput == <<>>
BytesInit == input \in BytesInputs

-----------------------------------------------------------------------------
(* inet_chksum.c *)
FOLD_U32T(u) == (u \div WordValues) + (u % WordValues)
SWAP_BYTES_IN_WORD(w) == (w % ByteValues) * ByteValues + ((w \div ByteValues) % ByteValues)
Complement(w) == WordValues - 1 - (w % WordValues)

(* The 16-bit words of s in memory order, without a last single byte. *)
WordsOf(s) == [i \in 1 .. Len(s) \div 2 |-> s[2 * i - 1] + ByteValues * s[2 * i]]

(* From an odd address the first byte is taken alone as a high byte, so    *)
(* the whole sum is byte swapped, and swapped back in the end.             *)
lwip_standard_chksum(odd, s) ==
  LET first == IF odd /\ s # <<>> THEN ByteValues * s[1] ELSE 0
      rest  == IF odd /\ s # <<>> THEN Tail(s) ELSE s
      last  == IF Len(rest) % 2 = 1 THEN rest[Len(rest)] ELSE 0
      sum   == FOLD_U32T(FOLD_U32T(SumOver(WordsOf(rest)) + first + last)) IN
  IF odd THEN SWAP_BYTES_IN_WORD(sum) ELSE sum

(* The sum over a chain: a pbuf of odd length moves the bytes behind it to *)
(* the other half of their words.                                          *)
AddPbuf(acc, odd, s, len) ==
  LET sum == FOLD_U32T(acc.sum + lwip_standard_chksum(odd, s)) IN
  IF len % 2 = 1 THEN [sum |-> SWAP_BYTES_IN_WORD(sum), swapped |-> ~acc.swapped]
  ELSE [acc EXCEPT !.sum = sum]
Unswapped_not(acc) == acc.sum
Unswapped(acc) == IF acc.swapped THEN SWAP_BYTES_IN_WORD(acc.sum) ELSE acc.sum
NoSum == [sum |-> 0, swapped |-> FALSE]

inet_chksum_pbuf(c) ==
  Complement(Unswapped(FoldLeft(LAMBDA acc, q : AddPbuf(acc, q.odd, q.data, Len(q.data)), NoSum, c)))

(* inet_chksum_pseudo and inet_chksum_pseudo_partial; header stands for    *)
(* the sum of the words of the pseudo header, len for chksum_len.          *)
inet_chksum_pseudo_partial(c, header, len) ==
  LET Part(acc, q) ==
        IF acc.left = 0 THEN acc
        ELSE LET n == IF Len(q.data) > acc.left THEN acc.left ELSE Len(q.data) IN
             [left |-> acc.left - n, sum |-> AddPbuf(acc.sum, q.odd, SubSeq(q.data, 1, n), Len(q.data))] IN
  Complement(FOLD_U32T(FOLD_U32T(Unswapped(FoldLeft(Part, [left |-> len, sum |-> NoSum], c).sum) + header)))
inet_chksum_pseudo(c, header) == inet_chksum_pseudo_partial(c, header, TotLen(c))

-----------------------------------------------------------------------------
(* pbuf.c *)
Result(err, data) == [err |-> err, data |-> data]
NOT_FOUND == -1      \* 0xFFFF

(* pbuf_copy into a chain whose pbufs have the lengths lens, from position *)
(* (j, oj) of c to position (i, oi).  A pbuf that ends its packet must end *)
(* its chain: LWIP_ERROR, which with assertions on aborts the program; err *)
(* is what it would return.                                                *)
EndsEarly(lens, i) == i < Len(lens) /\ SumOver(SubSeq(lens, i + 1, Len(lens))) = 0
RECURSIVE CopyFrom(_, _, _, _, _, _)
CopyFrom(to, lens, i, oi, j, oj) ==
  LET from == [k \in DOMAIN input |-> Len(input[k].data)]
      n  == IF lens[i] - oi >= from[j] - oj THEN from[j] - oj ELSE lens[i] - oi
      to2 == to \o SubSeq(input[j].data, oj + 1, oj + n)
      j2 == IF oj + n >= from[j] THEN j + 1 ELSE j
      i2 == IF oi + n = lens[i] THEN i + 1 ELSE i IN
  IF i2 > Len(lens) /\ j2 <= Len(from) THEN Result("ERR_ARG", to2)
  ELSE IF j2 <= Len(from) /\ EndsEarly(from, j2) THEN Result("ERR_VAL", to2)
  ELSE IF i2 <= Len(lens) /\ EndsEarly(lens, i2) THEN Result("ERR_VAL", to2)
  ELSE IF j2 > Len(from) THEN Result("ERR_OK", to2)
  ELSE CopyFrom(to2, lens, i2, IF i2 = i THEN oi + n ELSE 0, j2, IF j2 = j THEN oj + n ELSE 0)
pbuf_copy(lens) == IF SumOver(lens) < TotLen(input) THEN Result("ERR_ARG", <<>>) ELSE CopyFrom(<<>>, lens, 1, 0, 1, 0)
(* pbuf_coalesce asserts that the copy succeeded. *)
pbuf_coalesce ==
  LET r == pbuf_copy(<<TotLen(input)>>) IN
  IF Len(input) = 1 THEN Result("ERR_OK", Flat(input)) ELSE IF r.err = "ERR_OK" THEN r ELSE Result("abort", <<>>)

pbuf_copy_partial(c, len, offset) ==
  LET Part(acc, q) ==
        LET n == Len(q.data) - acc.offset IN
        IF acc.len = 0 THEN acc
        ELSE IF acc.offset # 0 /\ acc.offset >= Len(q.data) THEN [acc EXCEPT !.offset = @ - Len(q.data)]
        ELSE LET k == IF n > acc.len THEN acc.len ELSE n IN
             [data |-> acc.data \o SubSeq(q.data, acc.offset + 1, acc.offset + k), len |-> acc.len - k, offset |-> 0] IN
  FoldLeft(Part, [data |-> <<>>, len |-> len, offset |-> offset], c).data

(* pbuf_take: the data of the chain with s written over its beginning. *)
pbuf_take(c, s) ==
  LET Part(acc, q) ==
        LET n == IF Len(acc.rest) > Len(q.data) THEN Len(q.data) ELSE Len(acc.rest) IN
        [rest |-> SubSeq(acc.rest, n + 1, Len(acc.rest)),
         done |-> Append(acc.done, [q EXCEPT !.data = SubSeq(acc.rest, 1, n) \o SubSeq(@, n + 1, Len(@))])] IN
  FoldLeft(Part, [rest |-> s, done |-> <<>>], c).done

RECURSIVE Seek(_, _)
Seek(c, offset) ==
  IF c = <<>> \/ Len(c[1].data) > offset THEN [c |-> c, at |-> offset] ELSE Seek(Tail(c), offset - Len(c[1].data))
pbuf_get_at(c, offset) == LET q == Seek(c, offset) IN IF q.c = <<>> THEN 0 ELSE q.c[1].data[q.at + 1]
(* 0 if equal, else how many bytes are to be skipped. *)
pbuf_memcmp(c, offset, s) ==
  LET q == Seek(c, offset)
      differ == {i \in DOMAIN s : pbuf_get_at(q.c, q.at + i - 1) # s[i]} IN
  IF q.c = <<>> THEN NOT_FOUND ELSE IF differ = {} THEN 0 ELSE CHOOSE i \in differ : \A k \in differ : i <= k
RECURSIVE FindFrom(_, _, _)
FindFrom(c, s, i) ==
  IF i > TotLen(c) - Len(s) THEN NOT_FOUND
  ELSE LET plus == pbuf_memcmp(c, i, s) IN IF plus = 0 THEN i ELSE IF plus = NOT_FOUND THEN NOT_FOUND ELSE FindFrom(c, s, i + plus)
pbuf_memfind(c, s, offset) == IF TotLen(c) >= Len(s) + offset THEN FindFrom(c, s, offset) ELSE NOT_FOUND
pbuf_strstr(c, s) == IF s = <<>> THEN NOT_FOUND ELSE pbuf_memfind(c, s, 0)

-----------------------------------------------------------------------------
(* The one's complement sum of RFC 1071 over the words of s, the last byte *)
(* padded with zero.                                                       *)
OnesSum(s, more) ==
  LET sum == more + SumOver(WordsOf(IF Len(s) % 2 = 1 THEN Append(s, 0) ELSE s)) IN
  IF sum = 0 THEN 0 ELSE ((sum - 1) % (WordValues - 1)) + 1

Occurs(s, needle, at) == at + Len(needle) <= Len(s) /\ SubSeq(s, at + 1, at + Len(needle)) = needle

(* How a packet is cut into pbufs and where they lie in memory makes no    *)
(* difference: every checksum over the chain is that of the flat bytes,    *)
(* the copying functions deliver exactly the bytes asked for or refuse,    *)
(* which they do only to chains with an empty pbuf (pbuf_coalesce then     *)
(* fails its assertion at pbuf.c:1023 and aborts), and the searches        *)
(* report only a place where the needle is (they may miss one).            *)
BytesRight ==
  input # NoInput =>
    LET flat == Flat(input) IN
    /\ inet_chksum_pbuf(input) = Complement(OnesSum(flat, 0))
    /\ \A header \in {0, 1, WordValues + 1} :
         /\ inet_chksum_pseudo(input, header) = Complement(OnesSum(flat, header))
         /\ \A len \in 0 .. Len(flat) :
              inet_chksum_pseudo_partial(input, header, len) = Complement(OnesSum(SubSeq(flat, 1, len), header))
    /\ \A offset \in 0 .. Len(flat) + 1 :
         \A len \in 0 .. Len(flat) :
           pbuf_copy_partial(input, len, offset)
             = SubSeq(flat, offset + 1, IF offset + len > Len(flat) THEN Len(flat) ELSE offset + len)
    /\ \A len \in 0 .. Len(flat) :
         LET s == [i \in 1 .. len |-> 1 - (flat[len + 1 - i] % 2)]
             to == pbuf_take(input, s) IN
         Flat(to) = s \o SubSeq(flat, len + 1, Len(flat)) /\ TotLen(to) = TotLen(input)
    /\ \A lens \in {<<Len(flat)>>, <<1, Len(flat)>>, <<2, Len(flat) + 1>>} :
         LET r == pbuf_copy(lens) IN
         IF r.err = "ERR_OK" THEN r.data = flat ELSE \E i \in DOMAIN input : input[i].data = <<>>
    /\ \A needle \in UNION {[1 .. n -> ByteSet] : n \in 1 .. 2} : \A start \in 0 .. 1 :
         LET at == pbuf_memfind(input, needle, start) IN
         at = NOT_FOUND \/ (at >= start /\ Occurs(flat, needle, at))
    /\ pbuf_coalesce = Result("ERR_OK", flat) \/ (Len(input) > 1 /\ \E i \in DOMAIN input : input[i].data = <<>>)
    /\ LET at == pbuf_strstr(input, <<1, 0>>) IN at = NOT_FOUND \/ Occurs(flat, <<1, 0>>, at)

(* "a new, single pbuf ... or the old pbuf if allocation fails"            *)
(* (pbuf.c:1006): refuted, a chain with an empty pbuf aborts the program.  *)
Coalesces == input # NoInput => pbuf_coalesce.err # "abort"

(* pbuf_memfind finds a needle that is there: refuted, after a mismatch it *)
(* skips the bytes that matched.                                           *)
FindsFirst ==
  \A needle \in UNION {[1 .. n -> ByteSet] : n \in 1 .. 3} :
    pbuf_memfind(input, needle, 0) = NOT_FOUND => \A at \in 0 .. MaxBytes : ~Occurs(Flat(input), needle, at)
=============================================================================
