------------------------------ MODULE Str2Int -------------------------------
(***************************************************************************)
(* str2int (json.c), and the number a request should be read as.           *)
(*                                                                         *)
(* tcpecho_thread gives str2int the payload pointer of a received pbuf,    *)
(* without its length and without a terminating zero.  A fragment is the   *)
(* memory from there to the end of the packet buffer together with the     *)
(* length of the payload: behind the payload may lie the padding of a      *)
(* short frame, and what earlier frames left.  Characters are their codes. *)
(***************************************************************************)
EXTENDS Integers, Sequences, FiniteSetsExt

CONSTANTS BufLen,       \* bytes of the buffer from the payload on
          INT_MAX       \* 2^31 - 1: the greatest int

ASSUME Str2IntAssumption == BufLen \in Nat /\ INT_MAX \in Nat

Buffer == [1 .. BufLen -> 0 .. 255]
Fragment == [buf : Buffer, len : 1 .. BufLen]

\* Signed arithmetic that overflows wraps on this processor.
INT_MIN == -INT_MAX - 1
Wrap(x) == ((x - INT_MIN) % (2 * (INT_MAX + 1))) + INT_MIN
Ints == INT_MIN .. INT_MAX

IsSign(c) == c = 43 \/ c = 45

IsDigit(c) == c >= 48 /\ c <= 57

\* The bytes the first loop passes over: up to the first that is no sign.
SignLoop(b) == Min({k \in 0 .. BufLen : k < BufLen => ~IsSign(b[k + 1])})

\* Mutant: a second minus does not undo the first.
PuissSetsMinus(b) ==
    LET puiss[k \in 0 .. BufLen] ==
            IF k = 0 THEN 1 ELSE IF b[k] = 45 THEN -1 ELSE puiss[k - 1]
    IN  puiss

\* puiss when k signs have been read.
Puiss(b) ==
    LET puiss[k \in 0 .. BufLen] ==
            IF k = 0 THEN 1 ELSE IF b[k] = 45 THEN puiss[k - 1] * (-1) ELSE puiss[k - 1]
    IN  puiss

\* The bytes both loops pass over.
DigitLoop(b, s) == Min({k \in s .. BufLen : k < BufLen => ~IsDigit(b[k + 1])})

\* result when k digits have been read behind s signs.
Result(b, s) ==
    LET result[k \in 0 .. BufLen - s] ==
            IF k = 0 THEN 0 ELSE Wrap(result[k - 1] * 10 + (b[s + k] - 48))
    IN  result

\* What str2int may return.  Past the buffer it reads whatever lies there.
str2int(b) ==
    LET s == SignLoop(b)
        e == DigitLoop(b, s)
    IN  IF e = BufLen THEN Ints ELSE {Wrap(Result(b, s)[e - s] * Puiss(b)[s])}

-----------------------------------------------------------------------------
(* The reference: signs, then digits, by position. *)

Payload(f) == [i \in 1 .. f.len |-> f.buf[i]]

SignsEnd(p) == Max({s \in 0 .. Len(p) : \A i \in 1 .. s : IsSign(p[i])})

DigitsEnd(p) == Max({e \in SignsEnd(p) .. Len(p) :
                        \A i \in SignsEnd(p) + 1 .. e : p[i] \in 48 .. 57})

\* The number ends inside the payload, where another character follows it, or
\* the payload is followed by the zeros that pad a short frame.  Neither need
\* be so: nothing pads the parts of a long request that netbuf_next reaches.
Delimited(f) ==
    \/ DigitsEnd(Payload(f)) < f.len
    \/ f.len < BufLen /\ f.buf[f.len + 1] = 0

\* The places of a number: ones, tens, hundreds, ...
Places(n) ==
    LET place[k \in 0 .. n] == IF k = 0 THEN 1 ELSE 10 * place[k - 1]
    IN  place

\* What the last k of the digits in s + 1 .. e amount to, for every k.
Endings(p, s, e) ==
    LET sum[k \in 0 .. e - s] ==
            IF k = 0 THEN 0 ELSE sum[k - 1] + (p[e - k + 1] - 48) * Places(e - s)[k - 1]
    IN  sum

Minuses(p, s) == {i \in 1 .. s : p[i] = 45}

Value(p) ==
    LET s == SignsEnd(p)
        e == DigitsEnd(p)
        magnitude == Endings(p, s, e)[e - s]
    IN  IF Cardinality(Minuses(p, s)) % 2 = 0 THEN magnitude ELSE -magnitude

=============================================================================
