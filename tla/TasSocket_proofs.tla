--------------------------- MODULE TasSocket_proofs ---------------------------
(***************************************************************************)
(* Whatever sizes headers and bodies have, however they are cut, and       *)
(* however often the rest of one does not come: what an end of TasSocket   *)
(* reads are messages that it was sent, in order, each once.               *)
(*                                                                         *)
(* A reader that has lost its place takes parts of bodies for headers.     *)
(* What saves it is that a message is delivered only if the parts read are *)
(* exactly its own, that every message has its first part in the stream    *)
(* once, and that the reader never goes back.                              *)
(***************************************************************************)
EXTENDS TasSocket, SequenceTheorems, TLAPS

USE SocketAssumption DEF Size

-----------------------------------------------------------------------------
(* What holds of the parts of a stream of m messages.                      *)
Before(x, y) == x[1] < y[1] \/ (x[1] = y[1] /\ x[2] < y[2])

StreamOK(m, w) ==
    /\ m \in Nat
    /\ w \in Seq(Nat \X (1..Size))
    /\ \A i \in DOMAIN w : w[i][1] \in 1..m
    /\ \A i, j \in DOMAIN w : i < j => Before(w[i], w[j])

(* After t parts no message starts that is not later than n.               *)
Later(w, t, n) == \A i \in DOMAIN w : i > t /\ w[i][2] = 1 => w[i][1] > n

ReadOK(m, w, a, t, d) ==
    /\ StreamOK(m, w)
    /\ a \in Nat /\ t \in Nat /\ t <= a /\ a <= Len(w)
    /\ d \in Seq(Nat)
    /\ \A k \in DOMAIN d : d[k] \in 1..m /\ Later(w, t, d[k])
    /\ \A j, k \in DOMAIN d : j < k => d[j] < d[k]

(* What an end may be in the middle of: only the innermost can be reading, *)
(* and under a message that is read or handled are only writes, or the     *)
(* syncRequest that it was read for.                                       *)
Writes(s) == \A k \in DOMAIN s : s[k].at = "write"

Shape(s) ==
    /\ \A k \in DOMAIN s : s[k].at = "body" => k = 1
    /\ \A j, k \in DOMAIN s : j < k =>
         /\ s[j].at \in {"body", "handle", "handled"} =>
              s[k].at = "write" \/ (s[k].at = "sync" /\ k = j + 1)
         /\ s[j].at = "sync" => s[k].at = "write"

Floor(s) == s \in Seq(Frame) /\ (Writes(s) \/ (Syncs(s) /\ Writes(Tail(s))))

(* A body that is being read as its header says belongs to a later message *)
(* than any that was delivered.                                            *)
BodyOK(m, w, t, d, f) ==
    f.at = "body" /\ f.good =>
        /\ f.n \in 1..m /\ Later(w, t, f.n)
        /\ \A k \in DOMAIN d : d[k] < f.n

StackOK(m, w, t, d, s) ==
    /\ s \in Seq(Frame) /\ Shape(s)
    /\ \A k \in DOMAIN s : s[k].at = "handle" => s[k].n \in 1..m
    /\ s # <<>> => BodyOK(m, w, t, d, s[1])

ListenOK(l, s, o) ==
    /\ l \in BOOLEAN /\ o \in BOOLEAN
    /\ l => o /\ Writes(s)
    /\ s # <<>> => o

EndOK(m, w, a, t, d, s, l, o) ==
    ReadOK(m, w, a, t, d) /\ StackOK(m, w, t, d, s) /\ ListenOK(l, s, o)

End(e) == EndOK(Len(sent[e]), stream[e], arrived[e], taken[e], delivered[e],
                stack[e], listening[e], open[e])

Types ==
    /\ sent \in [Ends -> Seq(Message)]
    /\ stream \in [Ends -> Seq(Nat \X (1..Size))]
    /\ arrived \in [Ends -> Nat] /\ taken \in [Ends -> Nat]
    /\ listening \in [Ends -> BOOLEAN]
    /\ stack \in [Ends -> Seq(Frame)]
    /\ open \in [Ends -> BOOLEAN]
    /\ delivered \in [Ends -> Seq(Nat)]
    /\ calls \in Seq([n : Nat, reply : Nat])
    /\ timeouts \in 0..MaxTimeouts

(* The inductive invariant.                                                *)
SocketInv == Types /\ \A e \in Ends : End(e)

-----------------------------------------------------------------------------
(* A frame is put on top of others.                                        *)
LEMMA Push ==
    ASSUME NEW S, NEW s \in Seq(S), NEW f \in S
    PROVE  LET p == <<f>> \o s IN
           /\ p \in Seq(S) /\ p # <<>> /\ Len(p) = Len(s) + 1
           /\ DOMAIN p = 1..(Len(s) + 1)
           /\ p[1] = f /\ \A k \in DOMAIN s : p[k + 1] = s[k]
           /\ \A k \in DOMAIN p : k # 1 => k - 1 \in DOMAIN s /\ p[k] = s[k - 1]
           /\ Head(p) = f /\ Tail(p) = s
  OBVIOUS

LEMMA Pop ==
    ASSUME NEW S, NEW s \in Seq(S), s # <<>>
    PROVE  /\ Tail(s) \in Seq(S) /\ Head(s) \in S /\ Head(s) = s[1] /\ 1 \in DOMAIN s
           /\ \A k \in DOMAIN Tail(s) : k + 1 \in DOMAIN s /\ Tail(s)[k] = s[k + 1]
  OBVIOUS

LEMMA UnderReading ==
    ASSUME NEW s \in Seq(Frame), Shape(s), s # <<>>,
           Head(s).at \in {"body", "handle", "handled"}
    PROVE  Floor(Tail(s))
<1> DEFINE r == Tail(s)
<1>1. r \in Seq(Frame) /\ \A k \in DOMAIN r : k + 1 \in DOMAIN s /\ r[k] = s[k + 1]
  BY Pop
<1>2. 1 \in DOMAIN s /\ s[1].at \in {"body", "handle", "handled"}
  BY Pop
<1>3. \A k \in DOMAIN r : k \in Nat /\ 1 < k + 1
  BY <1>1
<1>4. \A k \in DOMAIN r : r[k].at = "write" \/ (r[k].at = "sync" /\ k = 1)
  BY <1>1, <1>2, <1>3 DEF Shape
<1>5. CASE r # <<>> /\ r[1].at = "sync"
  <2>1. Syncs(r)
    BY <1>1, <1>5, Pop DEF Syncs
  <2>2. \A k \in DOMAIN Tail(r) : k + 1 \in DOMAIN r /\ Tail(r)[k] = r[k + 1] /\ k + 1 # 1
    BY <1>1, <1>5, Pop
  <2> QED
    BY <1>1, <1>4, <2>1, <2>2 DEF Floor, Writes
<1>6. CASE r = <<>> \/ r[1].at # "sync"
  BY <1>1, <1>4, <1>6 DEF Floor, Writes
<1> QED
  BY <1>5, <1>6

LEMMA UnderSync ==
    ASSUME NEW s \in Seq(Frame), Shape(s), Syncs(s)
    PROVE  Tail(s) \in Seq(Frame) /\ Writes(Tail(s))
<1>1. Tail(s) \in Seq(Frame) /\ \A k \in DOMAIN Tail(s) :
        k + 1 \in DOMAIN s /\ Tail(s)[k] = s[k + 1] /\ 1 < k + 1
  BY Pop DEF Syncs
<1>2. 1 \in DOMAIN s /\ s[1].at = "sync"
  BY Pop DEF Syncs
<1> QED
  BY <1>1, <1>2 DEF Shape, Writes

LEMMA WritesShape ==
    ASSUME NEW s \in Seq(Frame), Writes(s)
    PROVE  Shape(s)
  BY DEF Writes, Shape

LEMMA FloorShape ==
    ASSUME NEW s, Floor(s)
    PROVE  s \in Seq(Frame) /\ Shape(s)
<1>1. s \in Seq(Frame)
  BY DEF Floor
<1>2. CASE Writes(s)
  BY <1>1, <1>2, WritesShape
<1>3. CASE Syncs(s) /\ Writes(Tail(s))
  <2>1. s # <<>> /\ s[1].at = "sync"
    BY <1>1, <1>3, Pop DEF Syncs
  <2>2. \A k \in DOMAIN s : k # 1 => s[k].at = "write"
    <3>1. \A k \in DOMAIN s : k # 1 => k - 1 \in DOMAIN Tail(s) /\ Tail(s)[k - 1] = s[k]
      BY <1>1, <2>1
    <3> QED
      BY <1>3, <3>1 DEF Writes
  <2> QED
    BY <1>1, <2>1, <2>2 DEF Shape
<1> QED
  BY <1>1, <1>2, <1>3 DEF Floor

(* A message is read, or handled, on top of what may be under it.          *)
LEMMA OnFloor ==
    ASSUME NEW s, Floor(s), NEW f \in Frame, f.at \in {"body", "handle", "handled"}
    PROVE  LET p == <<f>> \o s IN
           /\ p \in Seq(Frame) /\ Shape(p)
           /\ \A k \in DOMAIN p : k # 1 => p[k].at # "handle"
<1> DEFINE p == <<f>> \o s
<1>1. s \in Seq(Frame)
  BY DEF Floor
<1>2. /\ p \in Seq(Frame) /\ p[1] = f
      /\ \A k \in DOMAIN p : k # 1 => k - 1 \in DOMAIN s /\ p[k] = s[k - 1]
      /\ \A k \in DOMAIN p : k \in Nat /\ k >= 1
  BY <1>1, Push
<1>3. \A k \in DOMAIN s : s[k].at = "write" \/ (s[k].at = "sync" /\ k = 1)
  <2>1. CASE Writes(s)
    BY <2>1 DEF Writes
  <2>2. CASE Syncs(s) /\ Writes(Tail(s))
    <3>1. \A k \in DOMAIN s : k # 1 => k - 1 \in DOMAIN Tail(s) /\ Tail(s)[k - 1] = s[k]
      BY <1>1, <2>2 DEF Syncs
    <3>2. s[1].at = "sync"
      BY <1>1, <2>2, Pop DEF Syncs
    <3> QED
      BY <2>2, <3>1, <3>2 DEF Writes
  <2> QED
    BY <2>1, <2>2 DEF Floor
<1>4. \A k \in DOMAIN p : k # 1 => p[k].at = "write" \/ (p[k].at = "sync" /\ k = 2)
  BY <1>2, <1>3
<1> QED
  BY <1>2, <1>4 DEF Shape

LEMMA OnTop ==
    ASSUME NEW s \in Seq(Frame), Shape(s), s # <<>> => s[1].at # "body",
           NEW f \in Frame, f.at = "write"
    PROVE  <<f>> \o s \in Seq(Frame) /\ Shape(<<f>> \o s)
<1> DEFINE p == <<f>> \o s
<1>1. /\ p \in Seq(Frame) /\ p[1] = f
      /\ \A k \in DOMAIN p : k # 1 => k - 1 \in DOMAIN s /\ p[k] = s[k - 1]
      /\ \A k \in DOMAIN p : k \in Nat /\ k >= 1
  BY Push
<1>2. \A k \in DOMAIN p : p[k].at # "body"
  <2>1. \A k \in DOMAIN s : s[k].at # "body"
    BY DEF Shape
  <2> QED
    BY <1>1, <2>1
<1>3. ASSUME NEW j \in DOMAIN p, NEW k \in DOMAIN p, j < k
      PROVE  /\ p[j].at \in {"body", "handle", "handled"} =>
                  p[k].at = "write" \/ (p[k].at = "sync" /\ k = j + 1)
             /\ p[j].at = "sync" => p[k].at = "write"
  <2>1. CASE j = 1
    BY <1>1, <2>1
  <2>2. CASE j # 1
    <3>1. /\ j - 1 \in DOMAIN s /\ k - 1 \in DOMAIN s /\ j - 1 < k - 1
          /\ p[j] = s[j - 1] /\ p[k] = s[k - 1]
      BY <1>1, <1>3, <2>2
    <3>2. (k - 1 = (j - 1) + 1) => k = j + 1
      BY <1>1
    <3> QED
      BY <3>1, <3>2 DEF Shape
  <2> QED
    BY <2>1, <2>2
<1> QED
  BY <1>1, <1>2, <1>3 DEF Shape

LEMMA ShapeTail ==
    ASSUME NEW s \in Seq(Frame), Shape(s), s # <<>>
    PROVE  Tail(s) \in Seq(Frame) /\ Shape(Tail(s)) /\ \A k \in DOMAIN Tail(s) : Tail(s)[k].at # "body"
<1> DEFINE r == Tail(s)
<1>1. r \in Seq(Frame) /\ \A k \in DOMAIN r : k \in Nat /\ k >= 1 /\ k + 1 \in DOMAIN s /\ r[k] = s[k + 1]
  BY Pop
<1>2. \A k \in DOMAIN r : r[k].at # "body"
  BY <1>1 DEF Shape
<1>3. ASSUME NEW j \in DOMAIN r, NEW k \in DOMAIN r, j < k
      PROVE  /\ r[j].at \in {"body", "handle", "handled"} =>
                  r[k].at = "write" \/ (r[k].at = "sync" /\ k = j + 1)
             /\ r[j].at = "sync" => r[k].at = "write"
  <2>1. j + 1 \in DOMAIN s /\ k + 1 \in DOMAIN s /\ j + 1 < k + 1 /\ r[j] = s[j + 1] /\ r[k] = s[k + 1]
    BY <1>1, <1>3
  <2>2. k + 1 = (j + 1) + 1 => k = j + 1
    BY <1>1
  <2> QED
    BY <2>1, <2>2 DEF Shape
<1> QED
  BY <1>1, <1>2, <1>3 DEF Shape

-----------------------------------------------------------------------------
(* More arrives, or is read, or is delivered.                              *)
LEMMA Arrived ==
    ASSUME NEW m, NEW w, NEW a, NEW t, NEW d, ReadOK(m, w, a, t, d),
           NEW b \in Nat, a <= b, b <= Len(w)
    PROVE  ReadOK(m, w, b, t, d)
  BY DEF ReadOK, StreamOK

LEMMA LaterOn ==
    ASSUME NEW m, NEW w, StreamOK(m, w), NEW t \in Nat, NEW u \in Nat, t <= u,
           NEW n, Later(w, t, n)
    PROVE  Later(w, u, n)
  BY DEF Later, StreamOK

LEMMA Advance ==
    ASSUME NEW m, NEW w, NEW a, NEW t, NEW d, ReadOK(m, w, a, t, d),
           NEW u \in Nat, t <= u, u <= a
    PROVE  ReadOK(m, w, a, u, d)
<1>1. \A k \in DOMAIN d : Later(w, u, d[k])
  BY LaterOn DEF ReadOK
<1> QED
  BY <1>1 DEF ReadOK

LEMMA Delivers ==
    ASSUME NEW m, NEW w, NEW a, NEW t, NEW d, ReadOK(m, w, a, t, d),
           NEW n \in 1..m, Later(w, t, n), \A k \in DOMAIN d : d[k] < n
    PROVE  ReadOK(m, w, a, t, Append(d, n))
<1> DEFINE q == Append(d, n)
<1>1. d \in Seq(Nat) /\ m \in Nat /\ n \in Nat
  BY DEF ReadOK, StreamOK
<1>2. /\ q \in Seq(Nat) /\ DOMAIN q = 1..(Len(d) + 1) /\ q[Len(d) + 1] = n
      /\ \A k \in DOMAIN q : k # Len(d) + 1 => k \in DOMAIN d /\ q[k] = d[k]
  BY <1>1
<1>3. \A k \in DOMAIN q : q[k] \in 1..m /\ Later(w, t, q[k])
  BY <1>2 DEF ReadOK
<1>4. \A j, k \in DOMAIN q : j < k => q[j] < q[k]
  <2> SUFFICES ASSUME NEW j \in DOMAIN q, NEW k \in DOMAIN q, j < k
               PROVE  q[j] < q[k]
    OBVIOUS
  <2>1. j # Len(d) + 1
    BY <1>1, <1>2
  <2> QED
    BY <1>2, <2>1 DEF ReadOK
<1> QED
  BY <1>2, <1>3, <1>4 DEF ReadOK

(* A header that is one belongs to a message that comes after all that     *)
(* were delivered, and whose first part will not come again.               *)
LEMMA HeaderRead ==
    ASSUME Types, NEW e \in Ends, NEW m, NEW a, NEW t, NEW d,
           ReadOK(m, stream[e], a, t, d), a - t >= Header, NEW f \in Headers(e, t)
    PROVE  /\ f \in Frame /\ f.at = "body"
           /\ BodyOK(m, stream[e], t + Header, d, f)
<1> DEFINE w == stream[e]
           n == w[t + 1][1]
<1>1. /\ w \in Seq(Nat \X (1..(Header + Body))) /\ t \in Nat /\ a \in Nat /\ t + 1 \in DOMAIN w
      /\ m \in Nat /\ n \in Nat
  <2>1. w \in Seq(Nat \X (1..(Header + Body))) /\ t \in Nat /\ a \in Nat /\ m \in Nat /\ a <= Len(w)
    BY DEF ReadOK, StreamOK
  <2>2. t + 1 \in DOMAIN w
    BY <2>1
  <2> QED
    BY <2>1, <2>2
<1>2. CASE \A k \in 1..Header : stream[e][t + k] = <<n, k>>
  <2>1. f = [at |-> "body", n |-> n, need |-> Body, good |-> TRUE]
    BY <1>2 DEF Headers
  <2>2. w[t + 1] = <<n, 1>>
    BY <1>2
  <2>3. n \in 1..m
    BY <1>1 DEF ReadOK, StreamOK
  <2>4. \A k \in DOMAIN d : d[k] < n
    <3>1. \A k \in DOMAIN d : d[k] \in Nat /\ Later(w, t, d[k])
      BY <1>1 DEF ReadOK
    <3>2. t + 1 > t /\ w[t + 1][2] = 1
      BY <1>1, <2>2
    <3>3. \A k \in DOMAIN d : n > d[k]
      BY <1>1, <3>1, <3>2 DEF Later
    <3> QED
      BY <1>1, <3>1, <3>3
  <2>5. Later(w, t + Header, n)
    <3> SUFFICES ASSUME NEW i \in DOMAIN w, i > t + Header, w[i][2] = 1
                 PROVE  w[i][1] > n
      BY DEF Later
    <3>0. i \in Nat /\ w[i][1] \in Nat
      <4>1. DOMAIN w = 1..Len(w) /\ Len(w) \in Nat /\ w \in [1..Len(w) -> Nat \X (1..(Header + Body))]
        BY ONLY <1>1
      <4>2. w[i] \in Nat \X (1..(Header + Body))
        BY ONLY <4>1, i \in DOMAIN w
      <4>3. i \in Nat
        BY ONLY <4>1, i \in DOMAIN w
      <4> QED
        BY ONLY <4>2, <4>3
    <3>1. t + 1 < i
      BY <1>1, <3>0
    <3>2. Before(w[t + 1], w[i])
      BY <1>1, <3>1 DEF ReadOK, StreamOK
    <3> QED
      BY <1>1, <2>2, <3>0, <3>1, <3>2 DEF Before
  <2> QED
    BY <1>1, <2>1, <2>3, <2>4, <2>5 DEF BodyOK, Frame
<1>3. CASE ~\A k \in 1..Header : stream[e][t + k] = <<n, k>>
  <2>1. PICK k \in 1..(Header + Body) : f = [at |-> "body", n |-> 0, need |-> k, good |-> FALSE]
    BY <1>3 DEF Headers
  <2> QED
    BY <2>1 DEF BodyOK, Frame
<1> QED
  BY <1>2, <1>3

-----------------------------------------------------------------------------
(* What the operators do to the end they are called for; nothing to the    *)
(* other one.                                                              *)
Same(e) ==
    \A p \in Ends \ {e} : /\ taken'[p] = taken[p] /\ stack'[p] = stack[p]
                          /\ listening'[p] = listening[p]

Reached(e, a, d) ==
    EndOK(Len(sent[e]), stream[e], a, taken'[e], d, stack'[e], listening'[e], open[e])

StepTypes ==
    /\ taken' \in [Ends -> Nat] /\ stack' \in [Ends -> Seq(Frame)]
    /\ listening' \in [Ends -> BOOLEAN]

LEMMA ReadHeaderEnd ==
    ASSUME Types, NEW e \in Ends, NEW a, NEW t, NEW d, NEW fs,
           ReadOK(Len(sent[e]), stream[e], a, t, d), a - t >= Header,
           Floor(fs), open[e], ReadHeader(e, t, fs),
           listening' \in [Ends -> BOOLEAN], ~listening'[e],
           \A p \in Ends \ {e} : listening'[p] = listening[p]
    PROVE  Reached(e, a, d) /\ StepTypes /\ Same(e)
<1> DEFINE m == Len(sent[e])
           w == stream[e]
<1>1. PICK f \in Headers(e, t) : stack' = [stack EXCEPT ![e] = <<f>> \o fs]
  BY DEF ReadHeader
<1>2. taken' = [taken EXCEPT ![e] = t + Header]
  BY DEF ReadHeader
<1>3. f \in Frame /\ f.at = "body" /\ BodyOK(m, w, t + Header, d, f)
  BY <1>1, HeaderRead
<1>4. fs \in Seq(Frame) /\ <<f>> \o fs \in Seq(Frame) /\ Shape(<<f>> \o fs)
  BY <1>3, OnFloor, FloorShape
<1>5. t + Header \in Nat /\ t + Header <= a /\ t <= t + Header
  BY DEF ReadOK
<1>6. ReadOK(m, w, a, t + Header, d)
  BY <1>5, Advance
<1>7. taken'[e] = t + Header /\ stack'[e] = <<f>> \o fs
  BY <1>1, <1>2 DEF Types
<1>8. (<<f>> \o fs)[1] = f
  BY <1>3, <1>4, Push
<1>9. \A k \in DOMAIN (<<f>> \o fs) : (<<f>> \o fs)[k].at # "handle"
  BY <1>3, <1>8, OnFloor
<1>10. StackOK(m, w, t + Header, d, <<f>> \o fs)
  BY <1>3, <1>4, <1>8, <1>9 DEF StackOK
<1>11. ListenOK(listening'[e], stack'[e], open[e])
  BY DEF ListenOK, Types
<1>12. Reached(e, a, d)
  BY <1>6, <1>7, <1>10, <1>11 DEF Reached, EndOK
<1>13. StepTypes /\ Same(e)
  BY <1>1, <1>2, <1>4, <1>5 DEF StepTypes, Same, Types
<1> QED
  BY <1>12, <1>13

LEMMA ReadMessageDataEnd ==
    ASSUME Types, NEW e \in Ends, NEW a, NEW t, NEW d, NEW fs,
           ReadOK(Len(sent[e]), stream[e], a, t, d),
           fs \in Seq(Frame), Writes(fs), open[e], ReadMessageData(e, a, t, fs)
    PROVE  Reached(e, a, d) /\ StepTypes /\ Same(e)
<1>1. Floor(fs)
  BY DEF Floor
<1>2. CASE a - t < Header
  <2>1. /\ taken' = [taken EXCEPT ![e] = t] /\ stack' = [stack EXCEPT ![e] = fs]
        /\ listening' = [listening EXCEPT ![e] = TRUE]
    BY <1>2 DEF ReadMessageData
  <2>2. t \in Nat
    BY DEF ReadOK
  <2>3. Shape(fs) /\ (\A k \in DOMAIN fs : fs[k].at # "handle")
    BY WritesShape DEF Writes
  <2>4. fs # <<>> => fs[1].at = "write"
    BY DEF Writes
  <2>5. StackOK(Len(sent[e]), stream[e], t, d, fs)
    BY <2>3, <2>4 DEF StackOK, BodyOK
  <2>6. ListenOK(TRUE, fs, open[e])
    BY DEF ListenOK, Types
  <2>7. taken'[e] = t /\ stack'[e] = fs /\ listening'[e] = TRUE
    BY <2>1 DEF Types
  <2>8. Reached(e, a, d)
    BY <2>5, <2>6, <2>7 DEF Reached, EndOK
  <2>9. StepTypes /\ Same(e)
    BY <2>1, <2>2 DEF StepTypes, Same, Types
  <2> QED
    BY <2>8, <2>9
<1>3. CASE ~(a - t < Header)
  <2>1. listening' = [listening EXCEPT ![e] = FALSE] /\ ReadHeader(e, t, fs)
    BY <1>3 DEF ReadMessageData
  <2>2. /\ listening' \in [Ends -> BOOLEAN] /\ ~listening'[e]
        /\ \A p \in Ends \ {e} : listening'[p] = listening[p]
    BY <2>1 DEF Types
  <2>3. a - t >= Header
    BY <1>3 DEF ReadOK
  <2> QED
    BY <1>1, <2>1, <2>2, <2>3, ReadHeaderEnd
<1> QED
  BY <1>2, <1>3

LEMMA SyncReturnsEnd ==
    ASSUME Types, NEW e \in Ends, NEW a, NEW t, NEW d, NEW fs, NEW r \in Nat,
           ReadOK(Len(sent[e]), stream[e], a, t, d),
           fs \in Seq(Frame), Syncs(fs), Writes(Tail(fs)), open[e], SyncReturns(e, t, r, fs)
    PROVE  /\ Reached(e, a, d) /\ StepTypes /\ Same(e)
           /\ calls' \in Seq([n : Nat, reply : Nat])
<1> DEFINE gs == Tail(fs)
<1>1. /\ taken' = [taken EXCEPT ![e] = t] /\ stack' = [stack EXCEPT ![e] = gs]
      /\ listening' = [listening EXCEPT ![e] = TRUE]
      /\ calls' = Append(calls, [n |-> Head(fs).n, reply |-> r])
  BY DEF SyncReturns
<1>2. t \in Nat /\ gs \in Seq(Frame) /\ Head(fs) \in Frame
  BY Pop DEF ReadOK, Syncs
<1>3. Shape(gs) /\ (\A k \in DOMAIN gs : gs[k].at # "handle")
  BY <1>2, WritesShape DEF Writes
<1>4. gs # <<>> => gs[1].at = "write"
  <2>1. gs # <<>> => 1 \in DOMAIN gs
    BY <1>2
  <2> QED
    BY <2>1 DEF Writes
<1>5. StackOK(Len(sent[e]), stream[e], t, d, gs)
  BY <1>2, <1>3, <1>4 DEF StackOK, BodyOK
<1>6. ListenOK(TRUE, gs, open[e])
  BY DEF ListenOK, Types
<1>7. taken'[e] = t /\ stack'[e] = gs /\ listening'[e] = TRUE
  BY <1>1 DEF Types
<1>8. Reached(e, a, d)
  BY <1>5, <1>6, <1>7 DEF Reached, EndOK
<1>9. StepTypes /\ Same(e)
  BY <1>1, <1>2 DEF StepTypes, Same, Types
<1>10. [n |-> Head(fs).n, reply |-> r] \in [n : Nat, reply : Nat]
  BY <1>2 DEF Frame
<1>11. calls' \in Seq([n : Nat, reply : Nat])
  BY <1>1, <1>10 DEF Types
<1> QED
  BY <1>8, <1>9, <1>11

LEMMA GoOnEnd ==
    ASSUME Types, NEW e \in Ends, NEW t, NEW d, NEW fs,
           ReadOK(Len(sent[e]), stream[e], arrived[e], t, d),
           Floor(fs), open[e], GoOn(e, t, fs)
    PROVE  /\ Reached(e, arrived[e], d) /\ StepTypes /\ Same(e)
           /\ calls' \in Seq([n : Nat, reply : Nat])
<1>1. fs \in Seq(Frame)
  BY DEF Floor
<1>2. CASE Syncs(fs)
  <2>1. Writes(Tail(fs))
    <3>1. fs # <<>> /\ fs[1].at = "sync" /\ 1 \in DOMAIN fs
      BY <1>1, <1>2, Pop DEF Syncs
    <3> QED
      BY <3>1 DEF Floor, Writes
  <2>2. SyncReturns(e, t, 0, fs)
    BY <1>2 DEF GoOn
  <2> QED
    BY <1>1, <1>2, <2>1, <2>2, SyncReturnsEnd
<1>3. CASE ~Syncs(fs)
  <2>1. Writes(fs)
    BY <1>3 DEF Floor
  <2>2. ReadMessageData(e, arrived[e], t, fs) /\ calls' = calls
    BY <1>3 DEF GoOn
  <2>3. calls' \in Seq([n : Nat, reply : Nat])
    BY <2>2 DEF Types
  <2> QED
    BY <1>1, <2>1, <2>2, <2>3, ReadMessageDataEnd
<1> QED
  BY <1>2, <1>3

-----------------------------------------------------------------------------
(* A stream gets another message, or loses what will not arrive.           *)
LEMMA Grow ==
    ASSUME NEW m, NEW w, StreamOK(m, w), NEW v,
           v = w \/ v = w \o [k \in 1..(Header + Body) |-> <<m + 1, k>>]
    PROVE  /\ StreamOK(m + 1, v) /\ Len(w) <= Len(v)
           /\ \A t \in Nat, n \in 1..m : Later(w, t, n) => Later(v, t, n)
<1> DEFINE S == Header + Body
           q == [k \in 1..S |-> <<m + 1, k>>]
<1>1. m \in Nat /\ w \in Seq(Nat \X (1..S)) /\ S \in Nat
  BY DEF StreamOK
<1>2. CASE v = w
  BY <1>1, <1>2 DEF StreamOK
<1>3. CASE v = w \o q
  <2>1. q \in Seq(Nat \X (1..S)) /\ Len(q) = S
    BY <1>1
  <2>2. v \in Seq(Nat \X (1..S)) /\ Len(v) = Len(w) + S
    BY <1>1, <1>3, <2>1
  <2>a. DOMAIN w = 1..Len(w) /\ Len(w) \in Nat
    BY <1>1
  <2>b. DOMAIN v = 1..Len(v)
    BY <2>2
  <2>c. DOMAIN v = 1..(Len(w) + S)
    BY <2>2, <2>b
  <2>3. \A i \in DOMAIN v : \/ i \in DOMAIN w /\ v[i] = w[i]
                            \/ i - Len(w) \in 1..S /\ v[i] = <<m + 1, i - Len(w)>>
    <3> SUFFICES ASSUME NEW i \in 1..(Len(w) + S)
                 PROVE  \/ i \in 1..Len(w) /\ v[i] = w[i]
                        \/ i - Len(w) \in 1..S /\ v[i] = <<m + 1, i - Len(w)>>
      BY <2>a, <2>c
    <3>1. Len(w) \in Nat /\ i \in Nat /\ i >= 1 /\ i <= Len(w) + S
      BY <1>1
    <3>2. CASE i <= Len(w)
      BY <1>1, <1>3, <2>1, <3>1, <3>2
    <3>3. CASE i > Len(w)
      <4>1. i - Len(w) \in 1..S
        BY <1>1, <3>1, <3>3
      <4>2. v[i] = q[i - Len(w)]
        BY <1>1, <1>3, <2>1, <3>1, <3>3
      <4> QED
        BY <4>1, <4>2
    <3> QED
      BY <3>1, <3>2, <3>3
  <2>4. \A i \in DOMAIN w : w[i][1] \in 1..m
    BY DEF StreamOK
  <2>5. \A i \in DOMAIN v : v[i][1] \in 1..(m + 1)
    <3>1. 1..m \subseteq 1..(m + 1) /\ m + 1 \in 1..(m + 1)
      BY <1>1
    <3> QED
      BY <2>3, <2>4, <3>1
  <2>6. \A i, j \in DOMAIN v : i < j => Before(v[i], v[j])
    <3> SUFFICES ASSUME NEW i \in DOMAIN v, NEW j \in DOMAIN v, i < j
                 PROVE  Before(v[i], v[j])
      OBVIOUS
    <3>0. i \in Nat /\ j \in Nat /\ Len(w) \in Nat /\ DOMAIN w = 1..Len(w)
      BY <1>1, <2>a, <2>c
    <3>1. CASE j \in DOMAIN w
      <4>0. j <= Len(w) /\ i >= 1
        BY <2>2, <3>0, <3>1
      <4>1. i \in DOMAIN w
        BY <3>0, <4>0
      <4>2. v[i] = w[i] /\ v[j] = w[j]
        BY <2>3, <3>0, <3>1, <4>1
      <4> QED
        BY <3>1, <4>1, <4>2 DEF StreamOK
    <3>2. CASE j \notin DOMAIN w /\ i \in DOMAIN w
      <4>1. v[j] = <<m + 1, j - Len(w)>> /\ v[i] = w[i]
        BY <2>3, <3>0, <3>2
      <4>2. w[i][1] < m + 1
        BY <1>1, <2>4, <3>2
      <4> QED
        BY <4>1, <4>2 DEF Before
    <3>3. CASE j \notin DOMAIN w /\ i \notin DOMAIN w
      <4>1. v[j] = <<m + 1, j - Len(w)>> /\ v[i] = <<m + 1, i - Len(w)>>
        BY <2>3, <3>3
      <4> QED
        BY <3>0, <4>1 DEF Before
    <3> QED
      BY <3>1, <3>2, <3>3
  <2>7. ASSUME NEW t \in Nat, NEW n \in 1..m, Later(w, t, n)
        PROVE  Later(v, t, n)
    <3> SUFFICES ASSUME NEW i \in DOMAIN v, i > t, v[i][2] = 1
                 PROVE  v[i][1] > n
      BY DEF Later
    <3>1. CASE i \in DOMAIN w /\ v[i] = w[i]
      BY <2>7, <3>1 DEF Later
    <3>2. CASE v[i] = <<m + 1, i - Len(w)>>
      BY <1>1, <3>2
    <3> QED
      BY <2>3, <3>1, <3>2
  <2> QED
    BY <1>1, <2>2, <2>5, <2>6, <2>7 DEF StreamOK
<1> QED
  BY <1>2, <1>3

LEMMA Cut ==
    ASSUME NEW m, NEW w, StreamOK(m, w), NEW k \in 0..Len(w)
    PROVE  /\ StreamOK(m, SubSeq(w, 1, k)) /\ Len(SubSeq(w, 1, k)) = k
           /\ \A t \in Nat, n \in 1..m : Later(w, t, n) => Later(SubSeq(w, 1, k), t, n)
<1> DEFINE v == SubSeq(w, 1, k)
<1>1. w \in Seq(Nat \X (1..(Header + Body)))
  BY DEF StreamOK
<1>2. /\ v \in Seq(Nat \X (1..(Header + Body))) /\ Len(v) = k
      /\ \A i \in DOMAIN v : i \in DOMAIN w /\ v[i] = w[i]
  BY <1>1
<1>3. StreamOK(m, v)
  BY <1>2 DEF StreamOK
<1>4. \A t \in Nat, n \in 1..m : Later(w, t, n) => Later(v, t, n)
  BY <1>2 DEF Later
<1> QED
  BY <1>2, <1>3, <1>4

-----------------------------------------------------------------------------
LEMMA OneEnd ==
    ASSUME SocketInv, NEW e \in Ends,
           sent' = sent, stream' = stream, open' = open,
           arrived' \in [Ends -> Nat], delivered' \in [Ends -> Seq(Nat)],
           \A p \in Ends \ {e} : arrived'[p] = arrived[p] /\ delivered'[p] = delivered[p],
           Reached(e, arrived'[e], delivered'[e]), StepTypes, Same(e),
           calls' \in Seq([n : Nat, reply : Nat]), timeouts' \in 0..MaxTimeouts
    PROVE  SocketInv'
<1>1. Types'
  BY DEF SocketInv, Types, StepTypes
<1>2. End(e)'
  BY DEF Reached, End
<1>3. \A p \in Ends \ {e} : End(p)'
  BY DEF SocketInv, Same, End
<1> QED
  BY <1>1, <1>2, <1>3 DEF SocketInv

LEMMA OtherEnd == \A e \in Ends : Peer(e) \in Ends /\ Peer(e) # e /\ Ends = {e, Peer(e)}
  BY DEF Ends, Peer

(* Whatever is sent, and from wherever.                                    *)
LEMMA SendEnd ==
    ASSUME SocketInv, NEW e \in Ends, NEW msg \in Message, NEW fs,
           SendMessage(e, msg, fs), open[e],
           fs \in Seq(Frame), Shape(fs), fs # <<>> => fs[1].at # "body",
           \A k \in DOMAIN fs : fs[k].at = "handle" => fs[k].n \in 1..Len(sent[e]),
           listening' \in [Ends -> BOOLEAN],
           \A p \in Ends \ {e} : listening'[p] = listening[p],
           listening'[e] => Writes(fs),
           UNCHANGED <<arrived, taken, open, delivered, calls, timeouts>>
    PROVE  SocketInv'
<1> DEFINE p == Peer(e)
           f == At("write", 0)
           m == Len(sent[p])
<1>0. p \in Ends /\ p # e /\ Ends = {e, p}
  BY OtherEnd
<1>1. sent' = [sent EXCEPT ![p] = Append(@, msg)] /\ stack' = [stack EXCEPT ![e] = <<f>> \o fs]
  BY DEF SendMessage
<1>2. \/ stream' = stream
      \/ stream' = [stream EXCEPT ![p] = @ \o [k \in 1..(Header + Body) |-> <<m + 1, k>>]]
  BY DEF SendMessage, Types, SocketInv
<1>3. f \in Frame /\ f.at = "write"
  BY DEF At, Frame
<1>4. <<f>> \o fs \in Seq(Frame) /\ Shape(<<f>> \o fs)
  BY <1>3, OnTop
<1>5. /\ sent'[e] = sent[e] /\ stream'[e] = stream[e] /\ stack'[e] = <<f>> \o fs
      /\ sent'[p] = Append(sent[p], msg) /\ stack'[p] = stack[p]
      /\ \/ stream'[p] = stream[p]
         \/ stream'[p] = stream[p] \o [k \in 1..(Header + Body) |-> <<m + 1, k>>]
  BY <1>0, <1>1, <1>2 DEF SocketInv, Types
<1>6. sent[p] \in Seq(Message) /\ Len(sent'[p]) = m + 1 /\ m \in Nat
  BY <1>0, <1>5 DEF SocketInv, Types
<1>7. End(p) /\ StreamOK(m, stream[p])
  BY <1>0 DEF SocketInv, End, EndOK, ReadOK
<1>8. /\ StreamOK(m + 1, stream'[p]) /\ Len(stream[p]) <= Len(stream'[p])
      /\ \A t \in Nat, n \in 1..m : Later(stream[p], t, n) => Later(stream'[p], t, n)
  BY <1>5, <1>7, Grow
<1>9. stream'[p] \in Seq(Nat \X (1..Size)) /\ Len(stream'[p]) \in Nat /\ Len(stream[p]) \in Nat
  BY <1>7, <1>8 DEF StreamOK
<1>10. Types'
  <2>1. sent' \in [Ends -> Seq(Message)]
    BY <1>0, <1>1 DEF SocketInv, Types
  <2>2. stream' \in [Ends -> Seq(Nat \X (1..Size))]
    BY <1>0, <1>2, <1>5, <1>9 DEF SocketInv, Types
  <2>3. stack' \in [Ends -> Seq(Frame)]
    BY <1>1, <1>4 DEF SocketInv, Types
  <2> QED
    BY <2>1, <2>2, <2>3 DEF SocketInv, Types
<1>11. End(e)'
  <2> DEFINE g == <<f>> \o fs
  <2>1. /\ g # <<>> /\ g[1] = f
        /\ \A k \in DOMAIN g : k # 1 => k - 1 \in DOMAIN fs /\ g[k] = fs[k - 1]
    BY <1>3, Push
  <2>2. \A k \in DOMAIN g : g[k].at = "handle" => g[k].n \in 1..Len(sent[e])
    BY <1>3, <2>1
  <2>3. StackOK(Len(sent[e]), stream[e], taken[e], delivered[e], g)
    BY <1>3, <1>4, <2>1, <2>2 DEF StackOK, BodyOK
  <2>4. Writes(fs) => Writes(g)
    BY <1>3, <2>1 DEF Writes
  <2>5. ListenOK(listening'[e], g, open[e])
    BY <2>4 DEF ListenOK, SocketInv, Types
  <2>6. ReadOK(Len(sent[e]), stream[e], arrived[e], taken[e], delivered[e])
    BY DEF SocketInv, End, EndOK
  <2> QED
    BY <1>5, <2>3, <2>5, <2>6 DEF End, EndOK
<1>12. End(p)'
  <2>1. ReadOK(m, stream[p], arrived[p], taken[p], delivered[p])
    BY <1>7 DEF End, EndOK
  <2>2. 1..m \subseteq 1..(m + 1)
    BY <1>6
  <2>3. \A k \in DOMAIN delivered[p] :
          delivered[p][k] \in 1..(m + 1) /\ Later(stream'[p], taken[p], delivered[p][k])
    BY <1>8, <2>1, <2>2 DEF ReadOK
  <2>4. arrived[p] <= Len(stream'[p])
    BY <1>8, <1>9, <2>1 DEF ReadOK
  <2>5. ReadOK(m + 1, stream'[p], arrived[p], taken[p], delivered[p])
    BY <1>8, <2>1, <2>3, <2>4 DEF ReadOK
  <2>6. StackOK(m, stream[p], taken[p], delivered[p], stack[p])
    BY <1>7 DEF End, EndOK
  <2>7. BodyOK(m, stream[p], taken[p], delivered[p], stack[p][1]) =>
          BodyOK(m + 1, stream'[p], taken[p], delivered[p], stack[p][1])
    BY <1>8, <2>1, <2>2 DEF ReadOK, BodyOK
  <2>8. StackOK(m + 1, stream'[p], taken[p], delivered[p], stack[p])
    BY <2>2, <2>6, <2>7 DEF StackOK
  <2>9. ListenOK(listening[p], stack[p], open[p])
    BY <1>7 DEF End, EndOK
  <2>10. listening'[p] = listening[p]
    BY <1>0
  <2> QED
    BY <1>5, <1>6, <2>5, <2>8, <2>9, <2>10 DEF End, EndOK
<1> QED
  BY <1>0, <1>10, <1>11, <1>12 DEF SocketInv

-----------------------------------------------------------------------------
(* What the invariant says of an end, by name.                             *)
LEMMA EndFacts ==
    ASSUME SocketInv, NEW e \in Ends
    PROVE  /\ ReadOK(Len(sent[e]), stream[e], arrived[e], taken[e], delivered[e])
           /\ StackOK(Len(sent[e]), stream[e], taken[e], delivered[e], stack[e])
           /\ ListenOK(listening[e], stack[e], open[e])
           /\ Types /\ stack[e] \in Seq(Frame) /\ Shape(stack[e])
  BY DEF SocketInv, End, EndOK, StackOK

LEMMA Innermost ==
    ASSUME SocketInv, NEW e \in Ends, NEW places, IsAt(e, places)
    PROVE  /\ stack[e] # <<>> /\ Top(e) \in Frame /\ Top(e) = stack[e][1]
           /\ Top(e).at \in places /\ 1 \in DOMAIN stack[e] /\ open[e]
  BY EndFacts, Pop DEF IsAt, Top, ListenOK

LEMMA Reading ==
    ASSUME SocketInv, NEW e \in Ends, IsAt(e, {"body", "handle", "handled"})
    PROVE  Floor(Below(e)) /\ ~listening[e]
<1>1. stack[e] # <<>> /\ Head(stack[e]).at \in {"body", "handle", "handled"}
  BY DEF IsAt, Top
<1>2. Floor(Below(e))
  BY <1>1, EndFacts, UnderReading DEF Below
<1>3. stack[e][1].at # "write" /\ 1 \in DOMAIN stack[e]
  BY <1>1, EndFacts, Pop
<1> QED
  BY <1>2, <1>3, EndFacts DEF ListenOK, Writes

LEMMA StepRequest ==
    ASSUME SocketInv, NEW e \in Ends, Request(e)
    PROVE  SocketInv'
<1>1. PICK id \in Ids : SendRequest(e, id, stack[e])
  BY DEF Request
<1> DEFINE msg == [kind |-> "request", id |-> id, re |-> 0]
<1>2. open[e] /\ SendMessage(e, msg, stack[e]) /\ msg \in Message
  BY <1>1 DEF SendRequest, Message
<1>3. stack[e] # <<>> => stack[e][1].at # "body"
  BY Innermost DEF Request
<1>4. \A k \in DOMAIN stack[e] : stack[e][k].at = "handle" => stack[e][k].n \in 1..Len(sent[e])
  BY EndFacts DEF StackOK
<1>5. /\ listening' \in [Ends -> BOOLEAN] /\ \A p \in Ends \ {e} : listening'[p] = listening[p]
      /\ listening'[e] => Writes(stack[e])
  BY EndFacts DEF Request, ListenOK, Types
<1>6. UNCHANGED <<arrived, taken, open, delivered, calls, timeouts>>
  BY DEF Request
<1> QED
  BY <1>2, <1>3, <1>4, <1>5, <1>6, EndFacts, SendEnd

LEMMA StepWriteReturns ==
    ASSUME SocketInv, NEW e \in Ends, WriteReturns(e)
    PROVE  SocketInv'
<1> DEFINE r == Below(e)
<1>1. stack' = [stack EXCEPT ![e] = r] /\ stack[e] # <<>>
  BY DEF WriteReturns, IsAt
<1>2. r \in Seq(Frame) /\ Shape(r) /\ \A k \in DOMAIN r : r[k].at # "body"
  BY <1>1, EndFacts, ShapeTail DEF Below
<1>3. \A k \in DOMAIN r : k + 1 \in DOMAIN stack[e] /\ r[k] = stack[e][k + 1]
  BY <1>1, EndFacts, Pop DEF Below
<1>4. r # <<>> => 1 \in DOMAIN r
  BY <1>2
<1>5. StackOK(Len(sent[e]), stream[e], taken[e], delivered[e], r)
  BY <1>2, <1>3, <1>4, EndFacts DEF StackOK, BodyOK
<1>6. ListenOK(listening[e], r, open[e])
  BY <1>1, <1>3, EndFacts DEF ListenOK, Writes
<1>7. stack'[e] = r /\ taken'[e] = taken[e] /\ listening'[e] = listening[e]
  BY <1>1, EndFacts DEF WriteReturns, Types
<1>8. Reached(e, arrived[e], delivered[e])
  BY <1>5, <1>6, <1>7, EndFacts DEF Reached, EndOK
<1>9. StepTypes /\ Same(e)
  BY <1>1, <1>2, EndFacts DEF StepTypes, Same, WriteReturns, Types
<1> QED
  BY <1>8, <1>9, EndFacts, OneEnd DEF WriteReturns, Types

LEMMA StepArrive ==
    ASSUME SocketInv, NEW e \in Ends, Arrive(e)
    PROVE  SocketInv'
<1>1. PICK a \in (arrived[e] + 1)..Len(stream[e]) :
         /\ arrived' = [arrived EXCEPT ![e] = a]
         /\ IF listening[e] THEN ReadMessageData(e, a, taken[e], stack[e])
            ELSE IF IsAt(e, {"sync"}) /\ a - taken[e] >= Header
            THEN ReadHeader(e, taken[e], stack[e]) /\ UNCHANGED listening
            ELSE UNCHANGED <<taken, stack, listening>>
  BY DEF Arrive
<1>2. arrived[e] \in Nat /\ Len(stream[e]) \in Nat
  BY EndFacts DEF ReadOK, StreamOK
<1>3. a \in Nat /\ arrived[e] <= a /\ a <= Len(stream[e])
  BY <1>2
<1>4. ReadOK(Len(sent[e]), stream[e], a, taken[e], delivered[e])
  BY <1>3, EndFacts, Arrived
<1>5. arrived'[e] = a /\ arrived' \in [Ends -> Nat] /\ \A p \in Ends \ {e} : arrived'[p] = arrived[p]
  BY <1>1, <1>3, EndFacts DEF Types
<1>6. open[e] /\ UNCHANGED <<sent, stream, open, delivered, calls, timeouts>>
  BY DEF Arrive
<1>7. Reached(e, a, delivered[e]) /\ StepTypes /\ Same(e)
  <2>1. CASE listening[e]
    <3>1. Writes(stack[e])
      BY <2>1, EndFacts DEF ListenOK
    <3>2. ReadMessageData(e, a, taken[e], stack[e])
      BY <1>1, <2>1
    <3> QED
      BY <1>4, <1>6, <3>1, <3>2, EndFacts, ReadMessageDataEnd
  <2>2. CASE ~listening[e] /\ IsAt(e, {"sync"}) /\ a - taken[e] >= Header
    <3>1. Syncs(stack[e])
      BY <2>2 DEF IsAt, Top, Syncs
    <3>2. Floor(stack[e])
      BY <3>1, EndFacts, UnderSync DEF Floor
    <3>3. ReadHeader(e, taken[e], stack[e]) /\ listening' = listening
      BY <1>1, <2>2
    <3>4. listening \in [Ends -> BOOLEAN]
      BY EndFacts DEF Types
    <3> QED
      BY <1>4, <1>6, <2>2, <3>2, <3>3, <3>4, EndFacts, ReadHeaderEnd
  <2>3. CASE ~listening[e] /\ ~(IsAt(e, {"sync"}) /\ a - taken[e] >= Header)
    <3>1. UNCHANGED <<taken, stack, listening>>
      BY <1>1, <2>3
    <3> QED
      BY <1>4, <3>1, EndFacts DEF Reached, EndOK, StepTypes, Same, Types
  <2> QED
    BY <2>1, <2>2, <2>3
<1> QED
  BY <1>5, <1>6, <1>7, EndFacts, OneEnd DEF Types

(* The message that is read is put on top, or is what syncRequest awaits.  *)
LEMMA MessageReadEnd ==
    ASSUME SocketInv, NEW e \in Ends, NEW t \in Nat, NEW n \in 1..Len(sent[e]), NEW fs,
           ReadOK(Len(sent[e]), stream[e], arrived[e], t, Append(delivered[e], n)),
           Floor(fs), open[e], ~listening[e], MessageRead(e, n, t, fs)
    PROVE  /\ Reached(e, arrived[e], Append(delivered[e], n)) /\ StepTypes /\ Same(e)
           /\ calls' \in Seq([n : Nat, reply : Nat])
<1> DEFINE m == Len(sent[e])
           d == Append(delivered[e], n)
           f == At(Handling(e, n), n)
           g == <<f>> \o fs
<1>1. fs \in Seq(Frame) /\ n \in Nat
  BY EndFacts DEF Floor, ReadOK, StreamOK
<1>2. CASE IsReply(e, n, fs)
  <2>1. Syncs(fs)
    BY <1>2 DEF IsReply
  <2>2. fs # <<>> /\ fs[1].at = "sync" /\ 1 \in DOMAIN fs
    BY <1>1, <2>1, Pop DEF Syncs
  <2>3. Writes(Tail(fs))
    BY <2>2 DEF Floor, Writes
  <2>4. SyncReturns(e, t, n, fs)
    BY <1>2 DEF MessageRead
  <2> QED
    BY <1>1, <2>1, <2>3, <2>4, EndFacts, SyncReturnsEnd
<1>3. CASE ~IsReply(e, n, fs)
  <2>1. /\ taken' = [taken EXCEPT ![e] = t] /\ stack' = [stack EXCEPT ![e] = g]
        /\ listening' = listening /\ calls' = calls
    BY <1>3 DEF MessageRead
  <2>2. f \in Frame /\ f.at \in {"handle", "handled"} /\ f.n = n
    BY <1>1 DEF At, Frame, Handling
  <2>3. g \in Seq(Frame) /\ Shape(g)
    BY <2>2, OnFloor
  <2>4. /\ g # <<>> /\ g[1] = f /\ 1 \in DOMAIN g
        /\ \A k \in DOMAIN g : k # 1 => 1 < k
    BY <1>1, <2>2, <2>3, Push
  <2>5. \A k \in DOMAIN g : g[k].at = "handle" => g[k].n \in 1..m
    <3>1. \A k \in DOMAIN g : k # 1 => g[k].at # "handle"
      BY <2>2, OnFloor
    <3> QED
      BY <2>2, <2>4, <3>1
  <2>6. StackOK(m, stream[e], t, d, g)
    BY <2>2, <2>3, <2>4, <2>5 DEF StackOK, BodyOK
  <2>7. ListenOK(listening[e], g, open[e])
    BY EndFacts DEF ListenOK
  <2>8. taken'[e] = t /\ stack'[e] = g /\ listening'[e] = listening[e]
    BY <2>1, EndFacts DEF Types
  <2>9. Reached(e, arrived[e], d)
    BY <2>6, <2>7, <2>8 DEF Reached, EndOK
  <2>10. StepTypes /\ Same(e) /\ calls' \in Seq([n : Nat, reply : Nat])
    BY <2>1, <2>3, EndFacts DEF StepTypes, Same, Types
  <2> QED
    BY <2>9, <2>10
<1> QED
  BY <1>2, <1>3

LEMMA StepReadBody ==
    ASSUME SocketInv, NEW e \in Ends, ReadBody(e)
    PROVE  SocketInv'
<1> DEFINE f == Top(e)
           w == stream[e]
           m == Len(sent[e])
           d == delivered[e]
           fs == Below(e)
           available == arrived[e] - taken[e]
           got == IF available < f.need THEN available ELSE f.need
           good == Checked(e, f, got)
           h == [f EXCEPT !.need = @ - got, !.good = good]
<1>1. /\ f \in Frame /\ f = stack[e][1] /\ f.at = "body" /\ stack[e] # <<>> /\ open[e]
      /\ Floor(fs) /\ ~listening[e]
  BY Innermost, Reading DEF ReadBody, IsAt
<1>2. taken[e] \in Nat /\ arrived[e] \in Nat /\ taken[e] < arrived[e] /\ f.need \in Nat /\ f.good \in BOOLEAN
  BY <1>1, EndFacts DEF ReadBody, Types, Frame
<1>3. got \in Nat /\ taken[e] + got \in Nat /\ taken[e] <= taken[e] + got /\ taken[e] + got <= arrived[e]
  BY <1>2
<1>4. ReadOK(m, w, arrived[e], taken[e] + got, d)
  BY <1>3, EndFacts, Advance
<1>5. good \in BOOLEAN /\ (good => f.good)
  BY <1>2 DEF Checked
<1>6. good => f.n \in 1..m /\ Later(w, taken[e] + got, f.n) /\ \A k \in DOMAIN d : d[k] < f.n
  <2>1. good => f.n \in 1..m /\ Later(w, taken[e], f.n) /\ \A k \in DOMAIN d : d[k] < f.n
    BY <1>1, <1>5, EndFacts DEF StackOK, BodyOK
  <2> QED
    BY <1>2, <1>3, <2>1, EndFacts, LaterOn DEF ReadOK
<1>7. UNCHANGED <<sent, stream, arrived, open, timeouts>>
  BY DEF ReadBody
<1>8. CASE /\ got < f.need /\ taken' = [taken EXCEPT ![e] = @ + got]
           /\ stack' = [stack EXCEPT ![e] = <<h>> \o fs]
           /\ UNCHANGED <<listening, delivered, calls>>
  <2> DEFINE g == <<h>> \o fs
  <2>1. f.need - got \in Nat
    BY <1>2, <1>3, <1>8
  <2>2. h \in Frame /\ h.at = "body" /\ h.n = f.n /\ h.good = good
    BY <1>1, <1>5, <2>1 DEF Frame
  <2>3. g \in Seq(Frame) /\ Shape(g) /\ fs \in Seq(Frame)
    BY <1>1, <2>2, OnFloor DEF Floor
  <2>4. /\ g # <<>> /\ g[1] = h /\ 1 \in DOMAIN g
        /\ \A k \in DOMAIN g : k # 1 => 1 < k
    BY <2>2, <2>3, Push
  <2>5. \A k \in DOMAIN g : g[k].at # "handle"
    <3>1. \A k \in DOMAIN g : k # 1 => g[k].at # "handle"
      BY <1>1, <2>2, OnFloor
    <3> QED
      BY <2>2, <2>4, <3>1
  <2>6. StackOK(m, w, taken[e] + got, d, g)
    BY <1>6, <2>2, <2>3, <2>4, <2>5 DEF StackOK, BodyOK
  <2>7. ListenOK(listening[e], g, open[e])
    BY <1>1, EndFacts DEF ListenOK
  <2>8. taken'[e] = taken[e] + got /\ stack'[e] = g /\ listening'[e] = listening[e]
    BY <1>8, EndFacts DEF Types
  <2>9. Reached(e, arrived[e], d)
    BY <1>4, <2>6, <2>7, <2>8 DEF Reached, EndOK
  <2>10. StepTypes /\ Same(e)
    BY <1>3, <1>8, <2>3, EndFacts DEF StepTypes, Same, Types
  <2> QED
    BY <1>7, <1>8, <2>9, <2>10, EndFacts, OneEnd DEF Types
<1>9. CASE good /\ MessageRead(e, f.n, taken[e] + got, fs)
  <2>1. f.n \in 1..m
    BY <1>6, <1>9
  <2>2. ReadOK(m, w, arrived[e], taken[e] + got, Append(d, f.n))
    BY <1>4, <1>6, <1>9, Delivers
  <2>3. /\ Reached(e, arrived[e], Append(d, f.n)) /\ StepTypes /\ Same(e)
        /\ calls' \in Seq([n : Nat, reply : Nat])
    BY <1>1, <1>3, <1>9, <2>1, <2>2, MessageReadEnd
  <2>4. delivered' = [delivered EXCEPT ![e] = Append(@, f.n)]
    BY <1>9 DEF MessageRead
  <2>5. f.n \in Nat
    BY <1>1 DEF Frame
  <2>6. /\ delivered'[e] = Append(d, f.n) /\ delivered' \in [Ends -> Seq(Nat)]
        /\ \A p \in Ends \ {e} : delivered'[p] = delivered[p]
    BY <2>4, <2>5, EndFacts DEF Types
  <2> QED
    BY <1>7, <2>3, <2>6, EndFacts, OneEnd DEF Types
<1>10. CASE GoOn(e, taken[e] + got, fs) /\ UNCHANGED delivered
  <2>1. /\ Reached(e, arrived[e], d) /\ StepTypes /\ Same(e)
        /\ calls' \in Seq([n : Nat, reply : Nat])
    BY <1>1, <1>4, <1>10, EndFacts, GoOnEnd
  <2> QED
    BY <1>7, <1>10, <2>1, EndFacts, OneEnd DEF Types
<1> QED
  BY <1>8, <1>9, <1>10 DEF ReadBody

LEMMA StepBodyTimeout ==
    ASSUME SocketInv, NEW e \in Ends, BodyTimeout(e)
    PROVE  SocketInv'
<1>1. IsAt(e, {"body"}) /\ GoOn(e, taken[e], Below(e))
  BY DEF BodyTimeout
<1>2. open[e] /\ Floor(Below(e))
  BY <1>1, Innermost, Reading DEF IsAt
<1>3. /\ Reached(e, arrived[e], delivered[e]) /\ StepTypes /\ Same(e)
      /\ calls' \in Seq([n : Nat, reply : Nat])
  BY <1>1, <1>2, EndFacts, GoOnEnd
<1>4. timeouts' \in 0..MaxTimeouts
  BY EndFacts DEF BodyTimeout, Types
<1>5. UNCHANGED <<sent, stream, arrived, open, delivered>>
  BY DEF BodyTimeout
<1> QED
  BY <1>3, <1>4, <1>5, EndFacts, OneEnd DEF Types

LEMMA StepHandlerReturns ==
    ASSUME SocketInv, NEW e \in Ends, HandlerReturns(e)
    PROVE  SocketInv'
<1>1. IsAt(e, {"handled"}) /\ GoOn(e, taken[e], Below(e))
  BY DEF HandlerReturns
<1>2. open[e] /\ Floor(Below(e))
  BY <1>1, Innermost, Reading DEF IsAt
<1>3. /\ Reached(e, arrived[e], delivered[e]) /\ StepTypes /\ Same(e)
      /\ calls' \in Seq([n : Nat, reply : Nat])
  BY <1>1, <1>2, EndFacts, GoOnEnd
<1>4. UNCHANGED <<sent, stream, arrived, open, delivered, timeouts>>
  BY DEF HandlerReturns
<1> QED
  BY <1>3, <1>4, EndFacts, OneEnd DEF Types

LEMMA StepAnswer ==
    ASSUME SocketInv, NEW e \in Ends, Answer(e)
    PROVE  SocketInv'
<1> DEFINE n == Top(e).n
           f == At("handled", n)
           fs == <<f>> \o Below(e)
           msg == [kind |-> "response", id |-> sent[e][n].id, re |-> n]
<1>1. IsAt(e, {"handle"})
  BY DEF Answer
<1>2. open[e] /\ Top(e) \in Frame /\ Top(e) = stack[e][1] /\ Top(e).at = "handle" /\ 1 \in DOMAIN stack[e]
  BY <1>1, Innermost
<1>3. Floor(Below(e)) /\ ~listening[e]
  BY <1>1, Reading DEF IsAt
<1>4. n \in 1..Len(sent[e])
  BY <1>2, EndFacts DEF StackOK
<1>5. sent[e][n] \in Message
  BY <1>4, EndFacts DEF Types
<1>6. n \in Nat
  BY <1>2 DEF Frame
<1>7. msg \in Message
  BY <1>5, <1>6 DEF Message
<1>8. f \in Frame /\ f.at = "handled"
  BY <1>6 DEF At, Frame
<1>9. fs \in Seq(Frame) /\ Shape(fs) /\ \A k \in DOMAIN fs : k # 1 => fs[k].at # "handle"
  BY <1>3, <1>8, OnFloor
<1>10. fs[1] = f
  BY <1>3, <1>8, Push DEF Floor
<1>11. /\ \A k \in DOMAIN fs : fs[k].at = "handle" => fs[k].n \in 1..Len(sent[e])
       /\ fs # <<>> => fs[1].at # "body"
  BY <1>8, <1>9, <1>10
<1>12. SendMessage(e, msg, fs)
  BY DEF Answer
<1>13. /\ listening' \in [Ends -> BOOLEAN] /\ \A p \in Ends \ {e} : listening'[p] = listening[p]
       /\ ~listening'[e] /\ UNCHANGED <<arrived, taken, open, delivered, calls, timeouts>>
  BY <1>3, EndFacts DEF Answer, Types
<1> QED
  BY <1>2, <1>7, <1>9, <1>11, <1>12, <1>13, SendEnd

LEMMA StepSyncRequest ==
    ASSUME SocketInv, SyncRequest
    PROVE  SocketInv'
<1> DEFINE e == "server"
           f == At("sync", Len(sent["plugin"]) + 1)
           fs == <<f>>
<1>0. e \in Ends /\ "plugin" \in Ends
  BY DEF Ends
<1>1. PICK id \in Ids : SendRequest(e, id, fs)
  BY DEF SyncRequest
<1> DEFINE msg == [kind |-> "request", id |-> id, re |-> 0]
<1>2. open[e] /\ SendMessage(e, msg, fs) /\ msg \in Message
  BY <1>1 DEF SendRequest, Message
<1>3. Len(sent["plugin"]) \in Nat
  BY <1>0, EndFacts DEF Types
<1>4. f \in Frame /\ f.at = "sync"
  BY <1>3 DEF At, Frame
<1>5. fs \in Seq(Frame) /\ DOMAIN fs = {1} /\ fs[1] = f
  BY <1>4
<1>6. /\ Shape(fs) /\ fs[1].at # "body"
      /\ \A k \in DOMAIN fs : fs[k].at = "handle" => fs[k].n \in 1..Len(sent[e])
  BY <1>4, <1>5 DEF Shape
<1>7. /\ listening' \in [Ends -> BOOLEAN] /\ \A p \in Ends \ {e} : listening'[p] = listening[p]
      /\ ~listening'[e] /\ UNCHANGED <<arrived, taken, open, delivered, calls, timeouts>>
  BY <1>0, EndFacts DEF SyncRequest, Types
<1> QED
  BY <1>0, <1>2, <1>5, <1>6, <1>7, SendEnd

LEMMA StepSyncTimeout ==
    ASSUME SocketInv, SyncTimeout
    PROVE  SocketInv'
<1> DEFINE e == "server"
<1>0. e \in Ends
  BY DEF Ends
<1>1. IsAt(e, {"sync"}) /\ SyncReturns(e, taken[e], 0, stack[e])
  BY DEF SyncTimeout
<1>2. Syncs(stack[e]) /\ open[e]
  BY <1>0, <1>1, Innermost DEF IsAt, Syncs, Top
<1>3. Writes(Tail(stack[e])) /\ stack[e] \in Seq(Frame)
  BY <1>0, <1>2, EndFacts, UnderSync
<1>4. /\ Reached(e, arrived[e], delivered[e]) /\ StepTypes /\ Same(e)
      /\ calls' \in Seq([n : Nat, reply : Nat])
  BY <1>0, <1>1, <1>2, <1>3, EndFacts, SyncReturnsEnd
<1>5. UNCHANGED <<sent, stream, arrived, open, delivered, timeouts>>
  BY DEF SyncTimeout
<1> QED
  BY <1>0, <1>4, <1>5, EndFacts, OneEnd DEF Types

LEMMA StepDie ==
    ASSUME SocketInv, NEW e \in Ends, Die(e)
    PROVE  SocketInv'
<1> DEFINE p == Peer(e)
           m == Len(sent[p])
           w == stream[p]
<1>0. p \in Ends /\ p # e /\ Ends = {e, p}
  BY OtherEnd
<1>1. PICK k \in arrived[p]..Len(w) : stream' = [stream EXCEPT ![p] = SubSeq(@, 1, k)]
  BY DEF Die
<1>2. /\ stack' = [stack EXCEPT ![e] = <<>>] /\ open' = [open EXCEPT ![e] = FALSE]
      /\ listening' = [listening EXCEPT ![e] = FALSE]
      /\ UNCHANGED <<sent, arrived, taken, delivered, calls, timeouts>>
  BY DEF Die
<1> DEFINE v == SubSeq(w, 1, k)
<1>3. StreamOK(m, w) /\ arrived[p] \in Nat /\ Len(w) \in Nat
  BY <1>0, EndFacts DEF ReadOK, StreamOK
<1>4. k \in 0..Len(w) /\ arrived[p] <= k
  BY <1>3
<1>5. /\ StreamOK(m, v) /\ Len(v) = k
      /\ \A t \in Nat, n \in 1..m : Later(w, t, n) => Later(v, t, n)
  BY <1>3, <1>4, Cut
<1>6. stream' = [stream EXCEPT ![p] = v] /\ v \in Seq(Nat \X (1..Size))
  BY <1>1, <1>5 DEF StreamOK
<1>7. /\ stream'[p] = v /\ stack'[p] = stack[p] /\ open'[p] = open[p] /\ listening'[p] = listening[p]
      /\ stream'[e] = stream[e] /\ stack'[e] = <<>> /\ open'[e] = FALSE /\ listening'[e] = FALSE
  BY <1>0, <1>2, <1>6, EndFacts DEF Types
<1>8. Types'
  <2>1. stream' \in [Ends -> Seq(Nat \X (1..Size))]
    BY <1>6, EndFacts DEF Types
  <2>2. stack' \in [Ends -> Seq(Frame)]
    BY <1>2, EndFacts DEF Types
  <2>3. open' \in [Ends -> BOOLEAN] /\ listening' \in [Ends -> BOOLEAN]
    BY <1>2, EndFacts DEF Types
  <2> QED
    BY <1>2, <2>1, <2>2, <2>3, EndFacts DEF Types
<1>9. End(e)'
  <2>1. StackOK(Len(sent[e]), stream[e], taken[e], delivered[e], <<>>)
    BY DEF StackOK, Shape
  <2>2. ListenOK(FALSE, <<>>, FALSE)
    BY DEF ListenOK
  <2> QED
    BY <1>2, <1>7, <2>1, <2>2, EndFacts DEF End, EndOK
<1>10. End(p)'
  <2>1. ReadOK(m, v, arrived[p], taken[p], delivered[p])
    BY <1>0, <1>4, <1>5, EndFacts DEF ReadOK
  <2>2. taken[p] \in Nat
    BY <1>0, EndFacts DEF Types
  <2>3. BodyOK(m, w, taken[p], delivered[p], stack[p][1]) =>
          BodyOK(m, v, taken[p], delivered[p], stack[p][1])
    BY <1>5, <2>2 DEF BodyOK
  <2>4. StackOK(m, v, taken[p], delivered[p], stack[p])
    BY <1>0, <2>3, EndFacts DEF StackOK
  <2> QED
    BY <1>0, <1>2, <1>7, <2>1, <2>4, EndFacts DEF End, EndOK
<1> QED
  BY <1>0, <1>8, <1>9, <1>10 DEF SocketInv

LEMMA StepDeviceDisconnected ==
    ASSUME SocketInv, NEW e \in Ends, DeviceDisconnected(e)
    PROVE  SocketInv'
<1>1. /\ stack[e] = <<>> /\ open' = [open EXCEPT ![e] = FALSE]
      /\ listening' = [listening EXCEPT ![e] = FALSE]
      /\ UNCHANGED <<sent, stream, arrived, taken, stack, delivered, calls, timeouts>>
  BY DEF DeviceDisconnected
<1>2. Types'
  BY <1>1, EndFacts DEF Types
<1>3. ASSUME NEW p \in Ends
      PROVE  End(p)'
  <2>1. ListenOK(listening[p], stack[p], open[p])'
    BY <1>1, EndFacts DEF ListenOK, Types
  <2> QED
    BY <1>1, <2>1, EndFacts DEF End, EndOK
<1> QED
  BY <1>2, <1>3 DEF SocketInv

-----------------------------------------------------------------------------
LEMMA Starts ==
    ASSUME Init
    PROVE  SocketInv
<1>1. Types
  BY DEF Init, Types
<1>2. ASSUME NEW e \in Ends
      PROVE  End(e)
  <2>1. /\ sent[e] = <<>> /\ stream[e] = <<>> /\ arrived[e] = 0 /\ taken[e] = 0
        /\ delivered[e] = <<>> /\ stack[e] = <<>> /\ listening[e] = TRUE /\ open[e] = TRUE
    BY DEF Init
  <2>2. StreamOK(0, <<>>)
    BY DEF StreamOK
  <2>3. ReadOK(0, <<>>, 0, 0, <<>>)
    BY <2>2 DEF ReadOK
  <2>4. StackOK(0, <<>>, 0, <<>>, <<>>)
    BY DEF StackOK, Shape
  <2>5. ListenOK(TRUE, <<>>, TRUE)
    BY DEF ListenOK, Writes
  <2> QED
    BY <2>1, <2>3, <2>4, <2>5 DEF End, EndOK
<1> QED
  BY <1>1, <1>2 DEF SocketInv

LEMMA Preserved ==
    ASSUME SocketInv, [Next]_vars
    PROVE  SocketInv'
<1>1. CASE UNCHANGED vars
  BY <1>1 DEF vars, SocketInv, Types, End
<1>2. ASSUME NEW e \in Ends,
             \/ Request(e) \/ WriteReturns(e) \/ Arrive(e) \/ ReadBody(e) \/ BodyTimeout(e)
             \/ Answer(e) \/ HandlerReturns(e) \/ Die(e) \/ DeviceDisconnected(e)
      PROVE  SocketInv'
  <2>1. CASE Request(e)            BY <2>1, StepRequest
  <2>2. CASE WriteReturns(e)       BY <2>2, StepWriteReturns
  <2>3. CASE Arrive(e)             BY <2>3, StepArrive
  <2>4. CASE ReadBody(e)           BY <2>4, StepReadBody
  <2>5. CASE BodyTimeout(e)        BY <2>5, StepBodyTimeout
  <2>6. CASE Answer(e)             BY <2>6, StepAnswer
  <2>7. CASE HandlerReturns(e)     BY <2>7, StepHandlerReturns
  <2>8. CASE Die(e)                BY <2>8, StepDie
  <2>9. CASE DeviceDisconnected(e) BY <2>9, StepDeviceDisconnected
  <2> QED
    BY <1>2, <2>1, <2>2, <2>3, <2>4, <2>5, <2>6, <2>7, <2>8, <2>9
<1> QED
  BY <1>1, <1>2, StepSyncRequest, StepSyncTimeout DEF Next

(* At both ends, what is being read, what was read, what is in the stream  *)
(* and what each end is in the middle of (tassocket.cpp, readMessageData,  *)
(* readOneMessage and syncRequest) stay consistent.                        *)
THEOREM SocketInvariant == Spec => []SocketInv
<1>1. Init => SocketInv
  BY Starts
<1>2. SocketInv /\ [Next]_vars => SocketInv'
  BY Preserved
<1> QED
  BY <1>1, <1>2, PTL DEF Spec

(* readyRead is connected to readMessageData only when no message is being *)
(* read or handled, and nobody waits in syncRequest.                       *)
THEOREM SocketTypes == Spec => []TypeOK
<1>1. SocketInv => TypeOK
  <2> SUFFICES ASSUME SocketInv
               PROVE  TypeOK
    OBVIOUS
  <2>1. \A e \in Ends : taken[e] <= arrived[e] /\ arrived[e] <= Len(stream[e])
    BY EndFacts DEF ReadOK
  <2>2. \A e \in Ends : listening[e] =>
          open[e] /\ \A k \in DOMAIN stack[e] : stack[e][k].at = "write"
    BY EndFacts DEF ListenOK, Writes
  <2> QED
    BY <2>1, <2>2 DEF SocketInv, Types, TypeOK
<1> QED
  BY <1>1, SocketInvariant, PTL

(* However messages are cut, and whichever of them are torn by a timeout   *)
(* in readOneMessage, what is read are messages sent, in order, each once. *)
THEOREM NothingIsGarbled == Spec => []NothingGarbled
<1>1. SocketInv => NothingGarbled
  <2> SUFFICES ASSUME SocketInv, NEW e \in Ends, NEW k \in DOMAIN delivered[e]
               PROVE  /\ delivered[e][k] \in DOMAIN sent[e]
                      /\ \A j \in 1..(k - 1) : delivered[e][j] < delivered[e][k]
    BY DEF NothingGarbled
  <2>1. delivered[e] \in Seq(Nat) /\ sent[e] \in Seq(Message)
    BY EndFacts DEF Types
  <2>2. DOMAIN sent[e] = 1..Len(sent[e])
    BY <2>1
  <2>3. \A j \in 1..(k - 1) : j \in DOMAIN delivered[e] /\ j < k
    BY <2>1
  <2> QED
    BY <2>2, <2>3, EndFacts DEF ReadOK
<1> QED
  BY <1>1, SocketInvariant, PTL

-----------------------------------------------------------------------------
(* Nothing is lost.  Messages lie in the stream in one piece and one after *)
(* the other, in whole numbers as long as both ends are there.             *)
Contiguous(w) ==
    /\ w # <<>> => w[1] = <<1, 1>>
    /\ \A i \in DOMAIN w : \A k \in 1..Size :
         i - w[i][2] + k \in DOMAIN w => w[i - w[i][2] + k] = <<w[i][1], k>>
    /\ \A i \in DOMAIN w : i + 1 \in DOMAIN w /\ w[i][2] = Size =>
         w[i + 1] = <<w[i][1] + 1, 1>>

Whole(m, w) == IF w = <<>> THEN m = 0 ELSE w[Len(w)] = <<m, Size>>

(* After t parts, l messages were read; or f of the next one is missing.   *)
Between(w, t, l) == IF t = 0 THEN l = 0 ELSE w[t] = <<l, Size>>

Inside(w, t, l, f) ==
    /\ f.good /\ f.n = l + 1 /\ f.need \in 1..Body
    /\ t \in DOMAIN w /\ w[t] = <<l + 1, Size - f.need>>

Position(w, t, l, s) ==
    IF s # <<>> /\ s[1].at = "body" THEN Inside(w, t, l, s[1]) ELSE Between(w, t, l)

(* A reader whose peer is gone has nothing more to come: the one case in   *)
(* which the rest of a message is given up without one being torn.         *)
Finished(e) == ~open[Peer(e)] /\ taken[e] = Len(stream[e])

Place(e) ==
    Finished(e) \/ Position(stream[e], taken[e], Len(delivered[e]), stack[e])

StreamWhole(e) ==
    /\ Contiguous(stream[e])
    /\ open[e] /\ open[Peer(e)] => Whole(Len(sent[e]), stream[e])

AllRead(e) == \A k \in DOMAIN delivered[e] : delivered[e][k] = k

LostInv ==
    /\ SocketInv
    /\ \A e \in Ends : StreamWhole(e)
    /\ timeouts = 0 => \A e \in Ends : AllRead(e) /\ (open[e] => Place(e))

LEMMA LostStarts == Init => LostInv
<1> SUFFICES ASSUME Init PROVE LostInv
  OBVIOUS
<1>1. SocketInv
  BY Starts
<1>2. ASSUME NEW e \in Ends
      PROVE  StreamWhole(e) /\ AllRead(e) /\ Place(e)
  <2>1. sent[e] = <<>> /\ stream[e] = <<>> /\ taken[e] = 0 /\ delivered[e] = <<>> /\ stack[e] = <<>>
    BY DEF Init
  <2>2. Contiguous(<<>>) /\ Whole(0, <<>>)
    BY DEF Contiguous, Whole
  <2> QED
    BY <2>1, <2>2 DEF StreamWhole, AllRead, Place, Position, Between
<1> QED
  BY <1>1, <1>2 DEF LostInv

LEMMA Pair == \A a, b : <<a, b>>[1] = a /\ <<a, b>>[2] = b
  OBVIOUS

(* Another message comes behind whole ones.                                *)
LEMMA GrowWhole ==
    ASSUME NEW m, NEW w, StreamOK(m, w), Contiguous(w), Whole(m, w), NEW v,
           v = w \o [k \in 1..(Header + Body) |-> <<m + 1, k>>]
    PROVE  /\ Contiguous(v) /\ Whole(m + 1, v)
           /\ \A t \in DOMAIN w : t \in DOMAIN v /\ v[t] = w[t]
<1>s. PICK S \in Nat : S = Header + Body /\ S >= 1
  OBVIOUS
<1>l. PICK L \in Nat : L = Len(w) /\ DOMAIN w = 1..L
  BY DEF StreamOK
<1> DEFINE q == [k \in 1..S |-> <<m + 1, k>>]
<1>1. m \in Nat /\ w \in Seq(Nat \X (1..S)) /\ S \in Nat /\ S >= 1 /\ L \in Nat /\ L = Len(w) /\ DOMAIN w = 1..L
  BY <1>s, <1>l DEF StreamOK
<1>v. v = w \o q
  BY <1>s
<1>2. q \in Seq(Nat \X (1..S)) /\ Len(q) = S
  BY ONLY <1>1
<1>3. v \in Seq(Nat \X (1..S)) /\ Len(v) = L + S /\ DOMAIN v = 1..(L + S) /\ v # <<>>
  BY ONLY <1>1, <1>2, <1>v
<1>4. \A i \in 1..L : i \in 1..(L + S) /\ v[i] = w[i]
  BY ONLY <1>1, <1>2, <1>v
<1>5. \A k \in 1..S : L + k \in 1..(L + S) /\ v[L + k] = <<m + 1, k>>
  <2> SUFFICES ASSUME NEW k \in 1..S
               PROVE  L + k \in 1..(L + S) /\ v[L + k] = q[k]
    OBVIOUS
  <2>1. L + k \in 1..(L + S) /\ L + k > L /\ (L + k) - L = k
    BY <1>1
  <2>2. PICK i \in 1..(L + S) : i = L + k /\ i > L /\ i - L = k
    BY <2>1
  <2>3. v[i] = q[i - L]
    BY ONLY <1>1, <1>2, <1>v, <2>2
  <2> QED
    BY <2>1, <2>2, <2>3
<1>p. \A k \in 1..S : v[L + k][1] = m + 1 /\ v[L + k][2] = k
  <2> SUFFICES ASSUME NEW k \in 1..S
               PROVE  v[L + k][1] = m + 1 /\ v[L + k][2] = k
    OBVIOUS
  <2>1. v[L + k] = <<m + 1, k>>
    BY <1>5
  <2>2. PICK x : x = m + 1
    OBVIOUS
  <2>3. v[L + k] = <<x, k>>
    BY ONLY <2>1, <2>2, Zenon
  <2>4. v[L + k][1] = x /\ v[L + k][2] = k
    BY ONLY <2>3
  <2> QED
    BY ONLY <2>2, <2>4, Zenon
<1>6. \A i \in 1..(L + S) : i \in 1..L \/ \E k \in 1..S : i = L + k
  <2> SUFFICES ASSUME NEW i \in 1..(L + S), i \notin 1..L
               PROVE  \E k \in 1..S : i = L + k
    OBVIOUS
  <2>1. i - L \in 1..S /\ i = L + (i - L)
    BY <1>1
  <2> QED
    BY <2>1
<1>7. Whole(m + 1, v)
  <2>1. v # <<>> /\ S \in 1..S
    BY ONLY <1>1, <1>3
  <2>2. v[L + S] = <<m + 1, S>>
    BY <1>5, <2>1
  <2> QED
    BY <1>s, <1>3, <2>1, <2>2 DEF Whole
<1>8. v[1] = <<1, 1>>
  <2>1. CASE w = <<>>
    <3>1. m = 0 /\ L = 0 /\ 1 \in 1..S
      BY <1>1, <2>1 DEF Whole
    <3>2. v[L + 1] = <<m + 1, 1>>
      BY <1>5, <3>1
    <3>3. L + 1 = 1 /\ m + 1 = 1
      BY ONLY <3>1
    <3> QED
      BY ONLY <3>2, <3>3, Zenon
  <2>2. CASE w # <<>>
    <3>1. 1 \in 1..L
      BY <1>1, <2>2
    <3> QED
      BY <1>4, <2>2, <3>1 DEF Contiguous
  <2> QED
    BY <2>1, <2>2
<1>9. ASSUME NEW i \in 1..(L + S), NEW k \in 1..S, i - v[i][2] + k \in 1..(L + S)
      PROVE  v[i - v[i][2] + k] = <<v[i][1], k>>
  <2>1. CASE i \in 1..L
    <3>1. PICK h \in 1..S : h = w[i][2]
      BY <1>1, <2>1
    <3>2. PICK j \in 1..(L + S) : j = i - h + k
      BY <1>4, <1>9, <2>1, <3>1
    <3>3. \A b \in 1..S : i - h + b \in 1..L => w[i - h + b] = <<w[i][1], b>>
      BY <1>s, <1>1, <2>1, <3>1 DEF Contiguous
    <3>4. j \in 1..L
      <4> SUFFICES ASSUME j > L PROVE FALSE
        BY <1>1
      <4>0. /\ L \in Nat /\ S \in Nat /\ i \in 1..L /\ h \in 1..S /\ k \in 1..S
            /\ j = i - h + k /\ j > L
        BY <1>1, <2>1, <3>1, <3>2
      <4>1. PICK b \in Int : b = L - (i - h)
        BY ONLY <4>0
      <4>2. b \in 1..S /\ b < S /\ i - h + b = L /\ L \in 1..L
        BY ONLY <4>0, <4>1
      <4>3. w[L] = <<w[i][1], b>>
        BY <3>3, <4>2
      <4>4. w # <<>>
        BY <1>1, <4>2
      <4>5. w[L] = <<m, S>>
        BY <1>s, <1>1, <4>4 DEF Whole
      <4> QED
        BY <4>2, <4>3, <4>5
    <3>5. w[j] = <<w[i][1], k>>
      BY <3>2, <3>3, <3>4
    <3> QED
      BY <1>4, <2>1, <3>1, <3>2, <3>4, <3>5
  <2>2. CASE i \notin 1..L
    <3>1. PICK h \in 1..S : i = L + h
      BY <1>6, <2>2
    <3>2. v[i] = <<m + 1, h>>
      BY <1>5, <3>1
    <3>3. i - h + k = L + k
      BY <1>1, <3>1
    <3>4. v[i][1] = m + 1 /\ v[i][2] = h
      BY <1>p, <3>1
    <3> QED
      BY ONLY <1>5, <3>3, <3>4, k \in 1..S, Zenon
  <2> QED
    BY <2>1, <2>2
<1>10. ASSUME NEW i \in 1..(L + S), i + 1 \in 1..(L + S), v[i][2] = S
       PROVE  v[i + 1] = <<v[i][1] + 1, 1>>
  <2>1. CASE i + 1 \in 1..L
    <3>1. i \in 1..L
      BY <1>1, <2>1
    <3> QED
      BY <1>s, <1>1, <1>4, <1>10, <2>1, <3>1 DEF Contiguous
  <2>2. CASE i = L
    <3>1. L \in 1..L /\ w # <<>> /\ 1 \in 1..S
      BY <1>1, <2>2
    <3>2. v[L] = <<m, S>> /\ v[L + 1] = <<m + 1, 1>>
      BY <1>s, <1>1, <1>4, <1>5, <3>1 DEF Whole
    <3>3. v[i + 1] = <<m + 1, 1>> /\ v[i][1] = m
      BY ONLY <2>2, <3>2, Pair, Zenon
    <3> QED
      BY ONLY <3>3, Zenon
  <2>3. CASE i > L
    <3>1. i \notin 1..L
      BY <1>1, <2>3
    <3>2. PICK h \in 1..S : i = L + h
      BY <1>6, <3>1
    <3>3. h = S
      BY <1>p, <1>10, <3>2
    <3> QED
      BY <1>1, <1>10, <3>2, <3>3
  <2> QED
    <3>1. i + 1 \in 1..L \/ i = L \/ i > L
      BY ONLY <1>1, i \in 1..(L + S)
    <3> QED
      BY <2>1, <2>2, <2>3, <3>1
<1>11. Contiguous(v)
  BY <1>s, <1>3, <1>8, <1>9, <1>10 DEF Contiguous
<1> QED
  BY <1>1, <1>3, <1>4, <1>7, <1>11

LEMMA CutWhole ==
    ASSUME NEW m, NEW w, StreamOK(m, w), Contiguous(w), NEW k \in 0..Len(w), NEW v,
           v = SubSeq(w, 1, k)
    PROVE  /\ Contiguous(v)
           /\ \A t \in DOMAIN w : t <= k => t \in DOMAIN v /\ v[t] = w[t]
<1>1. w \in Seq(Nat \X (1..(Header + Body))) /\ DOMAIN w = 1..Len(w) /\ Len(w) \in Nat
  BY DEF StreamOK
<1>2. /\ v \in Seq(Nat \X (1..(Header + Body))) /\ Len(v) = k /\ DOMAIN v = 1..k
      /\ \A i \in 1..k : i \in DOMAIN w /\ v[i] = w[i]
  BY <1>1
<1>3. v # <<>> => w # <<>> /\ 1 \in 1..k
  BY <1>1, <1>2
<1>4. \A t \in DOMAIN w : t <= k => t \in 1..k
  BY <1>1
<1>5. \A i \in 1..k : \A b \in 1..Size :
        i - v[i][2] + b \in 1..k => v[i - v[i][2] + b] = <<v[i][1], b>>
  <2> SUFFICES ASSUME NEW i \in 1..k, NEW b \in 1..Size, NEW j \in 1..k, j = i - v[i][2] + b
               PROVE  v[j] = <<v[i][1], b>>
    OBVIOUS
  <2> QED
    BY <1>2 DEF Contiguous
<1>6. \A i \in 1..k : i + 1 \in 1..k /\ v[i][2] = Size => v[i + 1] = <<v[i][1] + 1, 1>>
  BY <1>2 DEF Contiguous
<1>7. v # <<>> => v[1] = <<1, 1>>
  BY <1>2, <1>3 DEF Contiguous
<1> QED
  BY <1>2, <1>4, <1>5, <1>6, <1>7 DEF Contiguous

(* The next header is found, and with it the message it belongs to.        *)
LEMMA HeaderPosition ==
    ASSUME Types, NEW e \in Ends, NEW m, StreamOK(m, stream[e]), Contiguous(stream[e]),
           NEW t \in Nat, NEW l \in Nat, t + Header <= Len(stream[e]),
           Between(stream[e], t, l), NEW f \in Headers(e, t)
    PROVE  Inside(stream[e], t + Header, l, f)
<1>w. PICK w : w = stream[e]
  OBVIOUS
<1>0. w \in Seq(Nat \X (1..(Header + Body))) /\ DOMAIN w = 1..Len(w) /\ Len(w) \in Nat
  BY <1>w DEF StreamOK
<1>1. /\ t + 1 \in DOMAIN w /\ t + Header \in DOMAIN w /\ Header \in 1..Header
      /\ w # <<>> /\ (t # 0 => t \in DOMAIN w)
      /\ \A k \in 1..Header : /\ k \in 1..Size /\ (t + 1) - 1 + k = t + k
                               /\ t + k \in DOMAIN w
  <2>1. t + Header <= Len(w)
    BY <1>w
  <2>2. DOMAIN w = 1..Len(w) /\ Len(w) \in Nat
    BY <1>0
  <2>3. 1 \in 1..Len(w)
    BY <2>1, <2>2
  <2>4. w # <<>>
    BY <1>0, <2>3
  <2> QED
    BY <2>1, <2>2, <2>4
<1>2. w[t + 1] = <<l + 1, 1>>
  <2>1. CASE t = 0
    BY <1>w, <1>1, <2>1 DEF Between, Contiguous
  <2>2. CASE t # 0
    <3>1. t \in DOMAIN w /\ w[t] = <<l, Size>>
      BY <1>w, <1>1, <2>2 DEF Between
    <3>2. w[t][2] = Size /\ w[t][1] = l
      BY <3>1
    <3> QED
      BY <1>w, <1>1, <3>1, <3>2 DEF Contiguous
  <2> QED
    BY <2>1, <2>2
<1>3. \A k \in 1..Header : w[t + k] = <<l + 1, k>>
  <2>1. w[t + 1][2] = 1 /\ w[t + 1][1] = l + 1
    BY <1>2
  <2> SUFFICES ASSUME NEW k \in 1..Header PROVE w[t + k] = <<l + 1, k>>
    OBVIOUS
  <2>2. k \in 1..Size /\ (t + 1) - w[t + 1][2] + k = t + k /\ t + k \in DOMAIN w
    BY <1>1, <2>1
  <2>3. t + 1 \in DOMAIN w /\ Contiguous(w)
    BY <1>w, <1>1
  <2> QED
    BY <2>1, <2>2, <2>3 DEF Contiguous
<1>4. f = [at |-> "body", n |-> l + 1, need |-> Body, good |-> TRUE]
  <2>1. w[t + 1][1] = l + 1
    BY <1>2
  <2> QED
    BY <1>w, <1>3, <2>1 DEF Headers
<1>5. Size - Body = Header /\ Body \in 1..Body
  OBVIOUS
<1> QED
  BY <1>w, <1>1, <1>3, <1>4, <1>5 DEF Inside

(* What readMessageData, syncRequest and readOneMessage leave behind.      *)
LEMMA WritesNoBody ==
    ASSUME NEW w, NEW t, NEW l, NEW s \in Seq(Frame), Writes(s), Between(w, t, l)
    PROVE  Position(w, t, l, s)
<1>1. s # <<>> => 1 \in DOMAIN s
  OBVIOUS
<1> QED
  BY <1>1 DEF Writes, Position

LEMMA ReadHeaderPosition ==
    ASSUME Types, NEW e \in Ends, NEW m, StreamOK(m, stream[e]), Contiguous(stream[e]),
           NEW t \in Nat, NEW l \in Nat, t + Header <= Len(stream[e]),
           Between(stream[e], t, l), NEW fs \in Seq(Frame), ReadHeader(e, t, fs),
           stack' \in [Ends -> Seq(Frame)]
    PROVE  Position(stream[e], taken'[e], l, stack'[e])
<1>1. PICK f \in Headers(e, t) : stack' = [stack EXCEPT ![e] = <<f>> \o fs]
  BY DEF ReadHeader
<1>2. taken'[e] = t + Header /\ stack'[e] = <<f>> \o fs
  BY <1>1 DEF ReadHeader, Types
<1>3. f.at = "body"
  <2>1. \/ \E n : f = [at |-> "body", n |-> n, need |-> Body, good |-> TRUE]
        \/ \E k : f = [at |-> "body", n |-> 0, need |-> k, good |-> FALSE]
    BY DEF Headers
  <2> QED
    BY <2>1
<1>4. (<<f>> \o fs)[1] = f /\ <<f>> \o fs # <<>>
  <2>1. fs \in Seq(Frame \cup {f})
    OBVIOUS
  <2> QED
    BY <2>1, Push
<1>5. Inside(stream[e], t + Header, l, f)
  BY HeaderPosition
<1> QED
  BY <1>2, <1>3, <1>4, <1>5 DEF Position

LEMMA ReadOnPosition ==
    ASSUME Types, NEW e \in Ends, NEW m, NEW a, NEW t, NEW d,
           ReadOK(m, stream[e], a, t, d), Contiguous(stream[e]),
           NEW l \in Nat, NEW fs \in Seq(Frame), Writes(fs), ReadMessageData(e, a, t, fs),
           stack' \in [Ends -> Seq(Frame)]
    PROVE  /\ Between(stream[e], t, l) => Position(stream[e], taken'[e], l, stack'[e])
           /\ t = Len(stream[e]) => taken'[e] = t
<1>1. StreamOK(m, stream[e]) /\ t \in Nat /\ a \in Nat /\ t <= a /\ a <= Len(stream[e])
  BY DEF ReadOK
<1>2. Len(stream[e]) \in Nat
  BY DEF Types
<1>3. CASE a - t < Header
  <2>1. taken'[e] = t /\ stack'[e] = fs
    BY <1>3 DEF ReadMessageData, Types
  <2> QED
    BY <2>1, WritesNoBody
<1>4. CASE ~(a - t < Header)
  <2>1. t + Header <= Len(stream[e]) /\ t # Len(stream[e])
    BY <1>1, <1>2, <1>4
  <2>2. ReadHeader(e, t, fs)
    BY <1>4 DEF ReadMessageData
  <2> QED
    BY <1>1, <2>1, <2>2, ReadHeaderPosition
<1> QED
  BY <1>3, <1>4

LEMMA GoOnPosition ==
    ASSUME Types, NEW e \in Ends, NEW m, NEW t, NEW d,
           ReadOK(m, stream[e], arrived[e], t, d), Contiguous(stream[e]),
           NEW l \in Nat, NEW fs, Floor(fs), GoOn(e, t, fs), stack' \in [Ends -> Seq(Frame)]
    PROVE  /\ Between(stream[e], t, l) => Position(stream[e], taken'[e], l, stack'[e])
           /\ t = Len(stream[e]) => taken'[e] = t
<1>1. fs \in Seq(Frame)
  BY DEF Floor
<1>2. CASE Syncs(fs)
  <2>1. taken'[e] = t /\ stack'[e] = Tail(fs)
    BY <1>2 DEF GoOn, SyncReturns, Types
  <2>2. Writes(Tail(fs)) /\ Tail(fs) \in Seq(Frame)
    BY <1>2, FloorShape, UnderSync
  <2> QED
    BY <2>1, <2>2, WritesNoBody
<1>3. CASE ~Syncs(fs)
  <2>1. Writes(fs) /\ ReadMessageData(e, arrived[e], t, fs)
    BY <1>3 DEF Floor, GoOn
  <2> QED
    BY <1>1, <2>1, ReadOnPosition
<1> QED
  BY <1>2, <1>3

-----------------------------------------------------------------------------
LEMMA LostOneEnd ==
    ASSUME LostInv, SocketInv', NEW e \in Ends,
           sent' = sent, stream' = stream, open' = open,
           \A p \in Ends \ {e} : /\ delivered'[p] = delivered[p] /\ taken'[p] = taken[p]
                                 /\ stack'[p] = stack[p],
           timeouts' = 0 => timeouts = 0 /\ AllRead(e)' /\ (open[e] => Place(e)')
    PROVE  LostInv'
<1>1. \A p \in Ends : StreamWhole(p)'
  BY DEF LostInv, StreamWhole
<1>2. ASSUME timeouts' = 0, NEW p \in Ends
      PROVE  AllRead(p)' /\ (open'[p] => Place(p)')
  <2>1. CASE p = e
    BY <1>2, <2>1
  <2>2. CASE p # e
    <3>1. AllRead(p) /\ (open[p] => Place(p))
      BY <1>2 DEF LostInv
    <3>2. /\ delivered'[p] = delivered[p] /\ taken'[p] = taken[p] /\ stack'[p] = stack[p]
          /\ stream'[p] = stream[p] /\ open'[p] = open[p] /\ open'[Peer(p)] = open[Peer(p)]
      BY <2>2
    <3> QED
      BY <3>1, <3>2 DEF AllRead, Place, Finished
  <2> QED
    BY <2>1, <2>2
<1> QED
  BY <1>1, <1>2 DEF LostInv

(* What the invariants say of an end, by name.                             *)
LEMMA LostFacts ==
    ASSUME LostInv, NEW e \in Ends
    PROVE  /\ SocketInv /\ StreamWhole(e) /\ Contiguous(stream[e])
           /\ timeouts = 0 => AllRead(e) /\ (open[e] => Place(e))
           /\ StreamOK(Len(sent[e]), stream[e])
           /\ Len(delivered[e]) \in Nat /\ taken[e] \in Nat /\ arrived[e] \in Nat
           /\ Len(stream[e]) \in Nat /\ taken[e] <= arrived[e] /\ arrived[e] <= Len(stream[e])
<1>1. SocketInv /\ StreamWhole(e) /\ Contiguous(stream[e])
      /\ (timeouts = 0 => AllRead(e) /\ (open[e] => Place(e)))
  BY DEF LostInv, StreamWhole
<1>2. StreamOK(Len(sent[e]), stream[e]) /\ taken[e] <= arrived[e] /\ arrived[e] <= Len(stream[e])
  BY <1>1, EndFacts DEF ReadOK
<1>3. Len(delivered[e]) \in Nat /\ taken[e] \in Nat /\ arrived[e] \in Nat /\ Len(stream[e]) \in Nat
  BY <1>1, EndFacts DEF Types
<1> QED
  BY <1>1, <1>2, <1>3

(* The same is read, the same was taken, and no body is or was begun.      *)
LEMMA SamePlace ==
    ASSUME NEW w, NEW t, NEW l, NEW s, NEW r, Position(w, t, l, s),
           s = <<>> \/ s[1].at # "body", r = <<>> \/ r[1].at # "body"
    PROVE  Position(w, t, l, r)
  BY DEF Position

LEMMA LostSend ==
    ASSUME LostInv, SocketInv', NEW e \in Ends, NEW msg \in Message, NEW fs \in Seq(Frame),
           SendMessage(e, msg, fs), open[e], stack[e] = <<>> \/ stack[e][1].at # "body",
           UNCHANGED <<taken, open, delivered, timeouts>>
    PROVE  LostInv'
<1>0. PICK p \in Ends : p = Peer(e) /\ e = Peer(p) /\ p # e /\ Ends = {e, p}
  BY DEF Ends, Peer
<1>1. PICK m : m = Len(sent[p])
  OBVIOUS
<1>2. /\ sent'[p] = Append(sent[p], msg) /\ sent'[e] = sent[e] /\ stream'[e] = stream[e]
      /\ stack'[p] = stack[p] /\ stack'[e] = <<At("write", 0)>> \o fs
      /\ ~open[p] => stream'[p] = stream[p]
      /\ open[p] => stream'[p] = stream[p] \o [k \in 1..(Header + Body) |-> <<m + 1, k>>]
  BY <1>0, <1>1, LostFacts, EndFacts DEF SendMessage, Types
<1>3. m \in Nat /\ Len(sent'[p]) = m + 1
  <2>1. sent[p] \in Seq(Message)
    BY LostFacts, EndFacts DEF Types
  <2> QED
    BY <1>1, <1>2, <2>1
<1>4. \A q \in Ends : /\ taken'[q] = taken[q] /\ delivered'[q] = delivered[q]
                      /\ open'[q] = open[q]
  OBVIOUS
<1>5. /\ StreamWhole(p)'
      /\ \A t \in DOMAIN stream[p] : t \in DOMAIN stream'[p] /\ stream'[p][t] = stream[p][t]
  <2>1. CASE ~open[p]
    BY <1>2, <1>4, <2>1, LostFacts DEF StreamWhole
  <2>2. CASE open[p]
    <3>1. StreamOK(m, stream[p]) /\ Contiguous(stream[p]) /\ Whole(m, stream[p])
      BY <1>0, <1>1, <2>2, LostFacts DEF StreamWhole
    <3>2. /\ Contiguous(stream'[p]) /\ Whole(m + 1, stream'[p])
          /\ \A t \in DOMAIN stream[p] : t \in DOMAIN stream'[p] /\ stream'[p][t] = stream[p][t]
      BY <1>2, <2>2, <3>1, GrowWhole
    <3> QED
      BY <1>3, <3>2 DEF StreamWhole
  <2> QED
    BY <2>1, <2>2
<1>6. StreamWhole(e)'
  BY <1>2, <1>4, LostFacts DEF StreamWhole
<1>7. ASSUME timeouts' = 0, NEW q \in Ends
      PROVE  AllRead(q)' /\ (open'[q] => Place(q)')
  <2>1. AllRead(q) /\ (open[q] => Place(q))
    BY <1>7, LostFacts
  <2>2. AllRead(q)'
    BY <1>4, <2>1 DEF AllRead
  <2>3. ASSUME q = e
        PROVE  Place(q)'
    <3>1. (<<At("write", 0)>> \o fs)[1].at = "write"
      <4>1. At("write", 0) \in Frame /\ At("write", 0).at = "write"
        BY DEF At, Frame
      <4> QED
        BY <4>1, Push
    <3>2. Finished(e) \/ Position(stream[e], taken[e], Len(delivered[e]), stack[e])
      BY <2>1, <2>3 DEF Place
    <3>3. Position(stream[e], taken[e], Len(delivered[e]), stack[e])
            => Position(stream'[e], taken'[e], Len(delivered'[e]), stack'[e])
      BY <1>2, <1>4, <3>1, SamePlace
    <3>4. Finished(e) => Finished(e)'
      BY <1>0, <1>2, <1>4 DEF Finished
    <3> QED
      BY <2>3, <3>2, <3>3, <3>4 DEF Place
  <2>4. ASSUME q = p, open[q]
        PROVE  Place(q)'
    <3>1. ~Finished(p)
      BY <1>0 DEF Finished
    <3>2. Position(stream[p], taken[p], Len(delivered[p]), stack[p])
      BY <2>1, <2>4, <3>1 DEF Place
    <3>3. taken[p] # 0 => taken[p] \in DOMAIN stream[p]
      <4>1. /\ taken[p] \in Nat /\ Len(stream[p]) \in Nat /\ taken[p] <= Len(stream[p])
            /\ DOMAIN stream[p] = 1..Len(stream[p])
        <5>1. stream[p] \in Seq(Nat \X (1..Size))
          BY LostFacts, EndFacts DEF Types
        <5>2. DOMAIN stream[p] = 1..Len(stream[p])
          BY <5>1
        <5>3. taken[p] \in Nat /\ arrived[p] \in Nat /\ Len(stream[p]) \in Nat
              /\ taken[p] <= arrived[p] /\ arrived[p] <= Len(stream[p])
          BY LostFacts
        <5> QED
          BY <5>2, <5>3
      <4> QED
        BY ONLY <4>1
    <3>4. Position(stream'[p], taken'[p], Len(delivered'[p]), stack'[p])
      BY <1>2, <1>4, <1>5, <3>2, <3>3 DEF Position, Inside, Between
    <3> QED
      BY <2>4, <3>4 DEF Place
  <2> QED
    BY <1>0, <1>4, <2>2, <2>3, <2>4
<1> QED
  BY <1>0, <1>5, <1>6, <1>7 DEF LostInv

LEMMA LostRequest ==
    ASSUME LostInv, SocketInv', NEW e \in Ends, Request(e)
    PROVE  LostInv'
<1>1. PICK id \in Ids : SendRequest(e, id, stack[e])
  BY DEF Request
<1> DEFINE msg == [kind |-> "request", id |-> id, re |-> 0]
<1>2. open[e] /\ SendMessage(e, msg, stack[e]) /\ msg \in Message
  BY <1>1 DEF SendRequest, Message
<1>3. stack[e] = <<>> \/ stack[e][1].at # "body"
  BY LostFacts, Innermost DEF Request
<1>4. stack[e] \in Seq(Frame)
  BY LostFacts, EndFacts
<1> QED
  BY <1>2, <1>3, <1>4, LostSend DEF Request

LEMMA LostAnswer ==
    ASSUME LostInv, SocketInv', NEW e \in Ends, Answer(e)
    PROVE  LostInv'
<1> DEFINE n == Top(e).n
           fs == <<At("handled", n)>> \o Below(e)
           msg == [kind |-> "response", id |-> sent[e][n].id, re |-> n]
<1>1. IsAt(e, {"handle"}) /\ SocketInv
  BY LostFacts DEF Answer
<1>2. open[e] /\ Top(e) \in Frame /\ stack[e][1].at = "handle" /\ 1 \in DOMAIN stack[e]
      /\ stack[e][1] = Top(e)
  BY <1>1, Innermost
<1>3. n \in 1..Len(sent[e]) /\ n \in Nat
  BY <1>1, <1>2, EndFacts DEF StackOK, Frame
<1>4. msg \in Message
  <2>1. sent[e] \in Seq(Message)
    BY <1>1, EndFacts DEF Types
  <2>2. sent[e][n] \in Message
    BY <1>3, <2>1
  <2> QED
    BY <1>3, <2>2 DEF Message
<1>5. fs \in Seq(Frame)
  <2>1. Below(e) \in Seq(Frame)
    BY <1>1, Reading DEF IsAt, Floor
  <2>2. At("handled", n) \in Frame
    BY <1>3 DEF At, Frame
  <2> QED
    BY <2>1, <2>2, Push
<1>6. SendMessage(e, msg, fs) /\ UNCHANGED <<taken, open, delivered, timeouts>>
  BY DEF Answer
<1> QED
  BY <1>2, <1>4, <1>5, <1>6, LostSend

LEMMA LostSyncRequest ==
    ASSUME LostInv, SocketInv', SyncRequest
    PROVE  LostInv'
<1> DEFINE f == At("sync", Len(sent["plugin"]) + 1)
<1>0. "server" \in Ends /\ "plugin" \in Ends
  BY DEF Ends
<1>1. PICK id \in Ids : SendRequest("server", id, <<f>>)
  BY DEF SyncRequest
<1> DEFINE msg == [kind |-> "request", id |-> id, re |-> 0]
<1>2. open["server"] /\ SendMessage("server", msg, <<f>>) /\ msg \in Message
  BY <1>1 DEF SendRequest, Message
<1>3. <<f>> \in Seq(Frame)
  <2>1. Len(sent["plugin"]) \in Nat
    BY <1>0, LostFacts, EndFacts DEF Types
  <2>2. f \in Frame
    BY <2>1 DEF At, Frame
  <2> QED
    BY <2>2
<1> HIDE DEF f
<1> QED
  BY <1>0, <1>2, <1>3, LostSend DEF SyncRequest

LEMMA LostWriteReturns ==
    ASSUME LostInv, SocketInv', NEW e \in Ends, WriteReturns(e)
    PROVE  LostInv'
<1>1. /\ stack[e] # <<>> /\ stack[e][1].at = "write" /\ stack' = [stack EXCEPT ![e] = Below(e)]
      /\ SocketInv
  BY LostFacts, Innermost DEF WriteReturns, IsAt, Top
<1>2. stack'[e] = Below(e) /\ taken' = taken /\ delivered' = delivered
  BY <1>1, EndFacts DEF WriteReturns, Types
<1>3. Below(e) = <<>> \/ Below(e)[1].at # "body"
  <2>1. Below(e) \in Seq(Frame) /\ \A k \in DOMAIN Below(e) : Below(e)[k].at # "body"
    BY <1>1, EndFacts, ShapeTail DEF Below
  <2>2. Below(e) # <<>> => 1 \in DOMAIN Below(e)
    BY <2>1
  <2> QED
    BY <2>1, <2>2
<1>4. timeouts = 0 => AllRead(e)' /\ (open[e] => Place(e)')
  <2> SUFFICES ASSUME timeouts = 0
               PROVE  AllRead(e)' /\ (open[e] => Place(e)')
    OBVIOUS
  <2>1. AllRead(e) /\ (open[e] => Finished(e)
          \/ Position(stream[e], taken[e], Len(delivered[e]), stack[e]))
    BY LostFacts DEF Place
  <2>2. Position(stream[e], taken[e], Len(delivered[e]), stack[e])
          => Position(stream[e], taken[e], Len(delivered[e]), Below(e))
    BY <1>1, <1>3, SamePlace
  <2>3. stream' = stream /\ open' = open
    BY DEF WriteReturns
  <2> QED
    BY <1>2, <2>1, <2>2, <2>3 DEF AllRead, Place, Finished
<1>5. \A p \in Ends \ {e} : stack'[p] = stack[p]
  BY <1>1, EndFacts DEF Types
<1> QED
  BY <1>2, <1>4, <1>5, LostOneEnd DEF WriteReturns

LEMMA LostArrive ==
    ASSUME LostInv, SocketInv', NEW e \in Ends, Arrive(e)
    PROVE  LostInv'
<1> DEFINE l == Len(delivered[e])
           w == stream[e]
           t == taken[e]
<1>0. SocketInv /\ Types /\ stack' \in [Ends -> Seq(Frame)] /\ open[e]
  BY LostFacts, EndFacts DEF SocketInv, Types, Arrive
<1>1. PICK a \in (arrived[e] + 1)..Len(stream[e]) :
         IF listening[e] THEN ReadMessageData(e, a, taken[e], stack[e])
         ELSE IF IsAt(e, {"sync"}) /\ a - taken[e] >= Header
         THEN ReadHeader(e, taken[e], stack[e]) /\ UNCHANGED listening
         ELSE UNCHANGED <<taken, stack, listening>>
  BY DEF Arrive
<1>2. a \in Nat /\ t \in Nat /\ t < a /\ a <= Len(w) /\ l \in Nat /\ arrived[e] <= a
  BY LostFacts
<1>3. UNCHANGED <<sent, stream, open, delivered, timeouts>>
  BY DEF Arrive
<1>4. \A p \in Ends \ {e} : taken'[p] = taken[p] /\ stack'[p] = stack[p]
  BY <1>0, <1>1 DEF ReadMessageData, ReadHeader, Types
<1>5. ASSUME timeouts = 0
      PROVE  AllRead(e)' /\ Place(e)'
  <2>1. AllRead(e) /\ Place(e)
    BY <1>0, <1>5, LostFacts
  <2>2. t # Len(w)
    BY <1>2, LostFacts
  <2>3. Position(w, t, l, stack[e])
    BY <2>1, <2>2 DEF Place, Finished
  <2>4. Position(w, taken'[e], l, stack'[e])
    <3>1. CASE listening[e]
      <4>1. Writes(stack[e]) /\ stack[e] \in Seq(Frame)
        BY <1>0, <3>1, EndFacts DEF ListenOK
      <4>2. stack[e] # <<>> => stack[e][1].at = "write"
        BY <4>1, Pop DEF Writes
      <4>3. Between(w, t, l)
        BY <2>3, <4>2 DEF Position
      <4>4. ReadOK(Len(sent[e]), w, a, t, delivered[e])
        BY <1>0, <1>2, EndFacts, Arrived
      <4>5. ReadMessageData(e, a, t, stack[e])
        BY <1>1, <3>1
      <4> QED
        BY <1>0, <1>2, <4>1, <4>3, <4>4, <4>5, LostFacts, ReadOnPosition
    <3>2. CASE ~listening[e] /\ IsAt(e, {"sync"}) /\ a - t >= Header
      <4>1. stack[e] # <<>> /\ stack[e][1].at = "sync" /\ stack[e] \in Seq(Frame)
        BY <1>0, <3>2, Innermost, EndFacts DEF Top
      <4>2. Between(w, t, l)
        BY <2>3, <4>1 DEF Position
      <4>3. t + Header <= Len(w)
        BY <1>2, <3>2, LostFacts
      <4>4. ReadHeader(e, t, stack[e])
        BY <1>1, <3>2
      <4> QED
        BY <1>0, <1>2, <4>1, <4>2, <4>3, <4>4, LostFacts, ReadHeaderPosition
    <3>3. CASE ~listening[e] /\ ~(IsAt(e, {"sync"}) /\ a - t >= Header)
      BY <1>1, <2>3, <3>3
    <3> QED
      BY <3>1, <3>2, <3>3
  <2> QED
    BY <1>3, <2>1, <2>4 DEF AllRead, Place
<1> QED
  BY <1>3, <1>4, <1>5, LostOneEnd

LEMMA LostBodyTimeout ==
    ASSUME LostInv, SocketInv', NEW e \in Ends, BodyTimeout(e)
    PROVE  LostInv'
<1>0. SocketInv /\ Types /\ stack' \in [Ends -> Seq(Frame)]
  BY LostFacts, EndFacts DEF SocketInv, Types
<1>1. IsAt(e, {"body"}) /\ GoOn(e, taken[e], Below(e)) /\ taken[e] = arrived[e]
      /\ UNCHANGED <<sent, stream, open, delivered>>
  BY DEF BodyTimeout
<1>2. Floor(Below(e))
  BY <1>0, <1>1, Reading DEF IsAt
<1>3. \A p \in Ends \ {e} : taken'[p] = taken[p] /\ stack'[p] = stack[p]
  BY <1>0, <1>1 DEF GoOn, SyncReturns, ReadMessageData, ReadHeader, Types
<1>4. ASSUME timeouts' = 0
      PROVE  timeouts = 0 /\ AllRead(e)' /\ Place(e)'
  <2>1. ~open[Peer(e)] /\ arrived[e] = Len(stream[e]) /\ timeouts' = timeouts
    BY <1>0, <1>4 DEF BodyTimeout, Types
  <2>2. taken'[e] = taken[e]
    BY <1>0, <1>1, <1>2, <2>1, EndFacts, LostFacts, GoOnPosition
  <2>3. AllRead(e)
    BY <1>4, <2>1, LostFacts
  <2> QED
    BY <1>1, <1>4, <2>1, <2>2, <2>3 DEF AllRead, Place, Finished
<1> QED
  BY <1>1, <1>3, <1>4, LostOneEnd

LEMMA LostHandlerReturns ==
    ASSUME LostInv, SocketInv', NEW e \in Ends, HandlerReturns(e)
    PROVE  LostInv'
<1> DEFINE l == Len(delivered[e])
<1>0. SocketInv /\ Types /\ stack' \in [Ends -> Seq(Frame)]
  BY LostFacts, EndFacts DEF SocketInv, Types
<1>1. IsAt(e, {"handled"}) /\ GoOn(e, taken[e], Below(e))
      /\ UNCHANGED <<sent, stream, open, delivered, timeouts>>
  BY DEF HandlerReturns
<1>2. Floor(Below(e)) /\ open[e] /\ stack[e] # <<>> /\ stack[e][1].at = "handled"
  BY <1>0, <1>1, Reading, Innermost DEF IsAt
<1>3. \A p \in Ends \ {e} : taken'[p] = taken[p] /\ stack'[p] = stack[p]
  BY <1>0, <1>1 DEF GoOn, SyncReturns, ReadMessageData, ReadHeader, Types
<1>4. ASSUME timeouts = 0
      PROVE  AllRead(e)' /\ Place(e)'
  <2>1. AllRead(e) /\ Place(e)
    BY <1>2, <1>4, LostFacts
  <2>2. Finished(e) \/ Between(stream[e], taken[e], l)
    BY <1>2, <2>1 DEF Place, Position
  <2>3. /\ Between(stream[e], taken[e], l) => Position(stream[e], taken'[e], l, stack'[e])
        /\ taken[e] = Len(stream[e]) => taken'[e] = taken[e]
    BY <1>0, <1>1, <1>2, EndFacts, LostFacts, GoOnPosition
  <2> QED
    BY <1>1, <2>1, <2>2, <2>3 DEF AllRead, Place, Finished
<1> QED
  BY <1>1, <1>3, <1>4, LostOneEnd

LEMMA LostSyncTimeout ==
    ASSUME LostInv, SocketInv', SyncTimeout
    PROVE  LostInv'
<1>e. PICK e \in Ends : e = "server"
  BY DEF Ends
<1> DEFINE l == Len(delivered[e])
<1>0. SocketInv /\ Types /\ stack' \in [Ends -> Seq(Frame)]
  BY LostFacts, EndFacts DEF SocketInv, Types
<1>1. IsAt(e, {"sync"}) /\ SyncReturns(e, taken[e], 0, stack[e])
      /\ UNCHANGED <<sent, stream, open, delivered, timeouts>>
  BY <1>e DEF SyncTimeout
<1>2. open[e] /\ stack[e] # <<>> /\ stack[e][1].at = "sync" /\ Syncs(stack[e])
  BY <1>0, <1>1, Innermost DEF IsAt, Top, Syncs
<1>3. taken'[e] = taken[e] /\ stack'[e] = Tail(stack[e])
      /\ \A p \in Ends \ {e} : taken'[p] = taken[p] /\ stack'[p] = stack[p]
  BY <1>0, <1>1 DEF SyncReturns, Types
<1>4. Writes(Tail(stack[e])) /\ Tail(stack[e]) \in Seq(Frame)
  BY <1>0, <1>2, EndFacts, UnderSync
<1>5. ASSUME timeouts = 0
      PROVE  AllRead(e)' /\ Place(e)'
  <2>1. AllRead(e) /\ Place(e)
    BY <1>2, <1>5, LostFacts
  <2>2. Finished(e) \/ Between(stream[e], taken[e], l)
    BY <1>2, <2>1 DEF Place, Position
  <2>3. Between(stream[e], taken[e], l) => Position(stream[e], taken'[e], l, stack'[e])
    BY <1>3, <1>4, WritesNoBody
  <2> QED
    BY <1>1, <1>3, <2>1, <2>2, <2>3 DEF AllRead, Place, Finished
<1> QED
  BY <1>1, <1>3, <1>5, LostOneEnd

LEMMA LostReadBody ==
    ASSUME LostInv, SocketInv', NEW e \in Ends, ReadBody(e)
    PROVE  LostInv'
<1> DEFINE l == Len(delivered[e])
           w == stream[e]
           t == taken[e]
           f == Top(e)
           fs == Below(e)
           available == arrived[e] - taken[e]
           got == IF available < f.need THEN available ELSE f.need
           good == Checked(e, f, got)
           h == [f EXCEPT !.need = @ - got, !.good = good]
<1>0. SocketInv /\ Types /\ stack' \in [Ends -> Seq(Frame)] /\ Len(w) \in Nat
      /\ t \in Nat /\ arrived[e] \in Nat /\ arrived[e] <= Len(w) /\ l \in Nat
      /\ delivered[e] \in Seq(Nat)
  BY LostFacts, EndFacts DEF SocketInv, Types
<1>1. IsAt(e, {"body"}) /\ t < arrived[e] /\ UNCHANGED <<sent, stream, arrived, open, timeouts>>
  BY DEF ReadBody
<1>2. /\ Floor(fs) /\ open[e] /\ stack[e] # <<>> /\ stack[e][1].at = "body" /\ f \in Frame
      /\ f = stack[e][1]
  BY <1>0, <1>1, Reading, Innermost DEF IsAt
<1>3. \/ /\ got < f.need
         /\ taken' = [taken EXCEPT ![e] = @ + got]
         /\ stack' = [stack EXCEPT ![e] = <<h>> \o fs]
         /\ UNCHANGED <<listening, delivered, calls>>
      \/ got = f.need /\ good /\ MessageRead(e, f.n, t + got, fs)
      \/ got = f.need /\ ~good /\ GoOn(e, t + got, fs) /\ UNCHANGED delivered
  BY DEF ReadBody
<1>4. \A p \in Ends \ {e} : /\ taken'[p] = taken[p] /\ stack'[p] = stack[p]
                            /\ delivered'[p] = delivered[p]
  BY <1>0, <1>3 DEF MessageRead, GoOn, SyncReturns, ReadMessageData, ReadHeader, Types
<1>5. ASSUME timeouts = 0
      PROVE  AllRead(e)' /\ Place(e)'
  <2>1. AllRead(e) /\ Place(e)
    BY <1>2, <1>5, LostFacts
  <2>2. Inside(w, t, l, f)
    BY <1>0, <1>1, <1>2, <2>1 DEF Place, Finished, Position
  <2>3. PICK k : k = Size - f.need
    OBVIOUS
  <2>4. /\ f.good /\ f.n = l + 1 /\ f.need \in 1..Body /\ k \in Nat /\ k \in 1..Size
        /\ t \in DOMAIN w /\ w[t] = <<l + 1, k>>
    BY <2>2, <2>3 DEF Inside
  <2>5. PICK g \in Nat : /\ g = got /\ g <= f.need /\ g >= 1
                         /\ t + g <= arrived[e] /\ t + g <= Len(w)
    <3>1. PICK a, b, n, s \in Nat :
            /\ a = arrived[e] /\ b = t /\ n = f.need /\ s = Len(w)
            /\ b < a /\ a <= s /\ n >= 1
      BY <1>0, <1>1, <2>4
    <3>2. PICK g : g = got
      OBVIOUS
    <3>3. g = IF a - b < n THEN a - b ELSE n
      BY <3>1, <3>2
    <3>4. g \in Nat /\ g <= n /\ g >= 1 /\ b + g <= a /\ b + g <= s
      BY ONLY <3>1, <3>3
    <3> QED
      BY ONLY <3>1, <3>2, <3>4, Zenon
  <2>6. \A b \in 1..g : t + b \in DOMAIN w /\ w[t + b] = <<l + 1, k + b>>
    <3> SUFFICES ASSUME NEW b \in 1..g
                 PROVE  t + b \in DOMAIN w /\ w[t + b] = <<l + 1, k + b>>
      OBVIOUS
    <3>1. DOMAIN w = 1..Len(w) /\ Len(w) \in Nat
      BY <1>0 DEF Types
    <3>2. t + b \in DOMAIN w
      <4>1. t + b \in 1..Len(w)
        BY ONLY <1>0, <2>5, <3>1, b \in 1..g
      <4> QED
        BY ONLY <3>1, <4>1
    <3>3. k + b \in 1..Size
      <4>1. PICK n \in Nat : n = f.need /\ n <= Body /\ g <= n
        BY <2>4, <2>5
      <4> QED
        BY ONLY <2>3, <2>4, <2>5, <4>1, b \in 1..g, SocketAssumption DEF Size
    <3>4. t - k + (k + b) = t + b
      BY ONLY <1>0, <2>4, <2>5, b \in 1..g
    <3>5. w[t][1] = l + 1 /\ w[t][2] = k
      BY <2>4
    <3>6. Contiguous(w)
      BY LostFacts
    <3> QED
      BY <2>4, <3>2, <3>3, <3>4, <3>5, <3>6 DEF Contiguous
  <2>7. good
    <3>1. \A b \in 1..got : stream[e][taken[e] + b] = <<f.n, Size - f.need + b>>
      BY <2>3, <2>4, <2>5, <2>6
    <3> QED
      BY <2>4, <3>1 DEF Checked
  <2>8. w[t + g] = <<l + 1, k + g>> /\ t + g \in DOMAIN w /\ t + g \in Nat /\ t + g # 0
    <3>1. g \in 1..g /\ t + g \in Nat /\ t + g # 0
      BY ONLY <1>0, <2>5
    <3> QED
      BY ONLY <2>6, <3>1
  <2>9. CASE /\ got < f.need /\ taken' = [taken EXCEPT ![e] = @ + got]
             /\ stack' = [stack EXCEPT ![e] = <<h>> \o fs] /\ UNCHANGED delivered
    <3>1. PICK r : r = h
      OBVIOUS
    <3>2. r.at = "body" /\ r.good = good /\ r.n = f.n /\ r.need = f.need - g
      BY <1>2, <2>5, <3>1 DEF Frame
    <3>3. taken'[e] = t + g /\ stack'[e] = <<r>> \o fs
      BY <1>0, <2>5, <2>9, <3>1 DEF Types
    <3>4. (<<r>> \o fs)[1] = r /\ <<r>> \o fs # <<>>
      <4>1. fs \in Seq(Frame \cup {r})
        BY <1>2 DEF Floor
      <4> QED
        BY <4>1, Push
    <3>5. k + g = Size - r.need /\ r.need \in 1..Body
      <4>1. PICK n \in Nat : n = f.need /\ n <= Body /\ g < n
        BY <2>4, <2>5, <2>9
      <4>2. PICK m : m = r.need /\ m = n - g /\ k = Size - n
        BY <2>3, <3>2, <4>1
      <4>3. k + g = Size - m /\ m \in 1..Body
        BY ONLY <2>5, <4>1, <4>2, SocketAssumption DEF Size
      <4> QED
        BY ONLY <4>2, <4>3
    <3>6. Inside(w, t + g, l, r)
      BY <2>4, <2>7, <2>8, <3>2, <3>5 DEF Inside
    <3>7. Position(w, taken'[e], l, stack'[e])
      BY <3>2, <3>3, <3>4, <3>6 DEF Position
    <3> QED
      BY <1>1, <2>1, <2>9, <3>7 DEF AllRead, Place
  <2>10. CASE got = f.need /\ MessageRead(e, f.n, t + got, fs)
    <3>1. delivered'[e] = Append(delivered[e], l + 1)
      BY <1>0, <2>4, <2>10 DEF MessageRead, Types
    <3>2. Len(delivered'[e]) = l + 1 /\ AllRead(e)'
      <4>1. /\ DOMAIN delivered'[e] = 1..(l + 1) /\ Len(delivered'[e]) = l + 1
            /\ delivered'[e][l + 1] = l + 1
            /\ \A b \in 1..l : b \in DOMAIN delivered[e] /\ delivered'[e][b] = delivered[e][b]
        BY <1>0, <3>1
      <4>2. \A b \in 1..(l + 1) : b \in 1..l \/ b = l + 1
        <5>1. \A n \in Nat : \A b \in 1..(n + 1) : b \in 1..n \/ b = n + 1
          OBVIOUS
        <5> QED
          BY ONLY <1>0, <5>1, Zenon
      <4> QED
        BY <2>1, <4>1, <4>2 DEF AllRead
    <3>3. k + g = Size
      BY <2>3, <2>4, <2>5, <2>10
    <3>4. Between(w, t + g, l + 1)
      BY <2>8, <3>3 DEF Between
    <3>5. Position(w, taken'[e], l + 1, stack'[e])
      <4>1. CASE IsReply(e, f.n, fs)
        <5>1. taken'[e] = t + g /\ stack'[e] = Tail(fs)
          BY <1>0, <2>5, <2>10, <4>1 DEF MessageRead, SyncReturns, Types
        <5>2. Writes(Tail(fs)) /\ Tail(fs) \in Seq(Frame)
          BY <1>2, <4>1, FloorShape, UnderSync DEF IsReply
        <5> QED
          BY <3>4, <5>1, <5>2, WritesNoBody
      <4>2. CASE ~IsReply(e, f.n, fs)
        <5>1. PICK r : r = At(Handling(e, f.n), f.n)
          OBVIOUS
        <5>2. taken'[e] = t + g /\ stack'[e] = <<r>> \o fs
          BY <1>0, <2>5, <2>10, <4>2, <5>1 DEF MessageRead, Types
        <5>3. r.at # "body"
          BY <5>1 DEF At, Handling
        <5>4. (<<r>> \o fs)[1] = r
          <6>1. fs \in Seq(Frame \cup {r})
            BY <1>2 DEF Floor
          <6> QED
            BY <6>1, Push
        <5> QED
          BY <3>4, <5>2, <5>3, <5>4 DEF Position
      <4> QED
        BY <4>1, <4>2
    <3> QED
      BY <1>1, <3>2, <3>5 DEF Place
  <2> QED
    BY <1>3, <2>7, <2>9, <2>10
<1> QED
  BY <1>1, <1>4, <1>5, LostOneEnd

LEMMA LostDie ==
    ASSUME LostInv, SocketInv', NEW e \in Ends, Die(e)
    PROVE  LostInv'
<1>0. PICK p \in Ends : p = Peer(e) /\ e = Peer(p) /\ p # e /\ Ends = {e, p}
  BY DEF Ends, Peer
<1>1. PICK k \in arrived[p]..Len(stream[p]) : stream' = [stream EXCEPT ![p] = SubSeq(@, 1, k)]
  BY <1>0 DEF Die
<1>2. /\ stack' = [stack EXCEPT ![e] = <<>>] /\ open' = [open EXCEPT ![e] = FALSE] /\ open[e]
      /\ UNCHANGED <<sent, taken, delivered, timeouts>>
  BY DEF Die
<1>3. /\ stream'[p] = SubSeq(stream[p], 1, k) /\ stream'[e] = stream[e] /\ stack'[p] = stack[p]
      /\ open'[p] = open[p] /\ open'[e] = FALSE
  BY <1>0, <1>1, <1>2, LostFacts, EndFacts DEF Types
<1>4. k \in 0..Len(stream[p]) /\ taken[p] <= k
  BY LostFacts
<1>5. /\ Contiguous(stream'[p])
      /\ \A t \in DOMAIN stream[p] : t <= k => t \in DOMAIN stream'[p] /\ stream'[p][t] = stream[p][t]
  BY <1>3, <1>4, LostFacts, CutWhole
<1>6. StreamWhole(p)' /\ StreamWhole(e)'
  BY <1>0, <1>3, <1>5, LostFacts DEF StreamWhole
<1>7. ASSUME timeouts' = 0, NEW q \in Ends
      PROVE  AllRead(q)' /\ (open'[q] => Place(q)')
  <2>1. AllRead(q) /\ (open[q] => Place(q))
    BY <1>2, <1>7, LostFacts
  <2>2. AllRead(q)'
    BY <1>2, <2>1 DEF AllRead
  <2>3. ASSUME q = p, open[p]
        PROVE  Place(p)'
    <3>1. Position(stream[p], taken[p], Len(delivered[p]), stack[p])
      BY <1>0, <1>2, <2>1, <2>3 DEF Place, Finished
    <3>2. taken[p] # 0 => taken[p] \in DOMAIN stream[p]
      <4>1. stream[p] \in Seq(Nat \X (1..Size))
        BY LostFacts, EndFacts DEF Types
      <4>2. DOMAIN stream[p] = 1..Len(stream[p])
        BY <4>1
      <4>3. taken[p] \in Nat /\ arrived[p] \in Nat /\ Len(stream[p]) \in Nat
            /\ taken[p] <= arrived[p] /\ arrived[p] <= Len(stream[p])
        BY LostFacts
      <4> QED
        BY <4>2, <4>3
    <3>3. Position(stream'[p], taken[p], Len(delivered[p]), stack[p])
      BY <1>4, <1>5, <3>1, <3>2 DEF Position, Inside, Between
    <3> QED
      BY <1>2, <1>3, <3>3 DEF Place
  <2> QED
    BY <1>0, <1>3, <2>2, <2>3
<1> QED
  BY <1>0, <1>6, <1>7 DEF LostInv

LEMMA LostDisconnected ==
    ASSUME LostInv, SocketInv', NEW e \in Ends, DeviceDisconnected(e)
    PROVE  LostInv'
<1>1. /\ open' = [open EXCEPT ![e] = FALSE]
      /\ UNCHANGED <<sent, stream, taken, stack, delivered, timeouts>>
  BY DEF DeviceDisconnected
<1>2. \A p \in Ends : open'[p] => open[p]
  BY <1>1, LostFacts, EndFacts DEF Types
<1>3. \A p \in Ends : Peer(p) \in Ends
  BY OtherEnd
<1>4. ASSUME NEW p \in Ends
      PROVE  StreamWhole(p)'
  BY <1>1, <1>2, <1>3, LostFacts DEF StreamWhole
<1>5. ASSUME timeouts' = 0, NEW p \in Ends
      PROVE  AllRead(p)' /\ (open'[p] => Place(p)')
  <2>1. AllRead(p) /\ (open[p] => Place(p))
    BY <1>1, <1>5, LostFacts
  <2> QED
    BY <1>1, <1>2, <1>3, <2>1 DEF AllRead, Place, Finished
<1> QED
  BY <1>4, <1>5 DEF LostInv

LEMMA LostStep == LostInv /\ [Next]_vars => LostInv'
<1> SUFFICES ASSUME LostInv, [Next]_vars PROVE LostInv'
  OBVIOUS
<1>1. SocketInv'
  BY Preserved DEF LostInv
<1>2. CASE UNCHANGED vars
  BY <1>1, <1>2 DEF vars, LostInv, StreamWhole, AllRead, Place, Finished
<1>3. ASSUME NEW e \in Ends,
             \/ Request(e) \/ WriteReturns(e) \/ Arrive(e) \/ ReadBody(e) \/ BodyTimeout(e)
             \/ Answer(e) \/ HandlerReturns(e) \/ Die(e) \/ DeviceDisconnected(e)
      PROVE  LostInv'
  BY <1>1, <1>3, LostRequest, LostWriteReturns, LostArrive, LostReadBody, LostBodyTimeout,
     LostAnswer, LostHandlerReturns, LostDie, LostDisconnected
<1> QED
  BY <1>1, <1>2, <1>3, LostSyncRequest, LostSyncTimeout DEF Next

(* As long as no message is torn, what an end has read are the messages it *)
(* was sent, without a gap: none is skipped that came inside of a write, a *)
(* handler or syncRequest (readMessageData, readOneMessage).               *)
THEOREM NothingIsLost == Spec => []NothingLost
<1>1. LostInv => NothingLost
  BY DEF LostInv, AllRead, NothingLost
<1> QED
  BY <1>1, LostStarts, LostStep, PTL DEF Spec

-----------------------------------------------------------------------------
(* Replies.  A response goes with the id of the request that it answers;   *)
(* whoever is called for waits below, whatever else is read before.        *)
ResponsesOwn ==
    \A e \in Ends : \A n \in DOMAIN sent[e] : sent[e][n].kind = "response" =>
        /\ sent[e][n].re \in RequestsTo(Peer(e))
        /\ sent[Peer(e)][sent[e][n].re].id = sent[e][n].id

FramesOwn ==
    \A e \in Ends : \A k \in DOMAIN stack[e] :
        /\ stack[e][k].at = "handle" => stack[e][k].n \in RequestsTo(e)
        /\ stack[e][k].at = "sync" => e = "server" /\ stack[e][k].n \in RequestsTo("plugin")

CallsOwn ==
    \A k \in DOMAIN calls : calls[k].reply # 0 =>
        /\ calls[k].n \in RequestsTo("plugin") /\ calls[k].reply \in DOMAIN sent["server"]
        /\ sent["server"][calls[k].reply].id = sent["plugin"][calls[k].n].id

OwnInv == SocketInv /\ ResponsesOwn /\ FramesOwn /\ CallsOwn

LEMMA OwnFacts ==
    ASSUME OwnInv
    PROVE  /\ SocketInv /\ Types
           /\ \A e \in Ends : /\ sent[e] \in Seq(Message) /\ DOMAIN sent[e] = 1..Len(sent[e])
                              /\ Len(sent[e]) \in Nat /\ stack[e] \in Seq(Frame)
           /\ calls \in Seq([n : Nat, reply : Nat])
           /\ \A e \in Ends : \A n : n \in RequestsTo(e) <=>
                n \in DOMAIN sent[e] /\ sent[e][n].kind = "request"
<1>1. SocketInv /\ Types
  BY DEF OwnInv, SocketInv
<1>2. \A e \in Ends : sent[e] \in Seq(Message) /\ stack[e] \in Seq(Frame)
  BY <1>1 DEF Types
<1>3. \A e \in Ends : DOMAIN sent[e] = 1..Len(sent[e]) /\ Len(sent[e]) \in Nat
  BY <1>2
<1> QED
  BY <1>1, <1>2, <1>3 DEF Types, RequestsTo

(* Frames that are only fewer, or of no interest.                          *)
OwnFrames(e, s) ==
    \A k \in DOMAIN s :
        /\ s[k].at = "handle" => s[k].n \in RequestsTo(e)
        /\ s[k].at = "sync" => e = "server" /\ s[k].n \in RequestsTo("plugin")

LEMMA OwnTail ==
    ASSUME NEW e, NEW s \in Seq(Frame), OwnFrames(e, s), s # <<>>
    PROVE  OwnFrames(e, Tail(s))
  BY Pop DEF OwnFrames

LEMMA OwnPush ==
    ASSUME NEW e, NEW s \in Seq(Frame), OwnFrames(e, s), NEW f,
           f.at = "handle" => f.n \in RequestsTo(e),
           f.at = "sync" => e = "server" /\ f.n \in RequestsTo("plugin")
    PROVE  OwnFrames(e, <<f>> \o s)
<1>1. s \in Seq(Frame \cup {f})
  OBVIOUS
<1>2. /\ (<<f>> \o s)[1] = f
      /\ \A k \in DOMAIN (<<f>> \o s) : k # 1 => k - 1 \in DOMAIN s /\ (<<f>> \o s)[k] = s[k - 1]
  BY <1>1, Push
<1> QED
  BY <1>2 DEF OwnFrames

(* What is read does not change what was sent.                             *)
LEMMA OwnOneEnd ==
    ASSUME OwnInv, SocketInv', NEW e \in Ends, sent' = sent,
           \A p \in Ends \ {e} : stack'[p] = stack[p],
           OwnFrames(e, stack'[e]), CallsOwn'
    PROVE  OwnInv'
<1>1. \A p \in Ends : RequestsTo(p)' = RequestsTo(p)
  BY DEF RequestsTo
<1>2. ResponsesOwn'
  BY <1>1, OtherEnd DEF OwnInv, ResponsesOwn
<1>3. "plugin" \in Ends
  BY DEF Ends
<1>4. \A p \in Ends : OwnFrames(p, stack'[p])
  BY DEF OwnInv, FramesOwn, OwnFrames
<1>5. FramesOwn'
  BY <1>1, <1>3, <1>4 DEF FramesOwn, OwnFrames
<1> QED
  BY <1>2, <1>5 DEF OwnInv

LEMMA CallsSame ==
    ASSUME OwnInv, sent' = sent, calls' = calls
    PROVE  CallsOwn'
  BY DEF OwnInv, CallsOwn, RequestsTo

LEMMA CallsReturn ==
    ASSUME OwnInv, sent' = sent, NEW e \in Ends, NEW t, NEW r \in Nat, NEW fs \in Seq(Frame),
           Syncs(fs), OwnFrames(e, fs), SyncReturns(e, t, r, fs),
           r # 0 => r \in DOMAIN sent[e] /\ sent[e][r].id = sent[Peer(e)][Head(fs).n].id
    PROVE  CallsOwn' /\ OwnFrames(e, Tail(fs))
<1>1. fs # <<>> /\ Head(fs).at = "sync" /\ Head(fs) = fs[1] /\ 1 \in DOMAIN fs /\ Head(fs) \in Frame
  BY Pop DEF Syncs
<1>2. e = "server" /\ Head(fs).n \in RequestsTo("plugin") /\ Peer(e) = "plugin"
  BY <1>1 DEF OwnFrames, Peer
<1>3. OwnFrames(e, Tail(fs))
  BY <1>1, OwnTail
<1>4. PICK c : c = [n |-> Head(fs).n, reply |-> r]
  OBVIOUS
<1>5. c \in [n : Nat, reply : Nat] /\ c.n = Head(fs).n /\ c.reply = r
  BY <1>1, <1>4 DEF Frame
<1>6. calls' = Append(calls, c) /\ calls \in Seq([n : Nat, reply : Nat])
  BY <1>4, OwnFacts DEF SyncReturns
<1>7. /\ DOMAIN calls' = 1..(Len(calls) + 1) /\ calls'[Len(calls) + 1] = c
      /\ \A k \in DOMAIN calls' : k = Len(calls) + 1 \/ (k \in DOMAIN calls /\ calls'[k] = calls[k])
  BY ONLY <1>5, <1>6
<1>8. RequestsTo("plugin")' = RequestsTo("plugin")
  BY DEF RequestsTo
<1>9. \A k \in DOMAIN calls' : calls'[k].reply # 0 =>
        /\ calls'[k].n \in RequestsTo("plugin") /\ calls'[k].reply \in DOMAIN sent["server"]
        /\ sent["server"][calls'[k].reply].id = sent["plugin"][calls'[k].n].id
  BY <1>2, <1>5, <1>7 DEF OwnInv, CallsOwn
<1> QED
  BY <1>3, <1>8, <1>9 DEF CallsOwn

LEMMA OwnReadHeader ==
    ASSUME OwnInv, NEW e \in Ends, NEW t, NEW fs \in Seq(Frame), OwnFrames(e, fs),
           ReadHeader(e, t, fs)
    PROVE  OwnFrames(e, stack'[e]) /\ \A p \in Ends \ {e} : stack'[p] = stack[p]
<1>1. PICK f \in Headers(e, t) : stack' = [stack EXCEPT ![e] = <<f>> \o fs]
  BY DEF ReadHeader
<1>2. f.at = "body"
  <2>1. \/ \E n : f = [at |-> "body", n |-> n, need |-> Body, good |-> TRUE]
        \/ \E k : f = [at |-> "body", n |-> 0, need |-> k, good |-> FALSE]
    BY DEF Headers
  <2> QED
    BY <2>1
<1>3. stack \in [Ends -> Seq(Frame)]
  BY OwnFacts DEF Types
<1> QED
  BY <1>1, <1>2, <1>3, OwnPush

LEMMA OwnReadOn ==
    ASSUME OwnInv, NEW e \in Ends, NEW a, NEW t, NEW fs \in Seq(Frame), OwnFrames(e, fs),
           ReadMessageData(e, a, t, fs)
    PROVE  OwnFrames(e, stack'[e]) /\ \A p \in Ends \ {e} : stack'[p] = stack[p]
<1>1. stack \in [Ends -> Seq(Frame)]
  BY OwnFacts DEF Types
<1>2. CASE a - t < Header
  BY <1>1, <1>2 DEF ReadMessageData
<1>3. CASE ~(a - t < Header)
  BY <1>3, OwnReadHeader DEF ReadMessageData
<1> QED
  BY <1>2, <1>3

LEMMA OwnGoOn ==
    ASSUME OwnInv, SocketInv', sent' = sent, NEW e \in Ends, NEW t, NEW fs \in Seq(Frame),
           OwnFrames(e, fs), GoOn(e, t, fs)
    PROVE  OwnInv'
<1>1. CASE Syncs(fs)
  <2>1. SyncReturns(e, t, 0, fs)
    BY <1>1 DEF GoOn
  <2>2. CallsOwn' /\ OwnFrames(e, Tail(fs))
    BY <1>1, <2>1, CallsReturn
  <2>3. stack' = [stack EXCEPT ![e] = Tail(fs)] /\ stack \in [Ends -> Seq(Frame)]
    BY <2>1, OwnFacts DEF SyncReturns, Types
  <2> QED
    BY <2>2, <2>3, OwnOneEnd
<1>2. CASE ~Syncs(fs)
  <2>1. ReadMessageData(e, arrived[e], t, fs) /\ calls' = calls
    BY <1>2 DEF GoOn
  <2> QED
    BY <2>1, CallsSame, OwnReadOn, OwnOneEnd
<1> QED
  BY <1>1, <1>2

(* Another message is sent: a request, or the response to one.             *)
LEMMA OwnSend ==
    ASSUME OwnInv, SocketInv', NEW e \in Ends, NEW msg \in Message, NEW fs \in Seq(Frame),
           SendMessage(e, msg, fs), calls' = calls,
           \/ msg.kind = "request"
           \/ msg.re \in RequestsTo(e) /\ sent[e][msg.re].id = msg.id,
           \A k \in DOMAIN fs :
               /\ fs[k].at = "handle" => fs[k].n \in RequestsTo(e)
               /\ fs[k].at = "sync" => /\ e = "server"
                                       /\ \/ fs[k].n \in RequestsTo("plugin")
                                          \/ /\ fs[k].n = Len(sent["plugin"]) + 1
                                             /\ msg.kind = "request"
    PROVE  OwnInv'
<1>0. PICK p \in Ends : p = Peer(e) /\ e = Peer(p) /\ p # e /\ Ends = {e, p} /\ (e = "server" => p = "plugin")
  BY DEF Ends, Peer
<1>1. PICK m \in Nat : m = Len(sent[p])
  BY OwnFacts
<1>2. /\ sent'[p] = Append(sent[p], msg) /\ sent'[e] = sent[e]
      /\ stack'[p] = stack[p] /\ stack'[e] = <<At("write", 0)>> \o fs
  BY <1>0, OwnFacts DEF SendMessage, Types
<1>3. /\ DOMAIN sent'[p] = 1..(m + 1) /\ sent'[p][m + 1] = msg
      /\ \A n \in DOMAIN sent[p] : n \in DOMAIN sent'[p] /\ sent'[p][n] = sent[p][n]
      /\ \A n \in DOMAIN sent'[p] : n \in DOMAIN sent[p] \/ n = m + 1
      /\ m + 1 \in DOMAIN sent'[p]
  <2>1. sent[p] \in Seq(Message)
    BY OwnFacts
  <2> QED
    BY ONLY <1>1, <1>2, <2>1, msg \in Message
<1>4. \A q \in Ends : \A n \in DOMAIN sent[q] : n \in DOMAIN sent'[q] /\ sent'[q][n] = sent[q][n]
  BY <1>0, <1>2, <1>3
<1>5. \A q \in Ends : \A n \in RequestsTo(q) : n \in RequestsTo(q)'
  BY <1>4 DEF RequestsTo
<1>6. msg.kind = "request" => m + 1 \in RequestsTo(p)'
  BY <1>3 DEF RequestsTo
<1>7. ResponsesOwn'
  <2> SUFFICES ASSUME NEW q \in Ends, NEW n \in DOMAIN sent'[q], sent'[q][n].kind = "response"
               PROVE  /\ sent'[q][n].re \in RequestsTo(Peer(q))'
                      /\ sent'[Peer(q)][sent'[q][n].re].id = sent'[q][n].id
    BY DEF ResponsesOwn
  <2>1. CASE n \in DOMAIN sent[q]
    <3>1. sent'[q][n] = sent[q][n] /\ Peer(q) \in Ends
      BY <1>4, <2>1, OtherEnd
    <3>2. sent[q][n].re \in RequestsTo(Peer(q)) /\ sent[Peer(q)][sent[q][n].re].id = sent[q][n].id
      BY <2>1, <3>1 DEF OwnInv, ResponsesOwn
    <3>3. sent[q][n].re \in DOMAIN sent[Peer(q)]
      BY <3>1, <3>2, OwnFacts
    <3> QED
      BY <1>4, <1>5, <3>1, <3>2, <3>3
  <2>2. CASE n \notin DOMAIN sent[q]
    <3>1. q = p /\ n = m + 1 /\ sent'[q][n] = msg
      BY <1>0, <1>2, <1>3, <2>2
    <3>2. msg.re \in RequestsTo(e) /\ sent[e][msg.re].id = msg.id
      BY <3>1
    <3>3. msg.re \in RequestsTo(e)' /\ sent'[e] = sent[e]
      BY <1>2, <1>5, <3>2
    <3> QED
      BY <1>0, <3>1, <3>2, <3>3
  <2> QED
    BY <2>1, <2>2
<1>8. FramesOwn'
  <2>1. (<<At("write", 0)>> \o fs)[1].at = "write"
        /\ \A k \in DOMAIN (<<At("write", 0)>> \o fs) :
             k # 1 => k - 1 \in DOMAIN fs /\ (<<At("write", 0)>> \o fs)[k] = fs[k - 1]
    <3>1. At("write", 0) \in Frame /\ At("write", 0).at = "write"
      BY DEF At, Frame
    <3> QED
      BY <3>1, Push
  <2> SUFFICES ASSUME NEW q \in Ends, NEW k \in DOMAIN stack'[q]
               PROVE  /\ stack'[q][k].at = "handle" => stack'[q][k].n \in RequestsTo(q)'
                      /\ stack'[q][k].at = "sync" =>
                           q = "server" /\ stack'[q][k].n \in RequestsTo("plugin")'
    BY DEF FramesOwn
  <2>2. CASE q = p
    <3>1. /\ stack[q][k].at = "handle" => stack[q][k].n \in RequestsTo(q)
          /\ stack[q][k].at = "sync" => q = "server" /\ stack[q][k].n \in RequestsTo("plugin")
      BY <1>2, <2>2 DEF OwnInv, FramesOwn
    <3>2. "plugin" \in Ends
      BY DEF Ends
    <3> QED
      BY <1>2, <1>5, <2>2, <3>1, <3>2
  <2>3. CASE q = e /\ k = 1
    BY <1>2, <2>1, <2>3
  <2>4. CASE q = e /\ k # 1
    <3>1. PICK j \in DOMAIN fs : stack'[q][k] = fs[j]
      BY <1>2, <2>1, <2>4
    <3>2. fs[j].at = "handle" => fs[j].n \in RequestsTo(e)'
      BY <1>5
    <3>3. fs[j].at = "sync" => e = "server" /\ fs[j].n \in RequestsTo("plugin")'
      <4> SUFFICES ASSUME fs[j].at = "sync" PROVE e = "server" /\ fs[j].n \in RequestsTo("plugin")'
        OBVIOUS
      <4>1. e = "server" /\ p = "plugin"
        BY <1>0
      <4>2. CASE fs[j].n \in RequestsTo("plugin")
        BY <1>5, <4>1, <4>2
      <4>3. CASE fs[j].n = Len(sent["plugin"]) + 1 /\ msg.kind = "request"
        BY <1>1, <1>6, <4>1, <4>3
      <4> QED
        BY <4>1, <4>2, <4>3
    <3> QED
      BY <2>4, <3>1, <3>2, <3>3
  <2> QED
    BY <1>0, <2>2, <2>3, <2>4
<1>9. CallsOwn'
  <2> SUFFICES ASSUME NEW k \in DOMAIN calls, calls[k].reply # 0
               PROVE  /\ calls[k].n \in RequestsTo("plugin")' /\ calls[k].reply \in DOMAIN sent'["server"]
                      /\ sent'["server"][calls[k].reply].id = sent'["plugin"][calls[k].n].id
    BY DEF CallsOwn
  <2>1. /\ calls[k].n \in RequestsTo("plugin") /\ calls[k].reply \in DOMAIN sent["server"]
        /\ sent["server"][calls[k].reply].id = sent["plugin"][calls[k].n].id
    BY DEF OwnInv, CallsOwn
  <2>2. "plugin" \in Ends /\ "server" \in Ends
    BY DEF Ends
  <2>3. calls[k].n \in DOMAIN sent["plugin"]
    BY <2>1, <2>2, OwnFacts
  <2> QED
    BY <1>4, <1>5, <2>1, <2>2, <2>3
<1> QED
  BY <1>7, <1>8, <1>9 DEF OwnInv

LEMMA OwnStep == OwnInv /\ [Next]_vars => OwnInv'
<1> SUFFICES ASSUME OwnInv, [Next]_vars PROVE OwnInv'
  OBVIOUS
<1>0. SocketInv' /\ SocketInv /\ "server" \in Ends /\ "plugin" \in Ends
  BY Preserved DEF OwnInv, Ends
<1>s. \A e \in Ends : OwnFrames(e, stack[e]) /\ stack[e] \in Seq(Frame)
  BY OwnFacts DEF OwnInv, FramesOwn, OwnFrames
<1>t. ASSUME NEW e \in Ends, NEW places, IsAt(e, places)
      PROVE  /\ Top(e).at \in places /\ Top(e) = stack[e][1] /\ 1 \in DOMAIN stack[e]
             /\ Top(e) \in Frame /\ stack[e] # <<>>
             /\ Below(e) \in Seq(Frame) /\ OwnFrames(e, Below(e))
  BY <1>0, <1>s, <1>t, Innermost, Pop, OwnTail DEF Below
<1>1. CASE UNCHANGED vars
  BY <1>0, <1>1 DEF vars, OwnInv, ResponsesOwn, FramesOwn, CallsOwn, RequestsTo
<1>2. ASSUME NEW e \in Ends, Request(e) PROVE OwnInv'
  <2>1. PICK id \in Ids : SendRequest(e, id, stack[e])
    BY <1>2 DEF Request
  <2> DEFINE msg == [kind |-> "request", id |-> id, re |-> 0]
  <2>2. SendMessage(e, msg, stack[e]) /\ msg \in Message /\ msg.kind = "request" /\ calls' = calls
    BY <1>2, <2>1 DEF SendRequest, Message, Request
  <2> HIDE DEF msg
  <2> QED
    BY <1>0, <1>s, <2>2, OwnSend DEF OwnFrames
<1>3. ASSUME NEW e \in Ends, WriteReturns(e) PROVE OwnInv'
  <2>1. stack' = [stack EXCEPT ![e] = Below(e)] /\ stack \in [Ends -> Seq(Frame)]
    BY <1>3, OwnFacts DEF WriteReturns, Types
  <2>2. OwnFrames(e, Below(e))
    BY <1>3, <1>t DEF WriteReturns
  <2> QED
    BY <1>0, <1>3, <2>1, <2>2, CallsSame, OwnOneEnd DEF WriteReturns
<1>4. ASSUME NEW e \in Ends, Arrive(e) PROVE OwnInv'
  <2>1. PICK a :
          IF listening[e] THEN ReadMessageData(e, a, taken[e], stack[e])
          ELSE IF IsAt(e, {"sync"}) /\ a - taken[e] >= Header
          THEN ReadHeader(e, taken[e], stack[e]) /\ UNCHANGED listening
          ELSE UNCHANGED <<taken, stack, listening>>
    BY <1>4 DEF Arrive
  <2>2. OwnFrames(e, stack'[e]) /\ \A p \in Ends \ {e} : stack'[p] = stack[p]
    BY <1>s, <2>1, OwnReadOn, OwnReadHeader
  <2> QED
    BY <1>0, <1>4, <2>2, CallsSame, OwnOneEnd DEF Arrive
<1>5. ASSUME NEW e \in Ends, ReadBody(e) PROVE OwnInv'
  <2> DEFINE f == Top(e)
             available == arrived[e] - taken[e]
             got == IF available < f.need THEN available ELSE f.need
             good == Checked(e, f, got)
  <2>1. /\ f.at = "body" /\ f = stack[e][1] /\ Below(e) \in Seq(Frame) /\ OwnFrames(e, Below(e))
        /\ stack[e] # <<>> /\ sent' = sent /\ f \in Frame
    BY <1>5, <1>t DEF ReadBody
  <2>2. CASE /\ stack' = [stack EXCEPT ![e] = <<[f EXCEPT !.need = @ - got, !.good = good]>> \o Below(e)]
             /\ UNCHANGED calls
    <3>1. PICK h : h = [f EXCEPT !.need = @ - got, !.good = good]
      OBVIOUS
    <3>2. h.at = "body"
      BY <2>1, <3>1 DEF Frame
    <3>3. OwnFrames(e, <<h>> \o Below(e))
      BY <2>1, <3>2, OwnPush
    <3>4. stack \in [Ends -> Seq(Frame)] /\ stack' = [stack EXCEPT ![e] = <<h>> \o Below(e)]
      BY <2>2, <3>1, OwnFacts DEF Types
    <3> QED
      BY <1>0, <2>1, <2>2, <3>3, <3>4, CallsSame, OwnOneEnd
  <2>3. CASE good /\ MessageRead(e, f.n, taken[e] + got, Below(e))
    <3>1. f.n \in 1..Len(sent[e]) /\ f.n \in Nat
      <4>1. f.good
        BY <2>3 DEF Checked
      <4> QED
        BY <1>0, <2>1, <4>1, EndFacts DEF StackOK, BodyOK, Frame
    <3>2. f.n \in DOMAIN sent[e] /\ f.n # 0
      BY <3>1, OwnFacts
    <3>3. CASE IsReply(e, f.n, Below(e))
      <4>1. SyncReturns(e, taken[e] + got, f.n, Below(e)) /\ Syncs(Below(e))
            /\ sent[e][f.n].id = sent[Peer(e)][Head(Below(e)).n].id
        BY <2>3, <3>3 DEF MessageRead, IsReply
      <4>2. CallsOwn' /\ OwnFrames(e, Tail(Below(e)))
        BY <2>1, <3>1, <3>2, <4>1, CallsReturn
      <4>3. stack' = [stack EXCEPT ![e] = Tail(Below(e))] /\ stack \in [Ends -> Seq(Frame)]
        BY <4>1, OwnFacts DEF SyncReturns, Types
      <4> QED
        BY <1>0, <2>1, <4>2, <4>3, OwnOneEnd
    <3>4. CASE ~IsReply(e, f.n, Below(e))
      <4>1. PICK h : h = At(Handling(e, f.n), f.n)
        OBVIOUS
      <4>2. stack' = [stack EXCEPT ![e] = <<h>> \o Below(e)] /\ calls' = calls
            /\ stack \in [Ends -> Seq(Frame)]
        BY <2>3, <3>4, <4>1, OwnFacts DEF MessageRead, Types
      <4>3. h.n = f.n /\ h.at # "sync" /\ (h.at = "handle" => f.n \in RequestsTo(e))
        BY <4>1 DEF At, Handling
      <4>4. OwnFrames(e, <<h>> \o Below(e))
        BY <2>1, <4>3, OwnPush
      <4> QED
        BY <1>0, <2>1, <4>2, <4>4, CallsSame, OwnOneEnd
    <3> QED
      BY <3>3, <3>4
  <2>4. CASE GoOn(e, taken[e] + got, Below(e))
    BY <1>0, <2>1, <2>4, OwnGoOn
  <2> QED
    BY <1>5, <2>2, <2>3, <2>4 DEF ReadBody
<1>6. ASSUME NEW e \in Ends, BodyTimeout(e) \/ HandlerReturns(e) PROVE OwnInv'
  <2>1. IsAt(e, {"body", "handled"}) /\ GoOn(e, taken[e], Below(e)) /\ sent' = sent
    BY <1>6 DEF BodyTimeout, HandlerReturns, IsAt
  <2> QED
    BY <1>0, <1>t, <2>1, OwnGoOn
<1>7. ASSUME NEW e \in Ends, Answer(e) PROVE OwnInv'
  <2> DEFINE n == Top(e).n
             fs == <<At("handled", n)>> \o Below(e)
  <2>1. n \in RequestsTo(e) /\ n \in Nat /\ Below(e) \in Seq(Frame) /\ OwnFrames(e, Below(e))
    BY <1>s, <1>7, <1>t DEF Answer, OwnFrames, Frame
  <2>2. PICK msg : msg = [kind |-> "response", id |-> sent[e][n].id, re |-> n]
    OBVIOUS
  <2>3. n \in DOMAIN sent[e] /\ sent[e] \in Seq(Message)
    BY <2>1, OwnFacts
  <2>4. msg \in Message /\ msg.re = n /\ msg.id = sent[e][n].id
    <3>1. sent[e][n] \in Message
      BY <2>3
    <3> QED
      BY <2>1, <2>2, <3>1 DEF Message
  <2>5. At("handled", n) \in Frame /\ At("handled", n).at = "handled"
    BY <2>1 DEF At, Frame
  <2>6. fs \in Seq(Frame) /\ OwnFrames(e, fs)
    BY <2>1, <2>5, OwnPush, Push
  <2>7. SendMessage(e, msg, fs) /\ calls' = calls
    BY <1>7, <2>2 DEF Answer
  <2>8. \A k \in DOMAIN fs :
          /\ fs[k].at = "handle" => fs[k].n \in RequestsTo(e)
          /\ fs[k].at = "sync" => e = "server" /\ fs[k].n \in RequestsTo("plugin")
    BY <2>6 DEF OwnFrames
  <2> HIDE DEF fs
  <2> QED
    BY <1>0, <2>1, <2>4, <2>6, <2>7, <2>8, OwnSend
<1>8. ASSUME NEW e \in Ends, Die(e) \/ DeviceDisconnected(e) PROVE OwnInv'
  <2>1. /\ stack'[e] = <<>> /\ \A p \in Ends \ {e} : stack'[p] = stack[p]
        /\ sent' = sent /\ calls' = calls
    BY <1>8, OwnFacts DEF Die, DeviceDisconnected, Types
  <2>2. OwnFrames(e, <<>>)
    BY DEF OwnFrames
  <2> QED
    BY <1>0, <2>1, <2>2, CallsSame, OwnOneEnd
<1>9. CASE SyncRequest
  <2>1. PICK f : f = At("sync", Len(sent["plugin"]) + 1)
    OBVIOUS
  <2>2. PICK id \in Ids : SendRequest("server", id, <<f>>)
    BY <1>9, <2>1 DEF SyncRequest
  <2> DEFINE msg == [kind |-> "request", id |-> id, re |-> 0]
  <2>3. SendMessage("server", msg, <<f>>) /\ msg \in Message /\ msg.kind = "request" /\ calls' = calls
    BY <1>9, <2>2 DEF SendRequest, Message, SyncRequest
  <2> HIDE DEF msg
  <2>4. Len(sent["plugin"]) \in Nat
    BY <1>0, OwnFacts
  <2>5. f \in Frame /\ f.at = "sync" /\ f.n = Len(sent["plugin"]) + 1
    BY <2>1, <2>4 DEF At, Frame
  <2>6. <<f>> \in Seq(Frame) /\ \A k \in DOMAIN <<f>> : <<f>>[k] = f
    BY <2>5
  <2> QED
    BY <1>0, <2>3, <2>5, <2>6, OwnSend
<1>10. CASE SyncTimeout
  <2>1. SyncReturns("server", taken["server"], 0, stack["server"]) /\ IsAt("server", {"sync"})
        /\ sent' = sent
    BY <1>10 DEF SyncTimeout
  <2>2. Syncs(stack["server"])
    BY <2>1 DEF Syncs, IsAt, Top
  <2>3. CallsOwn' /\ OwnFrames("server", Tail(stack["server"]))
    BY <1>0, <1>s, <2>1, <2>2, CallsReturn
  <2>4. stack' = [stack EXCEPT !["server"] = Tail(stack["server"])] /\ stack \in [Ends -> Seq(Frame)]
    BY <2>1, OwnFacts DEF SyncReturns, Types
  <2> QED
    BY <1>0, <2>1, <2>3, <2>4, OwnOneEnd
<1> QED
  BY <1>1, <1>2, <1>3, <1>4, <1>5, <1>6, <1>7, <1>8, <1>9, <1>10 DEF Next

(* Whatever is read inside of syncRequest, late answers to earlier ones    *)
(* that gave up included, what it returns is the response to its request,  *)
(* as long as ids are not used twice.                                      *)
THEOREM RepliesAreOwn == Spec => []ReplyIsOwn
<1>1. Init => OwnInv
  <2> SUFFICES ASSUME Init PROVE OwnInv
    OBVIOUS
  <2>1. /\ \A e \in Ends : sent[e] = <<>> /\ stack[e] = <<>>
        /\ calls = <<>>
    BY DEF Init
  <2> QED
    BY <2>1, Starts DEF OwnInv, ResponsesOwn, FramesOwn, CallsOwn
<1>2. OwnInv => ReplyIsOwn
  <2> SUFFICES ASSUME OwnInv, UniqueIds, NEW k \in DOMAIN calls, calls[k].reply # 0
               PROVE  sent["server"][calls[k].reply].re = calls[k].n
    BY DEF ReplyIsOwn
  <2>0. "server" \in Ends /\ "plugin" \in Ends /\ Peer("server") = "plugin"
    BY DEF Ends, Peer
  <2>1. PICK n, r : n = calls[k].n /\ r = calls[k].reply
    OBVIOUS
  <2>2. /\ n \in RequestsTo("plugin") /\ r \in DOMAIN sent["server"]
        /\ sent["server"][r].id = sent["plugin"][n].id
    BY <2>1 DEF OwnInv, CallsOwn
  <2>3. n \in DOMAIN sent["plugin"] /\ sent["plugin"][n].kind = "request"
    BY <2>0, <2>2, OwnFacts
  <2>4. sent["server"][r].kind # "request"
    BY <2>0, <2>2, <2>3 DEF UniqueIds
  <2>5. sent["server"][r].kind = "response"
    <3>1. sent["server"] \in Seq(Message)
      BY <2>0, OwnFacts
    <3>2. sent["server"][r] \in Message
      BY <2>2, <3>1
    <3> QED
      BY <2>4, <3>2 DEF Message
  <2>6. PICK q : q = sent["server"][r].re
    OBVIOUS
  <2>7. q \in RequestsTo("plugin") /\ sent["plugin"][q].id = sent["server"][r].id
    BY <2>0, <2>2, <2>5, <2>6 DEF OwnInv, ResponsesOwn
  <2>8. q \in DOMAIN sent["plugin"] /\ sent["plugin"][q].kind = "request"
    BY <2>0, <2>7, OwnFacts
  <2>9. q = n
    BY <2>0, <2>2, <2>3, <2>7, <2>8 DEF UniqueIds
  <2> QED
    BY <2>1, <2>6, <2>9
<1> QED
  BY <1>1, <1>2, OwnStep, PTL DEF Spec
=============================================================================
