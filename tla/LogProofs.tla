------------------------------- MODULE LogProofs -------------------------------
(***************************************************************************)
(* The log of Log, in both modes: for any number of writers, lines, days,  *)
(* any size of the files and of the queue.                                 *)
(***************************************************************************)
EXTENDS Log, FiniteSetTheorems, TLAPS

(* The writers with a line in hand; those whose line is not counted yet,   *)
(* those whose line is counted and not yet in the queue or the file        *)
ToCount == {"localtime", "copy", "count"}
ToWrite == {"full", "push", "put"}
At(labels) == {w \in Writers : pc[w] \in labels}
Busy == At(ToCount \cup ToWrite)
Uncounted == At(ToCount)
Counted == At(ToWrite)

(* The lines that have left their writers *)
AllLines == Queued \cup Popped \cup PutLines \cup dropped

(* Line l is the n-th of writer w *)
Is(l, w, n) == l.by = w /\ l.no = n

(* A writer in the macro has begun a line *)
HasLine == \A w \in Writers : pc[w] # "idle" => no[w] # 0

(* In synchronous mode nothing reaches the queue *)
SyncMode ==
    ~m_is_async => /\ m_log_queue = <<>> /\ single_log = <<>> /\ dropped = {}
                   /\ \A w \in Writers : pc[w] # "push"

(* The lines begun are those of the places they may be in ... *)
Somewhere(w, n) ==
    \/ w \in Busy /\ no[w] = n
    \/ \E l \in AllLines : Is(l, w, n)
Accounted == \A w \in Writers, n \in 1..MaxLines : n <= no[w] <=> Somewhere(w, n)

(* ... and no line is in two of them *)
OnePlace ==
    /\ \A w \in Busy : \A l \in AllLines : ~Is(l, w, no[w])
    /\ \A i, j \in DOMAIN m_log_queue :
          i # j => ~Is(m_log_queue[i], m_log_queue[j].by, m_log_queue[j].no)
    /\ \A l \in Queued : \A k \in Popped \cup PutLines : ~Is(l, k.by, k.no)
    /\ \A l \in Popped : \A k \in PutLines : ~Is(l, k.by, k.no)

(* The lines begun are as many as those in their places *)
Total ==
    /\ IsFiniteSet(Begun) /\ IsFiniteSet(written) /\ IsFiniteSet(dropped)
    /\ Cardinality(Begun) = Cardinality(Busy) + Len(m_log_queue) + Len(single_log)
                              + Cardinality(written) + Cardinality(dropped)

(* A line is counted once *)
CountOK == m_count + Cardinality(Uncounted) <= Cardinality(Begun)

(* The lines of the session, and those that may still get into it, have    *)
(* been counted since the file was opened, or were on their way then.      *)
Side ==
    (m_count % SplitLines) + Cardinality(Writers) + (IF m_is_async THEN QueueSize + 1 ELSE 0)
SessionOK ==
    session + Cardinality(Counted) + Len(m_log_queue) + Len(single_log)
      <= Side

Inv ==
    /\ TypeOK /\ HasLine /\ SyncMode /\ DurableOnReturn
    /\ Accounted /\ OnePlace /\ Total /\ CountOK /\ SessionOK

-----------------------------------------------------------------------------
(* m_split_lines goes m \div s times into m_count, m % s lines are left *)
LEMMA Eucl == ASSUME NEW m \in Nat, NEW s \in Nat \ {0}
  PROVE m = s * (m \div s) + (m % s) /\ m % s \in 0..s-1 /\ m \div s \in Nat
OBVIOUS

(* Quotient and remainder are naturals *)
LEMMA Quotient ==
  ASSUME NEW m \in Nat, NEW s \in Nat \ {0}
  PROVE  m \div s \in 0..m /\ m % s \in Nat /\ m % s < s
OBVIOUS

(* Products of different numbers with s differ by s at least *)
LEMMA Mul == ASSUME NEW s \in Nat, NEW a \in Int, NEW b \in Int, a < b
  PROVE s * a + s <= s * b
<1>1. PICK d \in Nat : b = a + 1 + d
  <2>1. b - a - 1 \in Nat /\ b = a + 1 + (b - a - 1) OBVIOUS
  <2>. QED BY <2>1
<1>2. s * (a + 1 + d) = s * a + s + s * d OBVIOUS
<1>3. s * d >= 0 /\ s * d \in Int /\ s * a \in Int OBVIOUS
<1>. QED BY <1>1, <1>2, <1>3

(* The remainder is unique *)
LEMMA Unique == ASSUME NEW s \in Nat \ {0}, NEW q1 \in Int, NEW q2 \in Int,
   NEW r1 \in 0..s-1, NEW r2 \in 0..s-1, s * q1 + r1 = s * q2 + r2
  PROVE r1 = r2
<1>. /\ s * q1 \in Int /\ s * q2 \in Int OBVIOUS
<1>1. CASE q1 < q2 
  <2>1. s * q1 + s <= s * q2 BY <1>1, Mul
  <2>. QED BY <2>1
<1>2. CASE q2 < q1 
  <2>1. s * q2 + s <= s * q1 BY <1>2, Mul
  <2>. QED BY <2>1
<1>3. CASE q2 = q1  BY <1>3
<1>. QED BY <1>1, <1>2, <1>3

(* One more on both sides *)
LEMMA Shift ==
  ASSUME NEW s \in Nat, NEW c \in Nat, NEW a \in Nat, NEW b \in Nat,
         NEW r \in Nat, NEW n \in Nat, NEW k \in Nat, s + c + a + b <= r + n + k
  PROVE  s + (c + 1) + a + b <= (r + 1) + n + k
OBVIOUS

(* A line that does not fill the file is one more in it *)
LEMMA ModStep == ASSUME NEW m \in Nat, NEW s \in Nat \ {0}, (m+1) % s # 0
  PROVE (m + 1) % s = (m % s) + 1
<1>. DEFINE q == m \div s r == m % s  q2 == (m+1) \div s r2 == (m+1) % s
<1>1. m = s * q + r /\ r \in 0..s-1 /\ q \in Nat BY Eucl
<1>2. m+1 = s * q2 + r2 /\ r2 \in 0..s-1 /\ q2 \in Nat BY Eucl, m+1 \in Nat
<1>. HIDE DEF q, r, q2, r2
<1>3. s * q \in Int /\ s * q2 \in Int BY <1>1, <1>2
<1>4. CASE r + 1 <= s - 1
   <2>1. s * q + (r + 1) = s * q2 + r2 BY <1>1, <1>2, <1>3
   <2>2. r + 1 \in 0..s-1 BY <1>1, <1>4
   <2>3. r + 1 = r2 BY <1>1, <1>2, <2>1, <2>2, Unique
   <2>. QED BY <2>3 DEF r, r2
<1>5. CASE r = s - 1
   <2>1. s * (q + 1) = s * q + s BY <1>1
   <2>2. s * (q + 1) + 0 = s * q2 + r2 BY <1>1, <1>2, <1>3, <1>5, <2>1
   <2>3. r2 = 0 BY <1>1, <1>2, <2>2, Unique, 0 \in 0..s-1, q+1 \in Int
   <2>. QED BY <2>3 DEF r2
<1>. QED BY <1>1, <1>4, <1>5

-----------------------------------------------------------------------------
(* The steps of a writer *)
Labels == {"idle", "localtime", "copy", "count", "full", "push", "put", "flush"}

(* A writer goes from one label to another, the others stay *)
LEMMA Goes ==
  ASSUME TypeOK, NEW w \in Writers, NEW l \in Labels, pc' = [pc EXCEPT ![w] = l]
  PROVE  /\ pc' \in [Writers -> Labels] /\ pc'[w] = l
         /\ \A v \in Writers \ {w} : pc'[v] = pc[v]
BY DEF TypeOK, Labels

(* How many writers are at the labels of a set, before and after that *)
LEMMA Census ==
  ASSUME TypeOK, NEW w \in Writers, NEW l \in Labels, pc' = [pc EXCEPT ![w] = l], NEW L
  PROVE  /\ Cardinality(At(L)) \in Nat /\ Cardinality(At(L)') \in Nat
         /\ Cardinality(At(L)') = Cardinality(At(L))
               + (IF l \in L THEN 1 ELSE 0) - (IF pc[w] \in L THEN 1 ELSE 0)
<1>. DEFINE before == {v \in Writers : pc[v] \in L}
            after == {v \in Writers : pc'[v] \in L}
            rest == {v \in Writers \ {w} : pc[v] \in L}
<1>1. IsFiniteSet(rest) /\ Cardinality(rest) \in Nat
  BY FS_Subset, FS_CardinalityType, LogAssumption DEF LogAssumption
<1>2. w \notin rest OBVIOUS
<1>3. Cardinality(rest \cup {w}) = Cardinality(rest) + 1
  <2>. HIDE DEF rest
  <2>. QED BY <1>1, <1>2, FS_AddElement
<1>4. /\ pc[w] \in L => before = rest \cup {w}
      /\ pc[w] \notin L => before = rest
  OBVIOUS
<1>5. /\ l \in L => after = rest \cup {w}
      /\ l \notin L => after = rest
  BY Goes
<1>. HIDE DEF before, after, rest
<1>6. Cardinality(before) = Cardinality(rest) + (IF pc[w] \in L THEN 1 ELSE 0)
  <2>1. CASE pc[w] \in L BY <1>3, <1>4, <2>1
  <2>2. CASE pc[w] \notin L BY <1>1, <1>4, <2>2
  <2>. QED BY <2>1, <2>2
<1>7. Cardinality(after) = Cardinality(rest) + (IF l \in L THEN 1 ELSE 0)
  <2>1. CASE l \in L BY <1>3, <1>5, <2>1
  <2>2. CASE l \notin L BY <1>1, <1>5, <2>2
  <2>. QED BY <2>1, <2>2
<1>8. /\ Cardinality(before) \in Nat /\ Cardinality(after) \in Nat
      /\ Cardinality(after) = Cardinality(before)
            + (IF l \in L THEN 1 ELSE 0) - (IF pc[w] \in L THEN 1 ELSE 0)
  BY <1>1, <1>6, <1>7
<1>. QED BY <1>8 DEF before, after, At

(* The identities of the lines begun *)
LEMMA BegunIs ==
  ASSUME TypeOK
  PROVE  Begun = {x \in [by : Writers, no : 1..MaxLines] : x.no <= no[x.by]}
BY LogAssumption DEF Begun, TypeOK, LogAssumption

(* They are finitely many, as the writers and the lines of each are *)
LEMMA BegunBound ==
  ASSUME TypeOK
  PROVE  /\ IsFiniteSet(Begun) /\ Cardinality(Begun) \in Nat
         /\ Cardinality(Begun) <= Cardinality(Writers) * MaxLines
<1>. DEFINE P == Writers \X (1..MaxLines)
            f == [x \in Begun |-> <<x.by, x.no>>]
<1>1. IsFiniteSet(1..MaxLines) /\ Cardinality(1..MaxLines) = MaxLines
  BY FS_Interval, LogAssumption DEF LogAssumption
<1>2. IsFiniteSet(P) /\ Cardinality(P) = Cardinality(Writers) * MaxLines
  BY <1>1, FS_Product, LogAssumption DEF LogAssumption
<1>3. \A x \in Begun : x = [by |-> x.by, no |-> x.no] /\ x.by \in Writers /\ x.no \in 1..MaxLines
  BY BegunIs
<1>4. f \in Injection(Begun, P)
  <2>1. f \in [Begun -> P] BY <1>3
  <2>2. ASSUME NEW x \in Begun, NEW y \in Begun, f[x] = f[y] PROVE x = y
    <3>1. x.by = y.by /\ x.no = y.no BY <2>2
    <3>. QED BY <1>3, <3>1
  <2>. HIDE DEF f
  <2>. QED BY <2>1, <2>2 DEF Injection, IsInjective
<1>. HIDE DEF P, f
<1>5. IsFiniteSet(Begun) /\ Cardinality(Begun) <= Cardinality(P) BY <1>2, <1>4, FS_Injection
<1>. QED BY <1>2, <1>5, FS_CardinalityType

(* The three sets of writers are finite *)
LEMMA Sizes ==
  ASSUME TypeOK
  PROVE  Cardinality(Busy) \in Nat /\ Cardinality(Uncounted) \in Nat /\ Cardinality(Counted) \in Nat
<1>1. IsFiniteSet(Busy) /\ IsFiniteSet(Uncounted) /\ IsFiniteSet(Counted)
  BY FS_Subset, LogAssumption DEF LogAssumption, Busy, Uncounted, Counted, At
<1>. QED BY <1>1, FS_CardinalityType

(* ... and how they change when one of them goes to another label *)
LEMMA Moved ==
  ASSUME TypeOK, NEW w \in Writers, NEW l \in Labels, pc' = [pc EXCEPT ![w] = l]
  PROVE  /\ \A v \in Writers \ {w} : v \in Busy' <=> v \in Busy
         /\ w \in Busy' <=> l \in ToCount \cup ToWrite
         /\ Cardinality(Busy') = Cardinality(Busy)
              + (IF l \in ToCount \cup ToWrite THEN 1 ELSE 0) - (IF w \in Busy THEN 1 ELSE 0)
         /\ Cardinality(Uncounted') = Cardinality(Uncounted)
              + (IF l \in ToCount THEN 1 ELSE 0) - (IF pc[w] \in ToCount THEN 1 ELSE 0)
         /\ Cardinality(Counted') = Cardinality(Counted)
              + (IF l \in ToWrite THEN 1 ELSE 0) - (IF pc[w] \in ToWrite THEN 1 ELSE 0)
         /\ Cardinality(Busy') \in Nat /\ Cardinality(Uncounted') \in Nat
         /\ Cardinality(Counted') \in Nat
<1>1. w \in Busy <=> pc[w] \in ToCount \cup ToWrite BY DEF Busy, At
<1>2. /\ \A v \in Writers \ {w} : v \in Busy' <=> v \in Busy
      /\ w \in Busy' <=> l \in ToCount \cup ToWrite
  BY Goes DEF Busy, At
<1>3. /\ Cardinality(Busy') = Cardinality(Busy)
           + (IF l \in ToCount \cup ToWrite THEN 1 ELSE 0)
           - (IF pc[w] \in ToCount \cup ToWrite THEN 1 ELSE 0)
      /\ Cardinality(Busy') \in Nat
  BY Census DEF Busy
<1>4. /\ Cardinality(Uncounted') = Cardinality(Uncounted)
           + (IF l \in ToCount THEN 1 ELSE 0) - (IF pc[w] \in ToCount THEN 1 ELSE 0)
      /\ Cardinality(Uncounted') \in Nat
  BY Census DEF Uncounted
<1>5. /\ Cardinality(Counted') = Cardinality(Counted)
           + (IF l \in ToWrite THEN 1 ELSE 0) - (IF pc[w] \in ToWrite THEN 1 ELSE 0)
      /\ Cardinality(Counted') \in Nat
  BY Census DEF Counted
<1>. QED BY <1>1, <1>2, <1>3, <1>4, <1>5

(* A writer that hands its line over is busy no more, nor one of those     *)
(* with a counted line                                                     *)
LEMMA Leaves ==
  ASSUME TypeOK, NEW w \in Writers, pc[w] \in ToWrite, pc' = [pc EXCEPT ![w] = "flush"]
  PROVE  /\ Cardinality(Busy) = Cardinality(Busy') + 1 /\ Uncounted' = Uncounted
         /\ Cardinality(Counted) = Cardinality(Counted') + 1
         /\ Cardinality(Busy') \in Nat /\ Cardinality(Counted') \in Nat
<1>1. PICK l \in Labels : l = "flush" BY DEF Labels
<1>2. pc' = [pc EXCEPT ![w] = l] BY <1>1
<1>3. /\ Cardinality(Busy') = Cardinality(Busy)
           + (IF l \in ToCount \cup ToWrite THEN 1 ELSE 0) - (IF w \in Busy THEN 1 ELSE 0)
      /\ Cardinality(Counted') = Cardinality(Counted)
           + (IF l \in ToWrite THEN 1 ELSE 0) - (IF pc[w] \in ToWrite THEN 1 ELSE 0)
      /\ Cardinality(Busy') \in Nat /\ Cardinality(Counted') \in Nat
  BY <1>2, Moved
<1>4. l \notin ToCount /\ l \notin ToWrite /\ w \in Busy
  BY <1>1 DEF ToCount, ToWrite, Busy, At
<1>5. pc'[w] = l /\ \A v \in Writers \ {w} : pc'[v] = pc[v] BY <1>2, Goes
<1>6. Uncounted' = Uncounted BY <1>4, <1>5 DEF Uncounted, At, ToCount, ToWrite
<1>. QED BY <1>3, <1>4, <1>6, Sizes

(* A step that moves no line keeps what is known of their places *)
LEMMA PlacesKept ==
  ASSUME Inv, UNCHANGED <<m_log_queue, single_log, written, dropped, no>>,
         \A w \in Writers : w \in Busy' <=> w \in Busy
  PROVE  Accounted' /\ OnePlace' /\ Total'
<1>1. Busy' = Busy BY DEF Busy, At
<1>2. Queued' = Queued /\ Popped' = Popped /\ PutLines' = PutLines
  BY DEF Queued, Popped, PutLines
<1>3. Begun' = Begun BY DEF Begun
<1>4. Accounted' BY <1>1, <1>2 DEF Inv, Accounted, Somewhere, AllLines
<1>5. OnePlace' BY <1>1, <1>2 DEF Inv, OnePlace, AllLines
<1>6. Total' BY <1>1, <1>3 DEF Inv, Total
<1>. QED BY <1>4, <1>5, <1>6

-----------------------------------------------------------------------------
(* The steps that move a line *)

(* The elements of a sequence, and of one with another element at its end  *)
LEMMA RangeAppend ==
  ASSUME NEW q \in Seq(Lines), NEW x \in Lines
  PROVE  Range(Append(q, x)) = Range(q) \cup {x}
<1>1. DOMAIN q = 1..Len(q) /\ DOMAIN Append(q, x) = 1..Len(q) + 1 /\ Len(q) \in Nat OBVIOUS
<1>2. /\ \A i \in 1..Len(q) : Append(q, x)[i] = q[i]
      /\ Append(q, x)[Len(q) + 1] = x
  OBVIOUS
<1>3. 1..Len(q) + 1 = (1..Len(q)) \cup {Len(q) + 1} BY <1>1
<1>. QED BY <1>1, <1>2, <1>3 DEF Range

(* All lines are lines; one that a writer has in hand is nowhere else *)
LEMMA LinesTyped ==
  ASSUME Inv
  PROVE  /\ AllLines \subseteq Lines
         /\ \A w \in Busy : /\ w \in Writers /\ Line(w) \in Lines
                            /\ Is(Line(w), w, no[w]) /\ Line(w) \notin AllLines
<1>1. Queued \subseteq Lines /\ Popped \subseteq Lines
  BY DEF Inv, TypeOK, Queued, Popped
<1>2. PutLines \subseteq Lines /\ dropped \subseteq Lines
  BY DEF Inv, TypeOK, PutLines
<1>3. ASSUME NEW w \in Busy
      PROVE  w \in Writers /\ Line(w) \in Lines /\ Is(Line(w), w, no[w]) /\ Line(w) \notin AllLines
  <2>1. w \in Writers /\ pc[w] # "idle" BY DEF Busy, At, ToCount, ToWrite
  <2>2. no[w] \in 1..MaxLines /\ my_tm[w] \in Days
    BY <2>1, LogAssumption DEF Inv, TypeOK, HasLine, LogAssumption
  <2>3. Line(w) \in Lines BY <2>1, <2>2 DEF Line, Lines
  <2>4. Is(Line(w), w, no[w]) BY DEF Line, Is
  <2>5. Line(w) \notin AllLines BY <2>4 DEF Inv, OnePlace
  <2>. QED BY <2>1, <2>3, <2>4, <2>5
<1>. QED BY <1>1, <1>2, <1>3 DEF AllLines

(* The bound of the session is a number *)
LEMMA SideInt ==
  ASSUME TypeOK
  PROVE  Side \in Int
<1>1. PICK c \in Nat : c = m_count
  BY LogAssumption, FS_CardinalityType DEF TypeOK, LogAssumption
<1>2. c % SplitLines \in Nat BY Quotient, LogAssumption DEF LogAssumption
<1>3. Cardinality(Writers) \in Nat BY FS_CardinalityType, LogAssumption DEF LogAssumption
<1>. QED BY <1>1, <1>2, <1>3, LogAssumption DEF Side, LogAssumption

(* A line that leaves its writer is accounted for, and the lines that the  *)
(* others have in hand still are nowhere else                              *)
LEMMA LineLeaves ==
  ASSUME Inv, NEW w \in Busy, no' = no, AllLines' = AllLines \cup {Line(w)},
         pc' = [pc EXCEPT ![w] = "flush"]
  PROVE  /\ Accounted'
         /\ (\A v \in Busy : \A l \in AllLines : ~Is(l, v, no[v]))'
<1>1. w \in Writers /\ Is(Line(w), w, no[w]) BY LinesTyped
<1>2. "flush" \in Labels /\ "flush" \notin ToCount \cup ToWrite /\ TypeOK
  BY DEF Labels, ToCount, ToWrite, Inv
<1>3. pc' \in [Writers -> Labels] /\ pc'[w] = "flush" /\ \A v \in Writers \ {w} : pc'[v] = pc[v]
  BY <1>1, <1>2, Goes
<1>4. Busy' = Busy \ {w} BY <1>2, <1>3 DEF Busy, At
<1>5. ASSUME NEW v \in Writers, NEW n \in 1..MaxLines
      PROVE  Somewhere(v, n)' <=> Somewhere(v, n)
  <2>1. Is(Line(w), v, n) <=> v = w /\ n = no[w] BY DEF Is, Line
  <2>2. (\E l \in AllLines' : Is(l, v, n)) <=>
          (v = w /\ n = no[w]) \/ \E l \in AllLines : Is(l, v, n)
    BY <2>1
  <2>. QED BY <1>4, <2>2 DEF Somewhere
<1>6. Accounted' BY <1>5 DEF Inv, Accounted
<1>7. ASSUME NEW v \in Busy', NEW l \in AllLines'
      PROVE  ~Is(l, v, no[v])
  <2>1. v \in Busy /\ v # w BY <1>4
  <2>2. CASE l \in AllLines BY <2>1, <2>2 DEF Inv, OnePlace
  <2>3. CASE l = Line(w) BY <2>1, <2>3 DEF Is, Line
  <2>. QED BY <2>2, <2>3
<1>. QED BY <1>6, <1>7

(* A line that goes from one shared place to another *)
LEMMA LineStays ==
  ASSUME Inv, UNCHANGED <<no, pc>>, AllLines' = AllLines
  PROVE  /\ Accounted'
         /\ (\A v \in Busy : \A l \in AllLines : ~Is(l, v, no[v]))'
<1>1. Busy' = Busy BY DEF Busy, At
<1>. QED BY <1>1 DEF Inv, Accounted, OnePlace, Somewhere

(* fputs() adds its line, once, to what is written *)
LEMMA Putting ==
  ASSUME Inv, NEW x \in Lines, fputs(x), x \notin PutLines
  PROVE  /\ PutLines' = PutLines \cup {x}
         /\ written' \subseteq [line : Lines, file : Files]
         /\ IsFiniteSet(written') /\ Cardinality(written') = Cardinality(written) + 1
         /\ session' \in Nat /\ session' = session + 1
         /\ unflushed' = unflushed \cup {x} /\ unflushed' \subseteq Lines
         /\ UNCHANGED <<m_today, m_count, m_fp>>
<1>. DEFINE r == [line |-> x, file |-> m_fp]
<1>1. written' = written \cup {r} BY DEF fputs
<1>2. r \in [line : Lines, file : Files] /\ r.line = x BY DEF Inv, TypeOK
<1>3. r \notin written BY <1>2 DEF PutLines
<1>. HIDE DEF r
<1>4. PutLines' = PutLines \cup {x} BY <1>1, <1>2 DEF PutLines
<1>5. IsFiniteSet(written') /\ Cardinality(written') = Cardinality(written) + 1
  BY <1>1, <1>3, FS_AddElement DEF Inv, Total
<1>6. /\ written' \subseteq [line : Lines, file : Files]
      /\ session' \in Nat /\ session' = session + 1
      /\ unflushed' = unflushed \cup {x} /\ unflushed' \subseteq Lines
      /\ UNCHANGED <<m_today, m_count, m_fp>>
  BY <1>1, <1>2 DEF fputs, Inv, TypeOK
<1>. QED BY <1>4, <1>5, <1>6

-----------------------------------------------------------------------------
(* Init and the actions *)

(* After init() no line has been begun *)
LEMMA InitInv ==
  ASSUME Init
  PROVE  Inv
<1>1. Cardinality(Writers) \in Nat /\ Cardinality(Writers) * MaxLines \in Nat
  BY FS_CardinalityType, LogAssumption DEF LogAssumption
<1>2. day \in Days /\ 0 \in Days BY LogAssumption DEF Init, Days, LogAssumption
<1>3. m_fp \in Files BY <1>1, <1>2 DEF Init, Files
<1>4. TypeOK BY <1>1, <1>2, <1>3, LogAssumption DEF Init, TypeOK, LogAssumption
<1>5. HasLine /\ SyncMode /\ DurableOnReturn
  BY DEF Init, HasLine, SyncMode, DurableOnReturn
<1>6. /\ Busy = {} /\ Uncounted = {} /\ Counted = {} /\ Queued = {} /\ Popped = {}
      /\ PutLines = {} /\ AllLines = {}
  BY DEF Init, Busy, Uncounted, Counted, At, ToCount, ToWrite, Queued, Popped, PutLines, AllLines
<1>7. Begun = {}
  <2>1. \A w \in Writers : no[w] = 0 BY DEF Init
  <2>. QED BY <2>1 DEF Begun
<1>8. Accounted
  <2>1. \A w \in Writers, n \in 1..MaxLines : ~(n <= no[w])
    BY LogAssumption DEF Init, LogAssumption
  <2>. QED BY <1>6, <2>1 DEF Accounted, Somewhere
<1>9. OnePlace BY <1>6 DEF OnePlace, Init
<1>10. IsFiniteSet({}) /\ Cardinality({}) = 0 BY FS_EmptySet
<1>11. Len(m_log_queue) = 0 /\ Len(single_log) = 0 BY DEF Init
<1>12. Total /\ CountOK
  BY <1>6, <1>7, <1>10, <1>11 DEF Init, Total, CountOK
<1>13. SessionOK
  <2>1. 0 % SplitLines \in Nat BY Quotient, LogAssumption DEF LogAssumption
  <2>2. Side \in Nat BY <1>1, <2>1, LogAssumption DEF Init, Side, LogAssumption
  <2>. QED BY <1>6, <1>10, <1>11, <2>2 DEF Init, SessionOK
<1>. QED BY <1>4, <1>5, <1>8, <1>9, <1>12, <1>13 DEF Inv

(* The clock alone: no line moves *)
LEMMA MidnightInv ==
  ASSUME Inv, Midnight
  PROVE  Inv'
<1>1. /\ day < LastDay /\ day' = day + 1
      /\ UNCHANGED <<sys_tm, m_is_async, pc, my_tm, no, m_log_queue, single_log, dropped,
                     m_today, m_count, m_fp, written, session, unflushed>>
  BY DEF Midnight, queueVars, fileVars
<1>2. TypeOK'
  <2>1. day' \in Days BY <1>1, LogAssumption DEF Inv, TypeOK, Days, LogAssumption
  <2>. QED BY <1>1, <2>1 DEF Inv, TypeOK
<1>3. Busy' = Busy /\ Uncounted' = Uncounted /\ Counted' = Counted /\ Begun' = Begun
  BY <1>1 DEF Busy, Uncounted, Counted, At, Begun
<1>4. HasLine' /\ SyncMode' /\ DurableOnReturn'
  BY <1>1 DEF Inv, HasLine, SyncMode, DurableOnReturn
<1>5. Accounted' /\ OnePlace' /\ Total' BY <1>1, <1>3, PlacesKept
<1>6. CountOK' /\ SessionOK' BY <1>1, <1>3 DEF Inv, CountOK, SessionOK, Side
<1>. QED BY <1>2, <1>4, <1>5, <1>6 DEF Inv

(* The static struct tm is not part of the invariant *)
LEMMA LocaltimeInv ==
  ASSUME Inv, NEW w \in Writers, Localtime(w)
  PROVE  Inv'
<1>1. /\ pc[w] = "localtime" /\ sys_tm' = my_tm[w] /\ pc' = [pc EXCEPT ![w] = "copy"]
      /\ UNCHANGED <<day, m_is_async, my_tm, no, m_log_queue, single_log, dropped,
                     m_today, m_count, m_fp, written, session, unflushed>>
  BY DEF Localtime, queueVars, fileVars
<1>2. TypeOK /\ "copy" \in Labels BY DEF Inv, Labels
<1>3. pc' \in [Writers -> Labels] /\ pc'[w] = "copy" /\ \A v \in Writers \ {w} : pc'[v] = pc[v]
  BY <1>1, <1>2, Goes
<1>4. TypeOK' BY <1>1, <1>2, <1>3 DEF TypeOK, Labels
<1>5. HasLine' /\ SyncMode' /\ DurableOnReturn'
  BY <1>1, <1>3 DEF Inv, HasLine, SyncMode, DurableOnReturn, TypeOK
<1>6. Busy' = Busy /\ Uncounted' = Uncounted /\ Counted' = Counted /\ Begun' = Begun
  BY <1>1, <1>3 DEF Busy, Uncounted, Counted, At, Begun, ToCount, ToWrite
<1>7. Accounted' /\ OnePlace' /\ Total' BY <1>1, <1>6, PlacesKept
<1>8. CountOK' /\ SessionOK' BY <1>1, <1>6 DEF Inv, CountOK, SessionOK, Side
<1>. QED BY <1>4, <1>5, <1>7, <1>8 DEF Inv

(* Neither is the day that is copied from it *)
LEMMA CopyTmInv ==
  ASSUME Inv, NEW w \in Writers, CopyTm(w)
  PROVE  Inv'
<1>1. /\ pc[w] = "copy" /\ my_tm' = [my_tm EXCEPT ![w] = sys_tm]
      /\ pc' = [pc EXCEPT ![w] = "count"]
      /\ UNCHANGED <<day, sys_tm, m_is_async, no, m_log_queue, single_log, dropped,
                     m_today, m_count, m_fp, written, session, unflushed>>
  BY DEF CopyTm, queueVars, fileVars
<1>2. TypeOK /\ "count" \in Labels BY DEF Inv, Labels
<1>3. pc' \in [Writers -> Labels] /\ pc'[w] = "count" /\ \A v \in Writers \ {w} : pc'[v] = pc[v]
  BY <1>1, <1>2, Goes
<1>4. TypeOK' BY <1>1, <1>2, <1>3 DEF TypeOK, Labels
<1>5. HasLine' /\ SyncMode' /\ DurableOnReturn'
  BY <1>1, <1>3 DEF Inv, HasLine, SyncMode, DurableOnReturn, TypeOK
<1>6. Busy' = Busy /\ Uncounted' = Uncounted /\ Counted' = Counted /\ Begun' = Begun
  BY <1>1, <1>3 DEF Busy, Uncounted, Counted, At, Begun, ToCount, ToWrite
<1>7. Accounted' /\ OnePlace' /\ Total' BY <1>1, <1>6, PlacesKept
<1>8. CountOK' /\ SessionOK' BY <1>1, <1>6 DEF Inv, CountOK, SessionOK, Side
<1>. QED BY <1>4, <1>5, <1>7, <1>8 DEF Inv

(* The line is counted: the session starts anew, or takes one more *)
LEMMA CountInv ==
  ASSUME Inv, NEW w \in Writers, Count(w)
  PROVE  Inv'
<1>1. /\ pc[w] = "count" /\ pc' = [pc EXCEPT ![w] = "full"]
      /\ UNCHANGED <<day, sys_tm, m_is_async, my_tm, no, m_log_queue, single_log, dropped, written>>
  BY DEF Count, queueVars
<1>2. \/ /\ m_today' = my_tm[w] /\ m_count' = 0 /\ Reopen(my_tm[w], 0)
      \/ /\ m_count' = m_count + 1 /\ UNCHANGED m_today
         /\ \/ m_count' % SplitLines = 0 /\ Reopen(my_tm[w], m_count' \div SplitLines)
            \/ m_count' % SplitLines # 0 /\ UNCHANGED <<m_fp, session, unflushed>>
  BY DEF Count
<1>3. TypeOK /\ "full" \in Labels BY DEF Inv, Labels
<1>4. pc' \in [Writers -> Labels] /\ pc'[w] = "full" /\ \A v \in Writers \ {w} : pc'[v] = pc[v]
  BY <1>1, <1>3, Goes
<1>5. /\ Cardinality(Uncounted') = Cardinality(Uncounted) - 1 /\ Cardinality(Uncounted') \in Nat
      /\ Cardinality(Counted') = Cardinality(Counted) + 1 /\ Cardinality(Counted') \in Nat
      /\ Cardinality(Uncounted) \in Nat /\ Cardinality(Counted) \in Nat
  <2>1. PICK l \in Labels : l = "full" BY <1>3
  <2>2. pc' = [pc EXCEPT ![w] = l] BY <1>1, <2>1
  <2>3. /\ Cardinality(Uncounted') = Cardinality(Uncounted)
             + (IF l \in ToCount THEN 1 ELSE 0) - (IF pc[w] \in ToCount THEN 1 ELSE 0)
        /\ Cardinality(Counted') = Cardinality(Counted)
             + (IF l \in ToWrite THEN 1 ELSE 0) - (IF pc[w] \in ToWrite THEN 1 ELSE 0)
        /\ Cardinality(Uncounted') \in Nat /\ Cardinality(Counted') \in Nat
    BY <1>3, <2>2, Moved
  <2>4. l \notin ToCount /\ l \in ToWrite /\ pc[w] \in ToCount /\ pc[w] \notin ToWrite
    BY <1>1, <2>1 DEF ToCount, ToWrite
  <2>. QED BY <1>3, <2>3, <2>4, Sizes
<1>6. PICK N \in Nat : N = Cardinality(Writers) * MaxLines
  BY FS_CardinalityType, LogAssumption DEF LogAssumption
<1>7. Begun' = Begun /\ Cardinality(Begun) \in Nat /\ Cardinality(Begun) <= N
  BY <1>1, <1>3, <1>6, BegunBound DEF Begun
<1>8. m_count \in Nat /\ SplitLines \in Nat \ {0} /\ my_tm[w] \in Days
  BY <1>3, <1>6, LogAssumption DEF TypeOK, LogAssumption
<1>9. m_count' \in 0..N /\ m_count' + Cardinality(Uncounted') <= Cardinality(Begun)
  BY <1>2, <1>5, <1>7, <1>8 DEF Inv, CountOK
<1>10. m_fp' \in Files /\ m_today' \in Days /\ session' \in Nat /\ unflushed' \subseteq Lines
  <2>1. CASE m_today' = my_tm[w] /\ Reopen(my_tm[w], 0)
    BY <1>6, <1>8, <2>1 DEF Reopen, Files
  <2>2. CASE UNCHANGED m_today /\ Reopen(my_tm[w], m_count' \div SplitLines)
    <3>1. PICK c \in 0..N : c = m_count' BY <1>9
    <3>2. c \div SplitLines \in 0..N BY <1>6, <1>8, Quotient
    <3>. QED BY <1>3, <1>6, <1>8, <2>2, <3>1, <3>2 DEF Reopen, Files, TypeOK
  <2>3. CASE UNCHANGED <<m_today, m_fp, session, unflushed>>
    BY <1>3, <2>3 DEF TypeOK
  <2>. QED BY <1>2, <2>1, <2>2, <2>3
<1>11. TypeOK' BY <1>1, <1>3, <1>4, <1>6, <1>9, <1>10 DEF TypeOK, Labels
<1>12. HasLine' /\ SyncMode' BY <1>1, <1>4 DEF Inv, HasLine, SyncMode
<1>13. unflushed' = {} \/ unflushed' = unflushed BY <1>2 DEF Reopen
<1>14. DurableOnReturn'
  BY <1>1, <1>3, <1>4, <1>13 DEF Inv, DurableOnReturn, TypeOK, Lines
<1>15. \A v \in Writers : v \in Busy' <=> v \in Busy
  BY <1>1, <1>4 DEF Busy, At, ToCount, ToWrite
<1>16. Accounted' /\ OnePlace' /\ Total' BY <1>1, <1>15, PlacesKept
<1>17. CountOK' BY <1>7, <1>9 DEF CountOK
<1>18. SessionOK'
  <2>. DEFINE B == IF m_is_async THEN QueueSize + 1 ELSE 0
  <2>1. /\ Cardinality(Writers) \in Nat /\ B \in Nat
        /\ Len(m_log_queue) \in Nat /\ Len(single_log) \in Nat
        /\ Len(m_log_queue) + Len(single_log) <= B
    BY <1>3, FS_CardinalityType, LogAssumption DEF Inv, SyncMode, TypeOK, LogAssumption
  <2>2. Cardinality(Counted') <= Cardinality(Writers)
    <3>1. Counted' \in SUBSET Writers BY DEF Counted, At
    <3>. QED BY <3>1, FS_Subset, LogAssumption DEF LogAssumption
  <2>3. B' = B BY <1>1
  <2>4. /\ session + Cardinality(Counted) + Len(m_log_queue) + Len(single_log)
              <= (m_count % SplitLines) + Cardinality(Writers) + B
        /\ session \in Nat
    BY <1>3 DEF Inv, SessionOK, Side, TypeOK
  <2>. HIDE DEF B
  <2>5. /\ m_count % SplitLines \in Nat /\ m_count' % SplitLines \in Nat
        /\ m_count' = m_count + 1 /\ m_count' % SplitLines # 0 =>
             m_count' % SplitLines = (m_count % SplitLines) + 1
    <3>1. PICK b \in Nat, c \in Nat : b = m_count /\ c = m_count' BY <1>6, <1>8, <1>9
    <3>2. b % SplitLines \in Nat /\ c % SplitLines \in Nat BY <1>8, Quotient
    <3>3. c = b + 1 /\ c % SplitLines # 0 => c % SplitLines = (b % SplitLines) + 1
      BY <1>8, ModStep
    <3>. QED BY <3>1, <3>2, <3>3
  <2>6. session' + Cardinality(Counted') + Len(m_log_queue) + Len(single_log)
              <= (m_count' % SplitLines) + Cardinality(Writers) + B
    <3>. DEFINE r == m_count % SplitLines  r2 == m_count' % SplitLines
    <3>. HIDE DEF r, r2
    <3>1. CASE session' = 0
      <4>1. r2 \in Nat BY <2>5 DEF r2
      <4>2. session' + Cardinality(Counted') + Len(m_log_queue) + Len(single_log)
              <= r2 + Cardinality(Writers) + B
        <5>1. PICK n \in Nat, c \in Nat, d \in Nat, e \in Nat, b \in Nat, m \in Nat :
                 /\ n = Cardinality(Writers) /\ c = Cardinality(Counted')
                 /\ d = Len(m_log_queue) /\ e = Len(single_log) /\ b = B /\ m = r2
          BY <1>5, <2>1, <4>1
        <5>2. c <= n /\ d + e <= b BY <2>1, <2>2, <5>1
        <5>3. 0 + c + d + e <= m + n + b BY <5>2
        <5>. QED BY <3>1, <5>1, <5>3
      <4>. QED BY <4>2 DEF r2
    <3>2. CASE m_count' = m_count + 1 /\ m_count' % SplitLines # 0 /\ UNCHANGED session
      <4>1. r \in Nat /\ r2 = r + 1 BY <2>5, <3>2 DEF r, r2
      <4>2. session + Cardinality(Counted) + Len(m_log_queue) + Len(single_log)
              <= r + Cardinality(Writers) + B
        BY <2>4 DEF r
      <4>3. session' + Cardinality(Counted') + Len(m_log_queue) + Len(single_log)
              <= r2 + Cardinality(Writers) + B
        <5>1. session' = session /\ session \in Nat BY <2>4, <3>2
        <5>. QED BY <1>5, <2>1, <4>1, <4>2, <5>1, Shift
      <4>. QED BY <4>3 DEF r2
    <3>. QED BY <1>2, <3>1, <3>2 DEF Reopen
  <2>. QED BY <1>1, <2>3, <2>6 DEF SessionOK, Side, B
<1>. QED BY <1>11, <1>12, <1>14, <1>16, <1>17, <1>18 DEF Inv

(* In synchronous mode the answer is always the file *)
LEMMA FullInv ==
  ASSUME Inv, NEW w \in Writers, Full(w)
  PROVE  Inv'
<1>1. /\ pc[w] = "full"
      /\ UNCHANGED <<day, sys_tm, m_is_async, my_tm, no, m_log_queue, single_log, dropped,
                     m_today, m_count, m_fp, written, session, unflushed>>
  BY DEF Full, queueVars, fileVars
<1>2. PICK l \in {"push", "put"} : pc' = [pc EXCEPT ![w] = l] /\ (l = "push" => m_is_async)
  BY DEF Full
<1>3. TypeOK /\ l \in Labels BY DEF Inv, Labels
<1>4. pc' \in [Writers -> Labels] /\ pc'[w] = l /\ \A v \in Writers \ {w} : pc'[v] = pc[v]
  BY <1>2, <1>3, Goes
<1>5. TypeOK' BY <1>1, <1>3, <1>4 DEF TypeOK, Labels
<1>6. HasLine' /\ SyncMode' /\ DurableOnReturn'
  BY <1>1, <1>2, <1>3, <1>4 DEF Inv, HasLine, SyncMode, DurableOnReturn, TypeOK, Lines
<1>7. Busy' = Busy /\ Uncounted' = Uncounted /\ Counted' = Counted /\ Begun' = Begun
  BY <1>1, <1>4 DEF Busy, Uncounted, Counted, At, Begun, ToCount, ToWrite
<1>8. Accounted' /\ OnePlace' /\ Total' BY <1>1, <1>7, PlacesKept
<1>9. CountOK' /\ SessionOK' BY <1>1, <1>7 DEF Inv, CountOK, SessionOK, Side
<1>. QED BY <1>5, <1>6, <1>8, <1>9 DEF Inv

(* One line more is begun, and it is with its writer *)
LEMMA GetTimeInv ==
  ASSUME Inv, NEW w \in Writers, GetTime(w)
  PROVE  Inv'
<1>1. /\ pc[w] = "idle" /\ no[w] < MaxLines
      /\ no' = [no EXCEPT ![w] = no[w] + 1] /\ my_tm' = [my_tm EXCEPT ![w] = day]
      /\ pc' = [pc EXCEPT ![w] = "localtime"]
      /\ UNCHANGED <<day, sys_tm, m_is_async, m_log_queue, single_log, dropped,
                     m_today, m_count, m_fp, written, session, unflushed>>
  BY DEF GetTime, queueVars, fileVars
<1>2. TypeOK /\ "localtime" \in Labels BY DEF Inv, Labels
<1>3. pc' \in [Writers -> Labels] /\ pc'[w] = "localtime"
      /\ \A v \in Writers \ {w} : pc'[v] = pc[v]
  BY <1>1, <1>2, Goes
<1>4. PICK n \in 1..MaxLines : n = no[w] + 1
  BY <1>1, <1>2, LogAssumption DEF TypeOK, LogAssumption
<1>5. /\ no' \in [Writers -> 0..MaxLines] /\ no'[w] = n
      /\ \A v \in Writers \ {w} : no'[v] = no[v]
  BY <1>1, <1>2, <1>4, LogAssumption DEF TypeOK, LogAssumption
<1>6. TypeOK'
  <2>1. my_tm' \in [Writers -> Days] BY <1>1, <1>2 DEF TypeOK
  <2>. QED BY <1>1, <1>2, <1>3, <1>5, <2>1 DEF TypeOK, Labels
<1>7. HasLine' /\ SyncMode' BY <1>1, <1>3, <1>5 DEF Inv, HasLine, SyncMode
<1>8. DurableOnReturn'
  BY <1>1, <1>2, <1>3, <1>5 DEF Inv, DurableOnReturn, TypeOK, Lines
<1>9. /\ Busy' = Busy \cup {w} /\ w \notin Busy /\ Uncounted' = Uncounted \cup {w}
      /\ w \notin Uncounted /\ Counted' = Counted
  BY <1>1, <1>3 DEF Busy, Uncounted, Counted, At, ToCount, ToWrite
<1>10. AllLines' = AllLines /\ AllLines \subseteq Lines
  BY <1>1, LinesTyped DEF AllLines, Queued, Popped, PutLines
<1>11. \A l \in AllLines : ~Is(l, w, n)
  <2>1. SUFFICES ASSUME NEW l \in AllLines, Is(l, w, n) PROVE FALSE OBVIOUS
  <2>2. Somewhere(w, n) BY <2>1 DEF Somewhere
  <2>3. n <= no[w] BY <2>2 DEF Inv, Accounted
  <2>. QED BY <1>2, <1>4, <2>3 DEF TypeOK
<1>12. Accounted'
  <2>1. ASSUME NEW v \in Writers, NEW i \in 1..MaxLines
        PROVE  i <= no'[v] <=> Somewhere(v, i)'
    <3>1. i <= no[v] <=> Somewhere(v, i) BY DEF Inv, Accounted
    <3>2. CASE v # w BY <1>5, <1>9, <1>10, <3>1, <3>2 DEF Somewhere
    <3>3. CASE v = w
      <4>1. i <= no'[w] <=> i <= no[w] \/ i = n BY <1>2, <1>4, <1>5 DEF TypeOK
      <4>2. Somewhere(w, i)' <=> i = n \/ \E l \in AllLines : Is(l, w, i)
        BY <1>5, <1>9, <1>10 DEF Somewhere
      <4>3. Somewhere(w, i) <=> \E l \in AllLines : Is(l, w, i) BY <1>9 DEF Somewhere
      <4>. QED BY <3>1, <3>3, <4>1, <4>2, <4>3
    <3>. QED BY <3>2, <3>3
  <2>. QED BY <2>1 DEF Accounted
<1>13. OnePlace'
  <2>1. \A v \in Busy' : \A l \in AllLines : ~Is(l, v, no'[v])
    BY <1>5, <1>9, <1>11 DEF Inv, OnePlace, Busy, At
  <2>2. Queued' = Queued /\ Popped' = Popped /\ PutLines' = PutLines
    BY <1>1 DEF Queued, Popped, PutLines
  <2>. QED BY <1>1, <1>10, <2>1, <2>2 DEF Inv, OnePlace
<1>14. /\ Cardinality(Begun') = Cardinality(Begun) + 1 /\ IsFiniteSet(Begun')
       /\ Cardinality(Begun) \in Nat
  <2>. DEFINE x == [by |-> w, no |-> n]
  <2>1. x \notin Begun
    BY <1>2, <1>4, BegunIs DEF TypeOK
  <2>2. Begun' = {y \in [by : Writers, no : 1..MaxLines] : y.no <= no'[y.by]}
    BY <1>5, LogAssumption DEF Begun, LogAssumption
  <2>3. ASSUME NEW y \in [by : Writers, no : 1..MaxLines]
        PROVE  y.no <= no'[y.by] <=> y.no <= no[y.by] \/ y = x
    <3>1. CASE y.by # w BY <1>5, <3>1
    <3>2. CASE y.by = w
      <4>1. y.no <= no'[w] <=> y.no <= no[w] \/ y.no = n BY <1>2, <1>4, <1>5 DEF TypeOK
      <4>2. y.no = n <=> y = x BY <3>2
      <4>. QED BY <3>2, <4>1, <4>2
    <3>. QED BY <3>1, <3>2
  <2>4. x \in [by : Writers, no : 1..MaxLines] OBVIOUS
  <2>. HIDE DEF x
  <2>5. \A y \in [by : Writers, no : 1..MaxLines] : y \in Begun' <=> y \in Begun \cup {x}
    BY <1>2, <2>2, <2>3, BegunIs
  <2>6. Begun' \subseteq [by : Writers, no : 1..MaxLines]
        /\ Begun \cup {x} \subseteq [by : Writers, no : 1..MaxLines]
    BY <1>2, <2>2, <2>4, BegunIs
  <2>7. Begun' = Begun \cup {x}
    <3>. DEFINE A == Begun'  C == Begun \cup {x}
    <3>1. \A y : y \in A <=> y \in C BY <2>5, <2>6
    <3>. HIDE DEF A, C
    <3>2. A = C BY <3>1
    <3>. QED BY <3>2 DEF A, C
  <2>. QED BY <1>2, <2>1, <2>7, BegunBound, FS_AddElement
<1>15. /\ Cardinality(Busy') = Cardinality(Busy) + 1
       /\ Cardinality(Uncounted') = Cardinality(Uncounted) + 1
  <2>1. IsFiniteSet(Busy) /\ IsFiniteSet(Uncounted)
    BY FS_Subset, LogAssumption DEF LogAssumption, Busy, Uncounted, At
  <2>. QED BY <1>9, <2>1, FS_AddElement
<1>16. Total'
  <2>1. /\ Len(single_log) \in Nat /\ Len(m_log_queue) \in Nat /\ Cardinality(written) \in Nat
        /\ Cardinality(dropped) \in Nat /\ Cardinality(Busy) \in Nat
    <3>1. Len(single_log) \in Nat /\ Len(m_log_queue) \in Nat BY <1>2 DEF TypeOK
    <3>2. IsFiniteSet(written) /\ IsFiniteSet(dropped) BY DEF Inv, Total
    <3>. QED BY <1>2, <3>1, <3>2, FS_CardinalityType, Sizes
  <2>2. Cardinality(Begun) = Cardinality(Busy) + Len(m_log_queue) + Len(single_log)
                               + Cardinality(written) + Cardinality(dropped)
    BY DEF Inv, Total
  <2>3. Cardinality(Begun') = Cardinality(Busy') + Len(m_log_queue) + Len(single_log)
                               + Cardinality(written) + Cardinality(dropped)
    BY <1>14, <1>15, <2>1, <2>2
  <2>. QED BY <1>1, <1>14, <2>3 DEF Inv, Total
<1>17. CountOK'
  <2>1. m_count \in Nat
    BY <1>2, LogAssumption, FS_CardinalityType DEF TypeOK, LogAssumption
  <2>. QED BY <1>1, <1>2, <1>14, <1>15, <2>1, Sizes DEF Inv, CountOK
<1>18. SessionOK' BY <1>1, <1>9 DEF Inv, SessionOK, Side
<1>. QED BY <1>6, <1>7, <1>8, <1>12, <1>13, <1>16, <1>17, <1>18 DEF Inv

(* The line goes to the queue, or is dropped *)
LEMMA PushInv ==
  ASSUME Inv, NEW w \in Writers, Push(w)
  PROVE  Inv'
<1>1. /\ pc[w] = "push" /\ pc' = [pc EXCEPT ![w] = "flush"]
      /\ UNCHANGED <<day, sys_tm, m_is_async, my_tm, no, single_log,
                     m_today, m_count, m_fp, written, session, unflushed>>
  BY DEF Push, fileVars
<1>2. TypeOK /\ "flush" \in Labels BY DEF Inv, Labels
<1>3. pc' \in [Writers -> Labels] /\ pc'[w] = "flush" /\ \A v \in Writers \ {w} : pc'[v] = pc[v]
  BY <1>1, <1>2, Goes
<1>4. w \in Busy BY <1>1 DEF Busy, At, ToCount, ToWrite
<1>5. PICK x \in Lines : x = Line(w) /\ x \notin AllLines /\ Is(x, w, no[w])
  BY <1>4, LinesTyped
<1>6. \A l \in AllLines : ~Is(l, x.by, x.no) /\ ~Is(x, l.by, l.no)
  BY <1>4, <1>5 DEF Inv, OnePlace, Is
<1>7. \/ /\ Len(m_log_queue) < QueueSize
         /\ m_log_queue' = Append(m_log_queue, x) /\ dropped' = dropped
      \/ dropped' = dropped \cup {x} /\ m_log_queue' = m_log_queue
  BY <1>5 DEF Push
<1>8. m_is_async BY <1>1 DEF Inv, SyncMode
<1>9. TypeOK'
  <2>1. m_log_queue' \in Seq(Lines) /\ Len(m_log_queue') <= QueueSize
    <3>1. QueueSize \in Nat /\ Len(m_log_queue) \in Nat
      BY <1>2, LogAssumption DEF TypeOK, LogAssumption
    <3>2. /\ Append(m_log_queue, x) \in Seq(Lines)
          /\ Len(Append(m_log_queue, x)) = Len(m_log_queue) + 1
      BY <1>2 DEF TypeOK
    <3>3. CASE m_log_queue' = m_log_queue BY <1>2, <3>3 DEF TypeOK
    <3>4. CASE Len(m_log_queue) < QueueSize /\ m_log_queue' = Append(m_log_queue, x)
      BY <3>1, <3>2, <3>4
    <3>. QED BY <1>7, <3>3, <3>4
  <2>2. dropped' \subseteq Lines BY <1>2, <1>7 DEF TypeOK
  <2>. QED BY <1>1, <1>2, <1>3, <2>1, <2>2 DEF TypeOK, Labels
<1>10. HasLine' /\ SyncMode' /\ DurableOnReturn'
  BY <1>1, <1>3, <1>8 DEF Inv, HasLine, SyncMode, DurableOnReturn
<1>11. Popped' = Popped /\ PutLines' = PutLines /\ Begun' = Begun
  BY <1>1 DEF Popped, PutLines, Begun
<1>12. /\ m_log_queue' = Append(m_log_queue, x) => Queued' = Queued \cup {x}
       /\ m_log_queue' = m_log_queue => Queued' = Queued
  <2>1. Range(Append(m_log_queue, x)) = Range(m_log_queue) \cup {x}
    BY <1>2, RangeAppend DEF TypeOK
  <2>. QED BY <2>1 DEF Queued, Range
<1>13. AllLines' = AllLines \cup {x} BY <1>7, <1>11, <1>12 DEF AllLines
<1>14. Accounted' /\ (\A v \in Busy : \A l \in AllLines : ~Is(l, v, no[v]))'
  BY <1>1, <1>4, <1>5, <1>13, LineLeaves
<1>15. OnePlace'
  <2>1. \A i, j \in DOMAIN m_log_queue' :
           i # j => ~Is(m_log_queue'[i], m_log_queue'[j].by, m_log_queue'[j].no)
    <3>1. CASE m_log_queue' = m_log_queue BY <3>1 DEF Inv, OnePlace
    <3>2. CASE m_log_queue' = Append(m_log_queue, x)
      <4>1. SUFFICES ASSUME NEW i \in DOMAIN m_log_queue', NEW j \in DOMAIN m_log_queue', i # j
                     PROVE  ~Is(m_log_queue'[i], m_log_queue'[j].by, m_log_queue'[j].no)
        OBVIOUS
      <4>2. \A k \in DOMAIN m_log_queue' :
               \/ k \in DOMAIN m_log_queue /\ m_log_queue'[k] = m_log_queue[k]
                     /\ m_log_queue'[k] \in AllLines
               \/ k = Len(m_log_queue) + 1 /\ m_log_queue'[k] = x
        BY <1>2, <3>2 DEF TypeOK, AllLines, Queued
      <4>3. CASE i \in DOMAIN m_log_queue /\ j \in DOMAIN m_log_queue
        <5>1. /\ m_log_queue'[i] = m_log_queue[i] /\ m_log_queue'[j] = m_log_queue[j]
          BY <1>2, <3>2, <4>3 DEF TypeOK
        <5>. QED BY <4>1, <4>3, <5>1 DEF Inv, OnePlace
      <4>. QED BY <1>6, <4>1, <4>2, <4>3
    <3>. QED BY <1>7, <3>1, <3>2
  <2>2. \A l \in Queued' : \A k \in Popped' \cup PutLines' : ~Is(l, k.by, k.no)
    BY <1>6, <1>7, <1>11, <1>12 DEF Inv, OnePlace, AllLines
  <2>3. \A l \in Popped' : \A k \in PutLines' : ~Is(l, k.by, k.no)
    BY <1>11 DEF Inv, OnePlace
  <2>. QED BY <1>14, <2>1, <2>2, <2>3 DEF OnePlace
<1>16. /\ Cardinality(Busy) = Cardinality(Busy') + 1 /\ Uncounted' = Uncounted
       /\ Cardinality(Counted) = Cardinality(Counted') + 1
       /\ Cardinality(Busy') \in Nat /\ Cardinality(Counted') \in Nat
  BY <1>1, <1>2, <1>3, Leaves DEF ToWrite
<1>17. /\ IsFiniteSet(dropped') /\ Cardinality(dropped') \in Nat /\ Cardinality(dropped) \in Nat
       /\ Len(m_log_queue') \in Nat /\ Len(m_log_queue) \in Nat
       /\ \/ /\ Len(m_log_queue') = Len(m_log_queue) + 1
             /\ Cardinality(dropped') = Cardinality(dropped)
          \/ /\ Len(m_log_queue') = Len(m_log_queue)
             /\ Cardinality(dropped') = Cardinality(dropped) + 1
  <2>1. x \notin dropped /\ IsFiniteSet(dropped) BY <1>5 DEF AllLines, Inv, Total
  <2>2. /\ Cardinality(dropped) \in Nat /\ IsFiniteSet(dropped \cup {x})
        /\ Cardinality(dropped \cup {x}) = Cardinality(dropped) + 1
    BY <2>1, FS_AddElement, FS_CardinalityType
  <2>3. CASE dropped' = dropped /\ m_log_queue' = Append(m_log_queue, x)
    BY <1>2, <2>1, <2>2, <2>3 DEF TypeOK
  <2>4. CASE dropped' = dropped \cup {x} /\ m_log_queue' = m_log_queue
    BY <1>2, <2>1, <2>2, <2>4 DEF TypeOK
  <2>. QED BY <1>7, <2>3, <2>4
<1>18. Total'
  <2>1. /\ Len(single_log) \in Nat /\ Cardinality(written) \in Nat /\ Cardinality(Begun) \in Nat
        /\ Cardinality(Busy) \in Nat
    BY <1>2, FS_CardinalityType, Sizes DEF TypeOK, Inv, Total
  <2>2. Cardinality(Begun) = Cardinality(Busy) + Len(m_log_queue) + Len(single_log)
                               + Cardinality(written) + Cardinality(dropped)
    BY DEF Inv, Total
  <2>3. Cardinality(Begun) = Cardinality(Busy') + Len(m_log_queue') + Len(single_log)
                               + Cardinality(written) + Cardinality(dropped')
    <3>1. Cardinality(Busy) = Cardinality(Busy') + 1 /\ Cardinality(Busy') \in Nat
      BY <1>16, <2>1
    <3>2. Len(m_log_queue) + Cardinality(dropped) + 1 = Len(m_log_queue') + Cardinality(dropped')
          /\ Len(m_log_queue) \in Nat /\ Cardinality(dropped) \in Nat
          /\ Len(m_log_queue') \in Nat /\ Cardinality(dropped') \in Nat
      BY <1>17
    <3>3. PICK t \in Nat, b \in Nat, p \in Nat, f \in Nat :
             /\ t = Cardinality(Begun) /\ b = Cardinality(Busy) /\ p = Len(single_log)
             /\ f = Cardinality(written)
      BY <2>1
    <3>4. PICK q \in Nat, d \in Nat, c \in Nat, r \in Nat, e \in Nat :
             /\ q = Len(m_log_queue) /\ d = Cardinality(dropped) /\ c = Cardinality(Busy')
             /\ r = Len(m_log_queue') /\ e = Cardinality(dropped')
      BY <3>1, <3>2
    <3>5. t = b + q + p + f + d /\ b = c + 1 /\ q + d + 1 = r + e BY <2>2, <3>1, <3>2, <3>3, <3>4
    <3>6. t = c + r + p + f + e BY <3>5
    <3>. QED BY <3>3, <3>4, <3>6
  <2>. QED BY <1>1, <1>11, <1>17, <2>3 DEF Inv, Total
<1>19. CountOK' BY <1>1, <1>11, <1>16 DEF Inv, CountOK
<1>20. SessionOK'
  <2>1. PICK a \in Int : a = Side /\ a = Side' BY <1>1, <1>2, SideInt DEF Side
  <2>2. session + Cardinality(Counted) + Len(m_log_queue) + Len(single_log) <= a
    BY <2>1 DEF Inv, SessionOK
  <2>3. session + Cardinality(Counted') + Len(m_log_queue') + Len(single_log) <= a
    <3>1. /\ Cardinality(Counted) = Cardinality(Counted') + 1 /\ Cardinality(Counted') \in Nat
          /\ session \in Nat /\ Len(single_log) \in Nat
      BY <1>2, <1>16, Sizes DEF TypeOK
    <3>2. Len(m_log_queue') \in Nat /\ Len(m_log_queue) \in Nat
          /\ Len(m_log_queue') <= Len(m_log_queue) + 1
      BY <1>17
    <3>. QED BY <2>2, <3>1, <3>2
  <2>. QED BY <1>1, <2>1, <2>3 DEF SessionOK
<1>. QED BY <1>9, <1>10, <1>14, <1>15, <1>18, <1>19, <1>20 DEF Inv

(* The line goes to the file *)
LEMMA PutInv ==
  ASSUME Inv, NEW w \in Writers, Put(w)
  PROVE  Inv'
<1>1. /\ pc[w] = "put" /\ pc' = [pc EXCEPT ![w] = "flush"] /\ fputs(Line(w))
      /\ UNCHANGED <<day, sys_tm, m_is_async, my_tm, no, m_log_queue, single_log, dropped>>
  BY DEF Put, queueVars
<1>2. TypeOK /\ "flush" \in Labels BY DEF Inv, Labels
<1>3. pc' \in [Writers -> Labels] /\ pc'[w] = "flush" /\ \A v \in Writers \ {w} : pc'[v] = pc[v]
  BY <1>1, <1>2, Goes
<1>4. w \in Busy BY <1>1 DEF Busy, At, ToCount, ToWrite
<1>5. PICK x \in Lines : x = Line(w) /\ x \notin AllLines /\ Is(x, w, no[w])
  BY <1>4, LinesTyped
<1>6. \A l \in AllLines : ~Is(l, x.by, x.no)
  BY <1>4, <1>5 DEF Inv, OnePlace, Is
<1>7. fputs(x) /\ x \notin PutLines BY <1>1, <1>5 DEF AllLines
<1>8. /\ PutLines' = PutLines \cup {x}
      /\ written' \subseteq [line : Lines, file : Files]
      /\ IsFiniteSet(written') /\ Cardinality(written') = Cardinality(written) + 1
      /\ session' \in Nat /\ session' = session + 1
      /\ unflushed' = unflushed \cup {x} /\ unflushed' \subseteq Lines
      /\ UNCHANGED <<m_today, m_count, m_fp>>
  BY <1>7, Putting
<1>9. TypeOK' BY <1>1, <1>2, <1>3, <1>8 DEF TypeOK, Labels
<1>10. HasLine' /\ SyncMode' BY <1>1, <1>3 DEF Inv, HasLine, SyncMode
<1>11. DurableOnReturn'
  BY <1>1, <1>2, <1>3, <1>5, <1>8 DEF Inv, DurableOnReturn, Is, TypeOK, Lines
<1>12. Queued' = Queued /\ Popped' = Popped /\ Begun' = Begun
  BY <1>1 DEF Queued, Popped, Begun
<1>13. AllLines' = AllLines \cup {x} BY <1>1, <1>8, <1>12 DEF AllLines
<1>14. Accounted' /\ (\A v \in Busy : \A l \in AllLines : ~Is(l, v, no[v]))'
  BY <1>1, <1>4, <1>5, <1>13, LineLeaves
<1>15. OnePlace'
  <2>1. \A l \in Queued' : \A k \in Popped' \cup PutLines' : ~Is(l, k.by, k.no)
    BY <1>6, <1>8, <1>12 DEF Inv, OnePlace, AllLines
  <2>2. \A l \in Popped' : \A k \in PutLines' : ~Is(l, k.by, k.no)
    BY <1>6, <1>8, <1>12 DEF Inv, OnePlace, AllLines
  <2>. QED BY <1>1, <1>14, <2>1, <2>2 DEF Inv, OnePlace
<1>16. /\ Cardinality(Busy) = Cardinality(Busy') + 1 /\ Uncounted' = Uncounted
       /\ Cardinality(Counted) = Cardinality(Counted') + 1
       /\ Cardinality(Busy') \in Nat /\ Cardinality(Counted') \in Nat
  BY <1>1, <1>2, <1>3, Leaves DEF ToWrite
<1>17. Total'
  <2>1. /\ Len(single_log) \in Nat /\ Len(m_log_queue) \in Nat /\ Cardinality(written) \in Nat
        /\ Cardinality(dropped) \in Nat
    BY <1>2, FS_CardinalityType DEF TypeOK, Inv, Total
  <2>2. Cardinality(Begun) = Cardinality(Busy) + Len(m_log_queue) + Len(single_log)
                               + Cardinality(written) + Cardinality(dropped)
    BY DEF Inv, Total
  <2>3. Cardinality(Begun) = Cardinality(Busy') + Len(m_log_queue) + Len(single_log)
                               + Cardinality(written') + Cardinality(dropped)
    BY <1>8, <1>16, <2>1, <2>2
  <2>. QED BY <1>1, <1>8, <1>12, <2>3 DEF Inv, Total
<1>18. CountOK' BY <1>8, <1>12, <1>16 DEF Inv, CountOK
<1>19. SessionOK'
  <2>1. PICK a \in Int : a = Side /\ a = Side' BY <1>1, <1>2, <1>8, SideInt DEF Side
  <2>2. session + Cardinality(Counted) + Len(m_log_queue) + Len(single_log) <= a
    BY <2>1 DEF Inv, SessionOK
  <2>3. session' + Cardinality(Counted') + Len(m_log_queue) + Len(single_log) <= a
    <3>1. session \in Nat /\ Len(single_log) \in Nat /\ Len(m_log_queue) \in Nat
      BY <1>2 DEF TypeOK
    <3>. QED BY <1>8, <1>16, <2>2, <3>1
  <2>. QED BY <1>1, <2>1, <2>3 DEF SessionOK
<1>. QED BY <1>9, <1>10, <1>11, <1>14, <1>15, <1>17, <1>18, <1>19 DEF Inv

(* The oldest line goes from the queue to the flusher *)
LEMMA PopInv ==
  ASSUME Inv, Pop
  PROVE  Inv'
<1>1. /\ single_log = <<>> /\ m_log_queue # <<>>
      /\ single_log' = <<Head(m_log_queue)>> /\ m_log_queue' = Tail(m_log_queue)
      /\ UNCHANGED <<day, sys_tm, m_is_async, pc, my_tm, no, dropped,
                     m_today, m_count, m_fp, written, session, unflushed>>
  BY DEF Pop, fileVars
<1>2. TypeOK BY DEF Inv
<1>3. PICK x \in Lines : x = Head(m_log_queue) /\ x = m_log_queue[1]
  BY <1>1, <1>2 DEF TypeOK
<1>4. PICK n \in Nat : Len(m_log_queue) = n + 1
  <2>1. Len(m_log_queue) \in Nat /\ Len(m_log_queue) # 0 BY <1>1, <1>2 DEF TypeOK
  <2>2. Len(m_log_queue) - 1 \in Nat /\ Len(m_log_queue) = (Len(m_log_queue) - 1) + 1 BY <2>1
  <2>. QED BY <2>2
<1>5. /\ m_log_queue' \in Seq(Lines) /\ Len(m_log_queue') = n /\ DOMAIN m_log_queue' = 1..n
      /\ DOMAIN m_log_queue = 1..n + 1
      /\ \A i \in 1..n : m_log_queue'[i] = m_log_queue[i + 1]
  BY <1>1, <1>2, <1>4 DEF TypeOK
<1>6. /\ single_log' = <<x>> /\ single_log' \in Seq(Lines) /\ Len(single_log') = 1
      /\ Len(single_log) = 0
  BY <1>1, <1>3
<1>7. TypeOK' BY <1>1, <1>2, <1>4, <1>5, <1>6, LogAssumption DEF TypeOK, LogAssumption
<1>8. m_is_async BY <1>1 DEF Inv, SyncMode
<1>9. HasLine' /\ SyncMode' /\ DurableOnReturn'
  BY <1>1, <1>8 DEF Inv, HasLine, SyncMode, DurableOnReturn
<1>10. Popped = {} /\ Popped' = {x} BY <1>1, <1>6 DEF Popped
<1>11. PutLines' = PutLines /\ Begun' = Begun /\ Busy' = Busy /\ Uncounted' = Uncounted
       /\ Counted' = Counted
  BY <1>1 DEF PutLines, Begun, Busy, Uncounted, Counted, At
<1>12. Queued = Queued' \cup {x}
  <2>1. \A i \in 1..n + 1 : i = 1 \/ \E j \in 1..n : i = j + 1
    <3>1. SUFFICES ASSUME NEW i \in 1..n + 1, i # 1 PROVE \E j \in 1..n : i = j + 1 OBVIOUS
    <3>2. i - 1 \in 1..n /\ i = (i - 1) + 1 BY <3>1
    <3>. QED BY <3>2
  <2>2. \A j \in 1..n : j + 1 \in 1..n + 1 OBVIOUS
  <2>3. Queued = {m_log_queue[i] : i \in 1..n + 1} BY <1>5 DEF Queued
  <2>4. Queued' = {m_log_queue[j + 1] : j \in 1..n} BY <1>5 DEF Queued
  <2>5. 1 \in 1..n + 1 OBVIOUS
  <2>. QED BY <1>3, <2>1, <2>2, <2>3, <2>4, <2>5
<1>13. AllLines' = AllLines BY <1>1, <1>10, <1>11, <1>12 DEF AllLines
<1>14. Accounted' /\ (\A v \in Busy : \A l \in AllLines : ~Is(l, v, no[v]))'
  BY <1>1, <1>13, LineStays
<1>15. OnePlace'
  <2>1. ASSUME NEW i \in 1..n, NEW j \in 1..n, i # j
        PROVE  ~Is(m_log_queue'[i], m_log_queue'[j].by, m_log_queue'[j].no)
    <3>1. i + 1 \in 1..n + 1 /\ j + 1 \in 1..n + 1 /\ i + 1 # j + 1 BY <2>1
    <3>2. ~Is(m_log_queue[i + 1], m_log_queue[j + 1].by, m_log_queue[j + 1].no)
      BY <1>5, <3>1 DEF Inv, OnePlace
    <3>. QED BY <1>5, <3>2
  <2>2. ASSUME NEW l \in Queued' PROVE ~Is(l, x.by, x.no)
    <3>1. PICK i \in 1..n : l = m_log_queue[i + 1] BY <1>5 DEF Queued
    <3>2. i + 1 \in 1..n + 1 /\ 1 \in 1..n + 1 /\ i + 1 # 1 OBVIOUS
    <3>. QED BY <1>3, <1>5, <3>1, <3>2 DEF Inv, OnePlace
  <2>3. \A l \in Queued' : \A k \in PutLines' : ~Is(l, k.by, k.no)
    BY <1>11, <1>12 DEF Inv, OnePlace
  <2>4. \A k \in PutLines' : ~Is(x, k.by, k.no)
    BY <1>11, <1>12 DEF Inv, OnePlace
  <2>. QED BY <1>5, <1>10, <1>14, <2>1, <2>2, <2>3, <2>4 DEF OnePlace
<1>16. Total'
  <2>1. /\ Cardinality(written) \in Nat /\ Cardinality(dropped) \in Nat /\ Cardinality(Busy) \in Nat
    BY <1>2, FS_CardinalityType, Sizes DEF Inv, Total
  <2>2. Cardinality(Begun) = Cardinality(Busy) + Len(m_log_queue) + Len(single_log)
                               + Cardinality(written) + Cardinality(dropped)
    BY DEF Inv, Total
  <2>3. Cardinality(Begun) = Cardinality(Busy) + Len(m_log_queue') + Len(single_log')
                               + Cardinality(written) + Cardinality(dropped)
    BY <1>4, <1>5, <1>6, <2>1, <2>2
  <2>. QED BY <1>1, <1>11, <2>3 DEF Inv, Total
<1>17. CountOK' BY <1>1, <1>11 DEF Inv, CountOK
<1>18. SessionOK'
  <2>1. Side' = Side BY <1>1 DEF Side
  <2>2. session \in Nat /\ Cardinality(Counted) \in Nat BY <1>2, Sizes DEF TypeOK
  <2>3. session + Cardinality(Counted) + Len(m_log_queue') + Len(single_log')
          = session + Cardinality(Counted) + Len(m_log_queue) + Len(single_log)
    BY <1>4, <1>5, <1>6, <2>2
  <2>. QED BY <1>1, <1>11, <2>1, <2>3 DEF Inv, SessionOK
<1>. QED BY <1>7, <1>9, <1>14, <1>15, <1>16, <1>17, <1>18 DEF Inv

(* ... and from the flusher to the file *)
LEMMA FlusherPutInv ==
  ASSUME Inv, FlusherPut
  PROVE  Inv'
<1>1. /\ single_log # <<>> /\ single_log' = <<>> /\ fputs(single_log[1])
      /\ UNCHANGED <<day, sys_tm, m_is_async, pc, my_tm, no, m_log_queue, dropped>>
  BY DEF FlusherPut
<1>2. TypeOK BY DEF Inv
<1>3. Len(single_log) = 1 /\ Len(single_log') = 0
  <2>1. single_log \in Seq(Lines) /\ Len(single_log) \in Nat /\ Len(single_log) <= 1
    BY <1>2 DEF TypeOK
  <2>2. Len(single_log) # 0 BY <1>1, <2>1
  <2>3. PICK k \in Nat : k = Len(single_log) /\ k <= 1 BY <2>1
  <2>4. Len(single_log') = 0 BY <1>1
  <2>5. k = 1 BY <2>2, <2>3
  <2>. QED BY <2>3, <2>4, <2>5
<1>4. PICK x \in Lines : x = single_log[1]
  <2>1. single_log \in Seq(Lines) /\ 1 \in 1..Len(single_log) BY <1>2, <1>3 DEF TypeOK
  <2>2. single_log[1] \in Lines BY <2>1
  <2>. QED BY <2>2
<1>5. Popped = {x} /\ Popped' = {} BY <1>1, <1>2, <1>3, <1>4 DEF Popped, TypeOK
<1>6. /\ \A k \in PutLines : ~Is(x, k.by, k.no)
      /\ \A l \in Queued : ~Is(l, x.by, x.no)
  BY <1>5 DEF Inv, OnePlace
<1>7. fputs(x) /\ x \notin PutLines BY <1>1, <1>4, <1>6 DEF Is
<1>8. /\ PutLines' = PutLines \cup {x}
      /\ written' \subseteq [line : Lines, file : Files]
      /\ IsFiniteSet(written') /\ Cardinality(written') = Cardinality(written) + 1
      /\ session' \in Nat /\ session' = session + 1
      /\ unflushed' = unflushed \cup {x} /\ unflushed' \subseteq Lines
      /\ UNCHANGED <<m_today, m_count, m_fp>>
  BY <1>7, Putting
<1>9. TypeOK' BY <1>1, <1>2, <1>8 DEF TypeOK
<1>10. m_is_async BY <1>1 DEF Inv, SyncMode
<1>11. HasLine' /\ SyncMode' /\ DurableOnReturn'
  BY <1>1, <1>10 DEF Inv, HasLine, SyncMode, DurableOnReturn
<1>12. /\ Queued' = Queued /\ Begun' = Begun /\ Busy' = Busy /\ Uncounted' = Uncounted
       /\ Counted' = Counted
  BY <1>1 DEF Queued, Begun, Busy, Uncounted, Counted, At
<1>13. AllLines' = AllLines BY <1>1, <1>5, <1>8, <1>12 DEF AllLines
<1>14. Accounted' /\ (\A v \in Busy : \A l \in AllLines : ~Is(l, v, no[v]))'
  BY <1>1, <1>13, LineStays
<1>15. OnePlace'
  BY <1>1, <1>5, <1>6, <1>8, <1>12, <1>14 DEF Inv, OnePlace
<1>16. Total'
  <2>1. /\ Cardinality(written) \in Nat /\ Cardinality(dropped) \in Nat
        /\ Cardinality(Busy) \in Nat /\ Len(m_log_queue) \in Nat
    BY <1>2, FS_CardinalityType, Sizes DEF Inv, Total, TypeOK
  <2>2. Cardinality(Begun) = Cardinality(Busy) + Len(m_log_queue) + Len(single_log)
                               + Cardinality(written) + Cardinality(dropped)
    BY DEF Inv, Total
  <2>3. Cardinality(Begun) = Cardinality(Busy) + Len(m_log_queue) + Len(single_log')
                               + Cardinality(written') + Cardinality(dropped)
    BY <1>3, <1>8, <2>1, <2>2
  <2>. QED BY <1>1, <1>8, <1>12, <2>3 DEF Inv, Total
<1>17. CountOK' BY <1>8, <1>12 DEF Inv, CountOK
<1>18. SessionOK'
  <2>1. Side' = Side BY <1>1, <1>8 DEF Side
  <2>2. session \in Nat /\ Cardinality(Counted) \in Nat /\ Len(m_log_queue) \in Nat
    BY <1>2, Sizes DEF TypeOK
  <2>3. session' + Cardinality(Counted) + Len(m_log_queue) + Len(single_log')
          = session + Cardinality(Counted) + Len(m_log_queue) + Len(single_log)
    BY <1>3, <1>8, <2>2
  <2>. QED BY <1>1, <1>12, <2>1, <2>3 DEF Inv, SessionOK
<1>. QED BY <1>9, <1>11, <1>14, <1>15, <1>16, <1>17, <1>18 DEF Inv

(* Nothing is left in the buffer *)
LEMMA FlushInv ==
  ASSUME Inv, NEW w \in Writers, Flush(w)
  PROVE  Inv'
<1>1. /\ pc[w] = "flush" /\ unflushed' = {} /\ pc' = [pc EXCEPT ![w] = "idle"]
      /\ UNCHANGED <<day, sys_tm, m_is_async, my_tm, no, m_log_queue, single_log, dropped,
                     m_today, m_count, m_fp, written, session>>
  BY DEF Flush, queueVars
<1>2. TypeOK /\ "idle" \in Labels BY DEF Inv, Labels
<1>3. pc' \in [Writers -> Labels] /\ pc'[w] = "idle" /\ \A v \in Writers \ {w} : pc'[v] = pc[v]
  BY <1>1, <1>2, Goes
<1>4. TypeOK' BY <1>1, <1>2, <1>3 DEF TypeOK, Labels
<1>5. HasLine' /\ SyncMode' /\ DurableOnReturn'
  BY <1>1, <1>3 DEF Inv, HasLine, SyncMode, DurableOnReturn
<1>6. Busy' = Busy /\ Uncounted' = Uncounted /\ Counted' = Counted /\ Begun' = Begun
  BY <1>1, <1>3 DEF Busy, Uncounted, Counted, At, Begun, ToCount, ToWrite
<1>7. Accounted' /\ OnePlace' /\ Total' BY <1>1, <1>6, PlacesKept
<1>8. CountOK' /\ SessionOK' BY <1>1, <1>6 DEF Inv, CountOK, SessionOK, Side
<1>. QED BY <1>4, <1>5, <1>7, <1>8 DEF Inv

(* Every step keeps the invariant *)
LEMMA NextInv ==
  ASSUME Inv, [Next]_vars
  PROVE  Inv'
<1>1. CASE Midnight BY <1>1, MidnightInv
<1>2. ASSUME NEW w \in Writers, Write(w)
      PROVE  Inv'
  <2>1. CASE GetTime(w) BY <2>1, GetTimeInv
  <2>2. CASE Localtime(w) BY <2>2, LocaltimeInv
  <2>3. CASE CopyTm(w) BY <2>3, CopyTmInv
  <2>4. CASE Count(w) BY <2>4, CountInv
  <2>5. CASE Full(w) BY <2>5, FullInv
  <2>6. CASE Push(w) BY <2>6, PushInv
  <2>7. CASE Put(w) BY <2>7, PutInv
  <2>8. CASE Flush(w) BY <2>8, FlushInv
  <2>. QED BY <1>2, <2>1, <2>2, <2>3, <2>4, <2>5, <2>6, <2>7, <2>8 DEF Write
<1>3. CASE Pop BY <1>3, PopInv
<1>4. CASE FlusherPut BY <1>4, FlusherPutInv
<1>5. CASE UNCHANGED vars
  <2>1. UNCHANGED <<day, sys_tm, m_is_async, m_today, m_count, m_fp, m_log_queue, pc, my_tm,
                    no, single_log, written, session, unflushed, dropped>>
    BY <1>5 DEF vars
  <2>2. TypeOK' /\ HasLine' /\ SyncMode' /\ DurableOnReturn'
    BY <2>1 DEF Inv, TypeOK, HasLine, SyncMode, DurableOnReturn
  <2>3. Busy' = Busy /\ Uncounted' = Uncounted /\ Counted' = Counted /\ Begun' = Begun
    BY <2>1 DEF Busy, Uncounted, Counted, At, Begun
  <2>4. Accounted' /\ OnePlace' /\ Total' BY <2>1, <2>3, PlacesKept
  <2>5. CountOK' /\ SessionOK' BY <2>1, <2>3 DEF Inv, CountOK, SessionOK, Side
  <2>. QED BY <2>2, <2>4, <2>5 DEF Inv
<1>. QED BY <1>1, <1>2, <1>3, <1>4, <1>5 DEF Next, Flusher

(* The invariant *)
LEMMA InvHolds == Spec => []Inv
<1>1. Init => Inv BY InitInv
<1>2. Inv /\ [Next]_vars => Inv' BY NextInv
<1>. QED BY <1>1, <1>2, PTL DEF Spec

-----------------------------------------------------------------------------
(* The lines in hand are as many as the writers that have one *)
LEMMA HandsCount ==
  ASSUME Inv
  PROVE  /\ InHand = {Line(w) : w \in Busy}
         /\ Cardinality(InHand) = Cardinality(Busy)
<1>1. {v \in Writers : pc[v] \notin {"idle", "flush"}} = Busy
  BY DEF Inv, TypeOK, Busy, At, ToCount, ToWrite
<1>2. InHand = {Line(w) : w \in Busy} BY <1>1 DEF InHand
<1>3. IsFiniteSet(Busy)
  BY FS_Subset, LogAssumption DEF LogAssumption, Busy, At
<1>. DEFINE f == [w \in Busy |-> Line(w)]
<1>4. f \in [Busy -> InHand] /\ (\A y \in InHand : \E w \in Busy : f[w] = y) BY <1>2
<1>5. \A v, w \in Busy : f[v] = f[w] => v = w
  <2>1. \A w \in Busy : f[w].by = w BY DEF Line
  <2>. HIDE DEF f
  <2>. QED BY <2>1
<1>. HIDE DEF f
<1>6. f \in Bijection(Busy, InHand)
  BY <1>4, <1>5 DEF Bijection, Injection, Surjection, IsInjective
<1>7. Cardinality(InHand) = Cardinality(Busy)
  BY <1>3, <1>6, FS_Bijection DEF ExistsBijection
<1>. QED BY <1>2, <1>7

(* Whatever the interleaving of the writers and the flusher, each line     *)
(* begun is in exactly one of its places (log.cpp:105-160, log.h:40-50).   *)
THEOREM LinesAccountedHolds == Spec => []LinesAccounted
<1>1. ASSUME Inv PROVE LinesAccounted
  <2>. USE <1>1
  <2>1. TypeOK BY DEF Inv
  <2>2. InHand = {Line(w) : w \in Busy} /\ Cardinality(InHand) = Cardinality(Busy)
    BY HandsCount
  <2>3. Cardinality(Begun) = Cardinality(InHand) + Len(m_log_queue) + Len(single_log)
                               + Cardinality(written) + Cardinality(dropped)
    BY <2>2 DEF Inv, Total
  <2>4. dropped # {} => m_is_async BY DEF Inv, SyncMode
  <2>. DEFINE R == [by : Writers, no : 1..MaxLines]
  <2>5. \A l \in AllLines : l.by \in Writers /\ l.no \in 1..MaxLines
    BY LinesTyped DEF Lines
  <2>6. \A w \in Busy : w \in Writers /\ no[w] \in 1..MaxLines
    BY LinesTyped DEF Lines, Line
  <2>7. ASSUME NEW w \in Writers, NEW n \in 1..MaxLines
        PROVE  [by |-> w, no |-> n] \in Begun <=>
                 [by |-> w, no |-> n] \in Ids(InHand) \cup Ids(AllLines)
    <3>1. [by |-> w, no |-> n] \in Begun <=> n <= no[w] BY <2>1, BegunIs
    <3>2. [by |-> w, no |-> n] \in Ids(AllLines) <=> \E l \in AllLines : Is(l, w, n)
      BY DEF Ids, IdOf, Is
    <3>3. [by |-> w, no |-> n] \in Ids(InHand) <=> w \in Busy /\ no[w] = n
      <4>1. Ids(InHand) = {[by |-> v, no |-> no[v]] : v \in Busy}
        <5>1. \A v \in Busy : IdOf(Line(v)) = [by |-> v, no |-> no[v]] BY DEF IdOf, Line
        <5>2. Ids(InHand) = {IdOf(Line(v)) : v \in Busy} BY <2>2 DEF Ids
        <5>. QED BY <5>1, <5>2
      <4>. QED BY <4>1
    <3>. QED BY <3>1, <3>2, <3>3 DEF Inv, Accounted, Somewhere
  <2>8. Begun \subseteq R BY <2>1, BegunIs
  <2>9. Ids(InHand) \subseteq R BY <2>2, <2>6 DEF Ids, IdOf, Line
  <2>10. Ids(AllLines) \subseteq R BY <2>5 DEF Ids, IdOf
  <2>11. \A y \in R : y = [by |-> y.by, no |-> y.no] /\ y.by \in Writers /\ y.no \in 1..MaxLines
    OBVIOUS
  <2>. HIDE DEF R
  <2>12. Begun = Ids(InHand) \cup Ids(AllLines) BY <2>7, <2>8, <2>9, <2>10, <2>11
  <2>13. Ids(AllLines) = Ids(Queued) \cup Ids(Popped) \cup Ids(PutLines) \cup Ids(dropped)
    BY DEF Ids, AllLines
  <2>14. Begun = Ids(InHand) \cup Ids(Queued) \cup Ids(Popped) \cup Ids(PutLines) \cup Ids(dropped)
    BY <2>12, <2>13
  <2>. QED BY <2>1, <2>3, <2>4, <2>14 DEF LinesAccounted
<1>. QED BY <1>1, InvHolds, PTL

(* In synchronous mode only the lines of calls in progress are in a buffer *)
(* (log.h:80-94, the macros; log.cpp:162-167, flush()).                    *)
THEOREM DurableOnReturnHolds == Spec => []DurableOnReturn
<1>1. Inv => DurableOnReturn BY DEF Inv
<1>. QED BY <1>1, InvHolds, PTL

(* The file is changed in time, but for the lines on their way             *)
(* (log.cpp:105-126).                                                      *)
THEOREM SessionBoundHolds == Spec => []SessionBound
<1>1. ASSUME Inv PROVE SessionBound
  <2>. USE <1>1
  <2>1. TypeOK BY DEF Inv
  <2>2. PICK c \in Nat : c = m_count
    BY <2>1, LogAssumption, FS_CardinalityType DEF TypeOK, LogAssumption
  <2>3. c % SplitLines \in Nat /\ c % SplitLines < SplitLines
    BY Quotient, LogAssumption DEF LogAssumption
  <2>4. PICK k \in Nat : k = IF m_is_async THEN QueueSize + 1 ELSE 0
    BY LogAssumption DEF LogAssumption
  <2>5. Side = (c % SplitLines) + Cardinality(Writers) + k BY <2>2, <2>4 DEF Side
  <2>6. /\ session \in Nat /\ Len(m_log_queue) \in Nat /\ Len(single_log) \in Nat
        /\ Cardinality(Counted) \in Nat /\ Cardinality(Writers) \in Nat
        /\ SplitLines \in Nat
    BY <2>1, Sizes, LogAssumption, FS_CardinalityType DEF TypeOK, LogAssumption
  <2>7. session + Cardinality(Counted) + Len(m_log_queue) + Len(single_log)
          <= (c % SplitLines) + Cardinality(Writers) + k
    BY <2>5 DEF Inv, SessionOK
  <2>8. PICK m \in Nat : m = c % SplitLines BY <2>3
  <2>9. PICK n \in Nat, a \in Nat, b \in Nat, d \in Nat, e \in Nat, sp \in Nat :
           /\ n = Cardinality(Writers) /\ a = session /\ b = Cardinality(Counted)
           /\ d = Len(m_log_queue) /\ e = Len(single_log) /\ sp = SplitLines
    BY <2>6
  <2>10. a + b + d + e <= m + n + k /\ m < sp BY <2>3, <2>7, <2>8, <2>9
  <2>11. a <= sp + (n - 1) + k BY <2>10
  <2>. QED BY <2>4, <2>9, <2>11 DEF SessionBound
<1>. QED BY <1>1, InvHolds, PTL
=============================================================================
