---------------------------- MODULE UsbHilProofs ----------------------------
(***************************************************************************)
(* TypeOK and PassMeansVerified of UsbHil, for any cases, runs, sizes and  *)
(* faults that HilAssumption admits.  The calls that are left of a case    *)
(* are followed to the check that ends each thing the device may do wrong. *)
(***************************************************************************)
EXTENDS UsbHil, SequenceTheorems, TLAPS
-----------------------------------------------------------------------------
(* The libusb calls of a case or an echo, as far as they are still to come. *)

Calls(q, name) == \E i \in 1..Len(q) : q[i].op = name

(* What is read was written before.                                         *)
OutFirst(q) ==
  \A i \in 1..Len(q) : q[i].op = "in" => \E j \in 1..i - 1 : q[j].op = "out"

(* An endpoint is seen to be clear before it is halted, and halted after.   *)
HaltChecked(q) ==
  \A i \in 1..Len(q) : q[i].op = "set_halt" =>
    /\ q[i].arg \in Endpoints
    /\ i < Len(q) /\ q[i + 1] = Op("status_set", q[i].arg)
    /\ i > 1 => q[i - 1] = Op("status_clear", q[i].arg)

(* An endpoint that was cleared is seen to be clear.                        *)
ClearsChecked(q) ==
  \A i \in 1..Len(q) : q[i].op = "clear" => i < Len(q) /\ q[i + 1] = Op("status_clear", q[i].arg)

(* It is cleared after a reset, which has left nothing halted.              *)
ClearsReset(q) ==
  \A i \in 1..Len(q) : q[i].op = "clear" => \E j \in 1..i - 1 : q[j].op = "reset"

(* After a reset the case goes on to an echo of new data.                   *)
ResetChecked(q) ==
  \A i \in 1..Len(q) : q[i].op = "reset" =>
    /\ \E j \in i + 1..Len(q) : q[j].op = "in"
    /\ \A j \in i + 1..Len(q) : q[j].op # "reset"
    /\ \A j \in i + 1..Len(q) : q[j].op = "in" => \E k \in i + 1..j - 1 : q[k].op = "out"

(* It is opened again at once.                                              *)
Reopened(q) ==
  \A i \in 1..Len(q) : q[i].op = "reset" => i < Len(q) /\ q[i + 1].op = "open"

Shaped(q) ==
  /\ HaltChecked(q) /\ ResetChecked(q) /\ Reopened(q)
  /\ Calls(q, "set_halt") => ClearsChecked(q)

(* One call is made.                                                        *)
LEMMA CallMade ==
  ASSUME NEW q \in Seq(Call), q # <<>>
  PROVE  /\ Head(q) \in Call /\ Tail(q) \in Seq(Call)
         /\ Head(q) = q[1] /\ Len(Tail(q)) = Len(q) - 1 /\ Len(q) \in Nat \ {0}
         /\ \A i \in 1..Len(q) - 1 : Tail(q)[i] = q[i + 1]
         /\ Len(q) # 1 => Tail(q) # <<>>
<1>1. Len(q) \in Nat \ {0}
  BY EmptySeq, LenProperties
<1>2. /\ Head(q) \in Call /\ Tail(q) \in Seq(Call) /\ Head(q) = q[1]
      /\ Len(Tail(q)) = Len(q) - 1
      /\ \A i \in 1..Len(q) - 1 : Tail(q)[i] = q[i + 1]
  BY <1>1, HeadTailProperties, ElementOfSeq
<1>3. Len(q) # 1 => Len(Tail(q)) # 0
  BY <1>1, <1>2
<1>4. Len(Tail(q)) # 0 => Tail(q) # <<>>
  BY <1>2, EmptySeq
<1>5. QED
  BY <1>1, <1>2, <1>3, <1>4

LEMMA CallsLeft ==
  ASSUME NEW q \in Seq(Call), q # <<>>
  PROVE  /\ \A name : /\ Calls(Tail(q), name) => Calls(q, name)
                      /\ Calls(q, name) => Calls(Tail(q), name) \/ Head(q).op = name
         /\ OutFirst(q) => Head(q).op # "in"
         /\ OutFirst(q) /\ Head(q).op # "out" => OutFirst(Tail(q))
         /\ ClearsChecked(q) => ClearsChecked(Tail(q))
         /\ ClearsReset(q) /\ Head(q).op # "reset" => ClearsReset(Tail(q))
         /\ Shaped(q) => Shaped(Tail(q))
<1>1. PICK l, r : l \in Nat /\ l = Len(q) - 1 /\ r = Tail(q)
  <2>1. Len(q) - 1 \in Nat
    BY CallMade
  <2>2. QED
    BY <2>1
<1>2. /\ Len(q) = l + 1 /\ Len(r) = l /\ Head(q) = q[1]
      /\ \A i \in 1..l : r[i] = q[i + 1]
  BY <1>1, CallMade
<1>3. /\ \A i \in 1..l + 1 : i = 1 \/ (i - 1 \in 1..l /\ i - 1 + 1 = i)
      /\ \A i \in 1..l : i + 1 \in 1..l + 1 /\ i + 1 > 1 /\ i + 1 - 1 = i
      /\ 1 \in 1..l + 1
  BY <1>1
<1>4. ASSUME NEW name
      PROVE  /\ Calls(r, name) => Calls(q, name)
             /\ Calls(q, name) => Calls(r, name) \/ Head(q).op = name
  <2>1. Calls(r, name) => Calls(q, name)
    BY <1>2, <1>3 DEF Calls
  <2>2. ASSUME NEW i \in 1..l + 1, q[i].op = name PROVE Calls(r, name) \/ Head(q).op = name
    <3>1. CASE i = 1
      BY <1>2, <2>2, <3>1
    <3>2. CASE i - 1 \in 1..l /\ i - 1 + 1 = i
      <4>1. r[i - 1] = q[i]
        BY <1>2, <3>2
      <4>2. QED
        BY <1>2, <2>2, <3>2, <4>1 DEF Calls
    <3>3. QED
      BY <1>3, <3>1, <3>2
  <2>3. QED
    BY <1>2, <2>1, <2>2 DEF Calls
<1>5. OutFirst(q) => Head(q).op # "in"
  <2>1. ~\E j \in 1..1 - 1 : q[j].op = "out"
    OBVIOUS
  <2>2. QED
    BY <1>2, <1>3, <2>1 DEF OutFirst
<1>6. ASSUME OutFirst(q), Head(q).op # "out" PROVE OutFirst(r)
  <2> SUFFICES ASSUME NEW i \in 1..l, r[i].op = "in" PROVE \E j \in 1..i - 1 : r[j].op = "out"
    BY <1>2 DEF OutFirst
  <2>1. PICK j \in 1..i + 1 - 1 : q[j].op = "out"
    BY <1>2, <1>3, <1>6 DEF OutFirst
  <2>2. j # 1
    BY <1>2, <1>6, <2>1
  <2>3. j - 1 \in 1..i - 1 /\ j - 1 \in 1..l /\ j - 1 + 1 = j
    BY <1>1, <2>1, <2>2
  <2>4. r[j - 1] = q[j]
    BY <1>2, <2>3
  <2>5. QED
    BY <2>1, <2>3, <2>4
<1>7. ASSUME ClearsChecked(q) PROVE ClearsChecked(r)
  <2> SUFFICES ASSUME NEW i \in 1..l, r[i].op = "clear"
               PROVE  i < l /\ r[i + 1] = Op("status_clear", r[i].arg)
    BY <1>2 DEF ClearsChecked
  <2>1. i + 1 < l + 1 /\ q[i + 1 + 1] = Op("status_clear", q[i + 1].arg)
    BY <1>2, <1>3, <1>7 DEF ClearsChecked
  <2>2. i < l /\ i + 1 \in 1..l
    BY <1>1, <2>1
  <2>3. QED
    BY <1>2, <2>1, <2>2
<1>8. ASSUME Reopened(q) PROVE Reopened(r)
  <2> SUFFICES ASSUME NEW i \in 1..l, r[i].op = "reset"
               PROVE  i < l /\ r[i + 1].op = "open"
    BY <1>2 DEF Reopened
  <2>1. i + 1 < l + 1 /\ q[i + 1 + 1].op = "open"
    BY <1>2, <1>3, <1>8 DEF Reopened
  <2>2. i < l /\ i + 1 \in 1..l
    BY <1>1, <2>1
  <2>3. QED
    BY <1>2, <2>1, <2>2
<1>9. ASSUME ClearsReset(q), Head(q).op # "reset" PROVE ClearsReset(r)
  <2> SUFFICES ASSUME NEW i \in 1..l, r[i].op = "clear"
               PROVE  \E j \in 1..i - 1 : r[j].op = "reset"
    BY <1>2 DEF ClearsReset
  <2>1. PICK j \in 1..i + 1 - 1 : q[j].op = "reset"
    BY <1>2, <1>3, <1>9 DEF ClearsReset
  <2>2. j # 1
    BY <1>2, <1>9, <2>1
  <2>3. j - 1 \in 1..i - 1 /\ j - 1 \in 1..l /\ j - 1 + 1 = j
    BY <1>1, <2>1, <2>2
  <2>4. r[j - 1] = q[j]
    BY <1>2, <2>3
  <2>5. QED
    BY <2>1, <2>3, <2>4
<1>10. ASSUME HaltChecked(q) PROVE HaltChecked(r)
  <2> SUFFICES ASSUME NEW i \in 1..l, r[i].op = "set_halt"
               PROVE  /\ r[i].arg \in Endpoints
                      /\ i < l /\ r[i + 1] = Op("status_set", r[i].arg)
                      /\ i > 1 => r[i - 1] = Op("status_clear", r[i].arg)
    BY <1>2 DEF HaltChecked
  <2>1. /\ q[i + 1].arg \in Endpoints
        /\ i + 1 < l + 1 /\ q[i + 1 + 1] = Op("status_set", q[i + 1].arg)
        /\ q[i] = Op("status_clear", q[i + 1].arg)
    BY <1>2, <1>3, <1>10 DEF HaltChecked
  <2>2. i < l /\ i + 1 \in 1..l /\ (i > 1 => i - 1 \in 1..l /\ i - 1 + 1 = i)
    BY <1>1, <2>1
  <2>3. QED
    BY <1>2, <2>1, <2>2
<1>11. ASSUME ResetChecked(q) PROVE ResetChecked(r)
  <2> SUFFICES ASSUME NEW i \in 1..l, r[i].op = "reset"
               PROVE  /\ \E j \in i + 1..l : r[j].op = "in"
                      /\ \A j \in i + 1..l : r[j].op # "reset"
                      /\ \A j \in i + 1..l :
                           r[j].op = "in" => \E k \in i + 1..j - 1 : r[k].op = "out"
    BY <1>2 DEF ResetChecked
  <2>1. /\ \E j \in i + 1 + 1..l + 1 : q[j].op = "in"
        /\ \A j \in i + 1 + 1..l + 1 : q[j].op # "reset"
        /\ \A j \in i + 1 + 1..l + 1 : q[j].op = "in" => \E k \in i + 1 + 1..j - 1 : q[k].op = "out"
    BY <1>2, <1>3, <1>11 DEF ResetChecked
  <2>2. \A j \in i + 1 + 1..l + 1 : j - 1 \in i + 1..l /\ r[j - 1] = q[j]
    <3>1. \A j \in i + 1 + 1..l + 1 : j - 1 \in i + 1..l /\ j - 1 \in 1..l /\ j - 1 + 1 = j
      BY <1>1
    <3>2. QED
      BY <1>2, <3>1
  <2>3. \A j \in i + 1..l : j + 1 \in i + 1 + 1..l + 1 /\ r[j] = q[j + 1]
    <3>1. \A j \in i + 1..l : j + 1 \in i + 1 + 1..l + 1 /\ j \in 1..l
      BY <1>1
    <3>2. QED
      BY <1>2, <3>1
  <2>4. ASSUME NEW j \in i + 1..l, r[j].op = "in" PROVE \E k \in i + 1..j - 1 : r[k].op = "out"
    <3>1. PICK k \in i + 1 + 1..j + 1 - 1 : q[k].op = "out"
      BY <2>1, <2>3, <2>4
    <3>2. k \in i + 1 + 1..l + 1 /\ k - 1 \in i + 1..j - 1
      BY <1>1, <3>1
    <3>3. QED
      BY <2>2, <3>1, <3>2
  <2>5. \E j \in i + 1..l : r[j].op = "in"
    BY <2>1, <2>2
  <2>6. \A j \in i + 1..l : r[j].op # "reset"
    BY <2>1, <2>3
  <2>7. QED
    BY <2>4, <2>5, <2>6
<1>12. Shaped(q) => Shaped(r)
  BY <1>4, <1>7, <1>8, <1>10, <1>11 DEF Shaped
<1>13. QED
  BY <1>1, <1>4, <1>5, <1>6, <1>7, <1>9, <1>12

(* What comes next after a call that the case checks.                       *)
LEMMA NextCall ==
  ASSUME NEW q \in Seq(Call), q # <<>>, Shaped(q)
  PROVE  /\ Head(q).op = "set_halt" => Head(q).arg \in Endpoints
         /\ Head(q).op = "set_halt" =>
              Len(q) # 1 /\ Head(Tail(q)) = Op("status_set", Head(q).arg)
         /\ Head(q).op = "clear" /\ ClearsChecked(q) =>
              Len(q) # 1 /\ Head(Tail(q)) = Op("status_clear", Head(q).arg)
         /\ Head(q).op = "reset" =>
              /\ Calls(Tail(q), "in") /\ ~Calls(Tail(q), "reset") /\ OutFirst(Tail(q))
              /\ Len(q) # 1 /\ Head(Tail(q)).op = "open"
         /\ Len(q) # 1 /\ Head(Tail(q)).op = "set_halt" =>
              Head(q) = Op("status_clear", Head(Tail(q)).arg)
<1>1. PICK l, r : l \in Nat /\ l = Len(q) - 1 /\ r = Tail(q)
  <2>1. Len(q) - 1 \in Nat
    BY CallMade
  <2>2. QED
    BY <2>1
<1>2. /\ Len(q) = l + 1 /\ Len(r) = l /\ Head(q) = q[1] /\ r \in Seq(Call)
      /\ \A i \in 1..l : r[i] = q[i + 1]
  BY <1>1, CallMade
<1>3. l # 0 => Len(q) # 1 /\ Head(r) = q[2] /\ 2 \in 1..l + 1
  <2> SUFFICES ASSUME l # 0 PROVE Len(q) # 1 /\ Head(r) = q[2] /\ 2 \in 1..l + 1
    OBVIOUS
  <2>1. l + 1 # 1 /\ 1 \in 1..l /\ 1 + 1 = 2 /\ 2 \in 1..l + 1
    BY <1>1
  <2>2. r # <<>>
    BY <1>2, EmptySeq
  <2>3. Head(r) = r[1]
    BY <1>2, <2>2, CallMade
  <2>4. QED
    BY <1>2, <2>1, <2>3
<1>4. 1 \in 1..l + 1 /\ (1 < l + 1 => l # 0) /\ 1 + 1 = 2 /\ 2 > 1 /\ 2 - 1 = 1
  BY <1>1
<1>5. Head(q).op = "set_halt" =>
        Head(q).arg \in Endpoints /\ Len(q) # 1 /\ Head(r) = Op("status_set", Head(q).arg)
  BY <1>2, <1>3, <1>4 DEF Shaped, HaltChecked
<1>6. Head(q).op = "clear" /\ ClearsChecked(q) =>
        Len(q) # 1 /\ Head(r) = Op("status_clear", Head(q).arg)
  BY <1>2, <1>3, <1>4 DEF ClearsChecked
<1>7. ASSUME Head(q).op = "reset"
      PROVE  Calls(r, "in") /\ ~Calls(r, "reset") /\ OutFirst(r)
  <2>1. /\ \E j \in 2..l + 1 : q[j].op = "in"
        /\ \A j \in 2..l + 1 : q[j].op # "reset"
        /\ \A j \in 2..l + 1 : q[j].op = "in" => \E k \in 2..j - 1 : q[k].op = "out"
    BY <1>2, <1>4, <1>7 DEF Shaped, ResetChecked
  <2>2. \A j \in 2..l + 1 : j - 1 \in 1..l /\ r[j - 1] = q[j]
    <3>1. \A j \in 2..l + 1 : j - 1 \in 1..l /\ j - 1 + 1 = j
      BY <1>1
    <3>2. QED
      BY <1>2, <3>1
  <2>3. \A j \in 1..l : j + 1 \in 2..l + 1 /\ r[j] = q[j + 1]
    <3>1. \A j \in 1..l : j + 1 \in 2..l + 1
      BY <1>1
    <3>2. QED
      BY <1>2, <3>1
  <2>4. ASSUME NEW j \in 1..l, r[j].op = "in" PROVE \E k \in 1..j - 1 : r[k].op = "out"
    <3>1. PICK k \in 2..j + 1 - 1 : q[k].op = "out"
      <4>1. j + 1 \in 2..l + 1 /\ q[j + 1].op = "in"
        BY <2>3, <2>4
      <4>2. QED
        BY <2>1, <4>1
    <3>2. k \in 2..l + 1 /\ k - 1 \in 1..j - 1
      BY <1>1, <3>1
    <3>3. QED
      BY <2>2, <3>1, <3>2
  <2>5. Calls(r, "in")
    BY <1>2, <2>1, <2>2 DEF Calls
  <2>6. ~Calls(r, "reset")
    BY <1>2, <2>1, <2>3 DEF Calls
  <2>7. OutFirst(r)
    BY <1>2, <2>4 DEF OutFirst
  <2>8. QED
    BY <2>5, <2>6, <2>7
<1>8. Len(q) # 1 /\ Head(r).op = "set_halt" => Head(q) = Op("status_clear", Head(r).arg)
  <2>1. Len(q) # 1 => l # 0
    BY <1>2
  <2>2. QED
    BY <1>2, <1>3, <1>4, <2>1 DEF Shaped, HaltChecked
<1>9. Head(q).op = "reset" => Len(q) # 1 /\ Head(r).op = "open"
  BY <1>2, <1>3, <1>4 DEF Shaped, Reopened
<1>10. QED
  BY <1>1, <1>5, <1>6, <1>7, <1>8, <1>9

(* The cases are shaped as their checks need it.                            *)
Scripted(q) ==
  /\ q \in Seq(Call) /\ q # <<>> /\ Shaped(q) /\ OutFirst(q)
  /\ ClearsChecked(q) \/ ClearsReset(q)
  /\ Head(q).op # "set_halt"

Transfer == {"out", "zlp", "in"}

Plain(q) ==
  /\ q \in Seq(Call) /\ q # <<>> /\ OutFirst(q)
  /\ \A i \in 1..Len(q) : q[i].op \in Transfer

LEMMA Joined ==
  ASSUME NEW p \in Seq(Call), NEW q \in Seq(Call)
  PROVE  /\ p \o q \in Seq(Call) /\ Len(p) \in Nat /\ Len(q) \in Nat
         /\ Len(p \o q) = Len(p) + Len(q)
         /\ \A i \in 1..Len(p) : (p \o q)[i] = p[i]
         /\ \A i \in 1..Len(q) : (p \o q)[Len(p) + i] = q[i]
         /\ \A i \in 1..Len(p) + Len(q) :
              i \in 1..Len(p) \/ (i - Len(p) \in 1..Len(q) /\ Len(p) + (i - Len(p)) = i)
         /\ q # <<>> => p \o q # <<>>
<1>1. PICK l \in Nat, k \in Nat : l = Len(p) /\ k = Len(q)
  BY LenProperties
<1>2. /\ p \o q \in Seq(Call) /\ Len(p \o q) = l + k
      /\ \A i \in 1..l : (p \o q)[i] = p[i]
      /\ \A i \in l + 1..l + k : (p \o q)[i] = q[i - l]
  BY <1>1, ConcatProperties
<1>3. \A i \in 1..k : l + i \in l + 1..l + k /\ l + i - l = i
  BY <1>1
<1>4. \A i \in 1..l + k : i \in 1..l \/ (i - l \in 1..k /\ l + (i - l) = i)
  BY <1>1
<1>5. q # <<>> => l + k # 0
  BY <1>1, EmptySeq
<1>6. QED
  BY <1>1, <1>2, <1>3, <1>4, <1>5, EmptySeq

LEMMA PlainJoined ==
  ASSUME NEW p, NEW q, Plain(p), Plain(q)
  PROVE  Plain(p \o q)
<1>1. p \in Seq(Call) /\ q \in Seq(Call) /\ q # <<>>
  BY DEF Plain
<1>2. PICK l, k, r : l \in Nat /\ k \in Nat /\ l = Len(p) /\ k = Len(q) /\ r = p \o q
  BY <1>1, LenProperties
<1>3. /\ r \in Seq(Call) /\ Len(r) = l + k /\ r # <<>>
      /\ \A i \in 1..l : r[i] = p[i]
      /\ \A i \in 1..k : r[l + i] = q[i]
      /\ \A i \in 1..l + k : i \in 1..l \/ (i - l \in 1..k /\ l + (i - l) = i)
  BY <1>1, <1>2, Joined
<1>4. \A i \in 1..l + k : r[i].op \in Transfer
  <2> TAKE i \in 1..l + k
  <2>1. CASE i \in 1..l
    BY <1>2, <1>3, <2>1 DEF Plain
  <2>2. CASE i - l \in 1..k /\ l + (i - l) = i
    <3>1. r[i] = q[i - l]
      BY <1>3, <2>2
    <3>2. QED
      BY <1>2, <2>2, <3>1 DEF Plain
  <2>3. QED
    BY <1>3, <2>1, <2>2
<1>5. ASSUME NEW i \in 1..l + k, r[i].op = "in" PROVE \E j \in 1..i - 1 : r[j].op = "out"
  <2>1. CASE i \in 1..l
    <3>1. PICK j \in 1..i - 1 : p[j].op = "out"
      BY <1>2, <1>3, <1>5, <2>1 DEF Plain, OutFirst
    <3>2. j \in 1..l
      <4>1. l \in Nat
        BY <1>2
      <4>2. QED
        BY <2>1, <4>1
    <3>3. QED
      BY <1>3, <3>1, <3>2
  <2>2. CASE i - l \in 1..k /\ l + (i - l) = i
    <3>1. r[i] = q[i - l]
      BY <1>3, <2>2
    <3>2. PICK j \in 1..i - l - 1 : q[j].op = "out"
      BY <1>2, <1>5, <2>2, <3>1 DEF Plain, OutFirst
    <3>3. j \in 1..k /\ l + j \in 1..i - 1
      <4>1. k \in Nat /\ l \in Nat
        BY <1>2
      <4>2. QED
        BY <2>2, <4>1
    <3>4. r[l + j] = q[j]
      BY <1>3, <3>3
    <3>5. QED
      BY <3>2, <3>3, <3>4
  <2>3. QED
    BY <1>3, <2>1, <2>2
<1>6. QED
  BY <1>2, <1>3, <1>4, <1>5 DEF Plain, OutFirst

LEMMA PlainScripted ==
  ASSUME NEW q, Plain(q)
  PROVE  Scripted(q)
<1>1. \A i \in 1..Len(q) : q[i].op \notin {"set_halt", "clear", "reset"}
  BY DEF Plain, Transfer
<1>2. Head(q) = q[1] /\ 1 \in 1..Len(q)
  BY CallMade DEF Plain
<1>3. Head(q).op # "set_halt"
  BY <1>1, <1>2
<1>4. Shaped(q) /\ ClearsChecked(q)
  BY <1>1 DEF Shaped, HaltChecked, ResetChecked, Reopened, ClearsChecked, Calls
<1>5. QED
  BY <1>3, <1>4 DEF Scripted, Plain

(* UsbSession.write and an echo.                                            *)
LEMMA WriteShape ==
  ASSUME NEW size \in Nat
  PROVE  /\ Write(size) \in Seq(Call) /\ Write(size) # <<>> /\ Write(size)[1].op = "out"
         /\ Len(Write(size)) \in {1, 2}
         /\ \A i \in 1..Len(Write(size)) : Write(size)[i].op \in {"out", "zlp"}
<1>1. PICK out \in Call, zlp \in Call : /\ out = Op("out", size) /\ out.op = "out"
                                        /\ zlp = Op("zlp", size) /\ zlp.op = "zlp"
  <2>1. /\ Op("out", size) \in Call /\ Op("out", size).op = "out"
        /\ Op("zlp", size) \in Call /\ Op("zlp", size).op = "zlp"
    BY DEF Op, Call, CallName
  <2>2. QED
    BY <2>1
<1>2. CASE NeedsZlp(size)
  <2>1. Write(size) = <<out>> \o <<zlp>>
    BY <1>1, <1>2 DEF Write
  <2>2. /\ <<out>> \in Seq(Call) /\ Len(<<out>>) = 1 /\ <<out>>[1] = out
        /\ <<zlp>> \in Seq(Call) /\ Len(<<zlp>>) = 1 /\ <<zlp>>[1] = zlp /\ <<zlp>> # <<>>
        /\ 1 \in 1..1 /\ 1 + 1 = 2
    OBVIOUS
  <2>3. PICK w : w = <<out>> \o <<zlp>>
    OBVIOUS
  <2>4. w \in Seq(Call) /\ w # <<>> /\ Len(w) = 2 /\ w[1] = out /\ w[2] = zlp
    BY <2>2, <2>3, Joined
  <2>5. \A i \in 1..2 : i = 1 \/ i = 2
    OBVIOUS
  <2>6. QED
    BY <1>1, <2>1, <2>3, <2>4, <2>5
<1>3. CASE ~NeedsZlp(size)
  <2>1. Write(size) = <<out>> \o <<>>
    BY <1>1, <1>3 DEF Write
  <2>2. <<out>> \o <<>> = <<out>>
    OBVIOUS
  <2>3. QED
    BY <1>1, <2>1, <2>2
<1>4. QED
  BY <1>2, <1>3

LEMMA EchoPlain ==
  ASSUME NEW size \in Nat
  PROVE  Plain(Echo(size)) /\ Calls(Echo(size), "in") /\ Calls(Echo(size), "out")
<1>1. PICK w \in Seq(Call) : w = Write(size)
  BY WriteShape
<1>2. PICK in \in Call : in = Op("in", size) /\ in.op = "in"
  <2>1. Op("in", size) \in Call /\ Op("in", size).op = "in"
    BY DEF Op, Call, CallName
  <2>2. QED
    BY <2>1
<1>3. PICK r : r = w \o <<in>>
  OBVIOUS
<1>4. Echo(size) = r
  BY <1>1, <1>2, <1>3 DEF Echo
<1>5. PICK k \in {1, 2} : k = Len(w)
  BY <1>1, WriteShape
<1>6. <<in>> \in Seq(Call) /\ Len(<<in>>) = 1 /\ <<in>>[1] = in /\ <<in>> # <<>>
  BY <1>2
<1>7. /\ r \in Seq(Call) /\ Len(r) = k + 1 /\ r # <<>>
      /\ \A i \in 1..k : r[i] = w[i]
      /\ r[k + 1] = in
  <2>1. 1 \in 1..1
    OBVIOUS
  <2>2. QED
    BY <1>1, <1>3, <1>5, <1>6, <2>1, Joined
<1>8. w[1].op = "out" /\ \A i \in 1..k : w[i].op \in {"out", "zlp"}
  BY <1>1, <1>5, WriteShape
<1>9. /\ \A i \in 1..k + 1 : i \in 1..k \/ i = k + 1
      /\ 1 \in 1..k /\ 1 \in 1..k + 1 /\ k + 1 \in 1..k + 1 /\ 1 \in 1..k + 1 - 1
  BY <1>5
<1>10. r[1].op = "out" /\ r[k + 1].op = "in" /\ \A i \in 1..k : r[i].op \in {"out", "zlp"}
  BY <1>2, <1>7, <1>8, <1>9
<1>11. \A i \in 1..k + 1 : r[i].op \in Transfer
  BY <1>9, <1>10 DEF Transfer
<1>12. OutFirst(r)
  <2> SUFFICES ASSUME NEW i \in 1..k + 1, r[i].op = "in" PROVE \E j \in 1..i - 1 : r[j].op = "out"
    BY <1>7 DEF OutFirst
  <2>1. i = k + 1
    BY <1>9, <1>10
  <2>2. QED
    BY <1>9, <1>10, <2>1
<1>13. QED
  BY <1>4, <1>7, <1>9, <1>10, <1>11, <1>12 DEF Plain, Calls

(* A case that resets the device.                                           *)
LEMMA ResetShape ==
  ASSUME NEW q \in Seq(Call), NEW a \in Nat, NEW e, Plain(e), Calls(e, "in"),
         Len(q) = a + 4 + Len(e),
         \A i \in 1..a : q[i].op \in {"out", "zlp"},
         q[a + 1].op = "reset", q[a + 2].op = "open",
         q[a + 3].op = "clear", q[a + 4].op = "clear",
         \A i \in 1..Len(e) : q[a + 4 + i] = e[i]
  PROVE  Scripted(q)
<1>1. PICK k \in Nat : k = Len(e)
  BY LenProperties DEF Plain
<1>2. \A i \in 1..a + 4 + k :
        \/ i \in 1..a \/ i = a + 1 \/ i = a + 2 \/ i = a + 3 \/ i = a + 4
        \/ i - (a + 4) \in 1..k /\ a + 4 + (i - (a + 4)) = i
  BY <1>1
<1>3. \A i \in 1..k : q[a + 4 + i] = e[i] /\ e[i].op \in Transfer
  BY <1>1 DEF Plain
<1>4. \A i \in 1..a + 4 + k :
        /\ q[i].op # "set_halt"
        /\ q[i].op = "reset" => i = a + 1
        /\ q[i].op = "clear" => i = a + 3 \/ i = a + 4
        /\ q[i].op = "in" => i - (a + 4) \in 1..k /\ e[i - (a + 4)].op = "in"
  <2> TAKE i \in 1..a + 4 + k
  <2>1. CASE i \in 1..a
    BY <2>1
  <2>2. CASE i = a + 1 \/ i = a + 2 \/ i = a + 3 \/ i = a + 4
    BY <2>2
  <2>3. CASE i - (a + 4) \in 1..k /\ a + 4 + (i - (a + 4)) = i
    <3>1. q[i] = e[i - (a + 4)] /\ e[i - (a + 4)].op \in Transfer
      BY <1>3, <2>3
    <3>2. QED
      BY <2>3, <3>1 DEF Transfer
  <2>4. QED
    BY <1>2, <2>1, <2>2, <2>3
<1>5. ASSUME NEW i \in 1..a + 4 + k, q[i].op = "in"
      PROVE  \E j \in a + 1 + 1..i - 1 : q[j].op = "out"
  <2>1. i - (a + 4) \in 1..k /\ e[i - (a + 4)].op = "in"
    BY <1>4, <1>5
  <2>2. PICK j \in 1..i - (a + 4) - 1 : e[j].op = "out"
    BY <1>1, <2>1 DEF Plain, OutFirst
  <2>3. j \in 1..k /\ a + 4 + j \in a + 1 + 1..i - 1
    BY <2>1
  <2>4. QED
    BY <1>3, <2>2, <2>3
<1>6. OutFirst(q)
  <2>1. \A i \in 1..a + 4 + k : a + 1 + 1..i - 1 \subseteq 1..i - 1
    OBVIOUS
  <2>2. QED
    BY <1>1, <1>5, <2>1 DEF OutFirst
<1>7. ClearsReset(q)
  <2>1. a + 1 \in 1..a + 3 - 1 /\ a + 1 \in 1..a + 4 - 1
    OBVIOUS
  <2>2. QED
    BY <1>1, <1>4, <2>1 DEF ClearsReset
<1>8. ResetChecked(q)
  <2>0. PICK l \in Nat : l = Len(q)
    BY <1>1
  <2> SUFFICES ASSUME NEW i \in 1..l, q[i].op = "reset"
               PROVE  /\ \E j \in i + 1..l : q[j].op = "in"
                      /\ \A j \in i + 1..l : q[j].op # "reset"
                      /\ \A j \in i + 1..l :
                           q[j].op = "in" => \E m \in i + 1..j - 1 : q[m].op = "out"
    BY <2>0 DEF ResetChecked
  <2>1. i = a + 1 /\ l = a + 4 + k
    BY <1>1, <1>4, <2>0
  <2>2. \A j \in i + 1..l : j \in 1..a + 4 + k /\ j # a + 1
    BY <2>1
  <2>3. \E j \in i + 1..l : q[j].op = "in"
    <3>1. PICK j \in 1..k : e[j].op = "in"
      BY <1>1 DEF Calls
    <3>2. a + 4 + j \in i + 1..l
      <4>1. j \in Nat /\ 1 <= j /\ j <= k
        OBVIOUS
      <4>2. i + 1 <= a + 4 + j /\ a + 4 + j <= l /\ a + 4 + j \in Nat
        BY <2>1, <4>1
      <4>3. QED
        BY <4>2
    <3>3. QED
      BY <1>3, <3>1, <3>2
  <2>4. \A j \in i + 1..l : q[j].op # "reset"
    BY <1>4, <2>2
  <2>5. \A j \in i + 1..l : q[j].op = "in" => \E m \in i + 1..j - 1 : q[m].op = "out"
    BY <1>5, <2>1, <2>2
  <2>6. QED
    BY <2>3, <2>4, <2>5
<1>9. Head(q) = q[1] /\ q # <<>> /\ 1 \in 1..a + 4 + k
  <2>1. a + 4 + k # 0 /\ 1 \in 1..a + 4 + k
    OBVIOUS
  <2>2. q # <<>>
    BY <1>1, <2>1, EmptySeq
  <2>3. QED
    BY <2>1, <2>2, CallMade
<1>10. Reopened(q)
  <2>1. a + 1 < a + 4 + k /\ a + 1 + 1 = a + 2
    OBVIOUS
  <2>2. QED
    BY <1>1, <1>4, <2>1 DEF Reopened
<1>11. QED
  BY <1>1, <1>4, <1>6, <1>7, <1>8, <1>9, <1>10 DEF Scripted, Shaped, HaltChecked, Calls

(* A case that halts an endpoint.                                           *)
LEMMA HaltShape ==
  ASSUME NEW q \in Seq(Call), NEW x \in Endpoints, NEW e, Plain(e),
         Len(q) = 6 + Len(e),
         q[1] = Op("status_clear", x), q[2] = Op("set_halt", x), q[3] = Op("status_set", x),
         q[4] = Op("stall", x), q[5] = Op("clear", x), q[6] = Op("status_clear", x),
         \A i \in 1..Len(e) : q[6 + i] = e[i]
  PROVE  Scripted(q)
<1>1. PICK k \in Nat : k = Len(e)
  BY LenProperties DEF Plain
<1>2. \A i \in 1..6 + k : i \in {1, 2, 3, 4, 5, 6} \/ (i - 6 \in 1..k /\ 6 + (i - 6) = i)
  BY <1>1
<1>3. \A i \in 1..k : q[6 + i] = e[i] /\ e[i].op \in Transfer
  BY <1>1 DEF Plain
<1>4. \A i \in 1..6 + k :
        /\ q[i].op = "set_halt" => i = 2
        /\ q[i].op = "clear" => i = 5
        /\ q[i].op # "reset"
        /\ q[i].op = "in" => i - 6 \in 1..k /\ e[i - 6].op = "in"
  <2> TAKE i \in 1..6 + k
  <2>1. CASE i \in {1, 2, 3, 4, 5, 6}
    BY <2>1 DEF Op
  <2>2. CASE i - 6 \in 1..k /\ 6 + (i - 6) = i
    <3>1. q[i] = e[i - 6] /\ e[i - 6].op \in Transfer
      BY <1>3, <2>2
    <3>2. QED
      BY <2>2, <3>1 DEF Transfer
  <2>3. QED
    BY <1>2, <2>1, <2>2
<1>5. ASSUME NEW i \in 1..6 + k, q[i].op = "in" PROVE \E j \in 1..i - 1 : q[j].op = "out"
  <2>1. i - 6 \in 1..k /\ e[i - 6].op = "in"
    BY <1>4, <1>5
  <2>2. PICK j \in 1..i - 6 - 1 : e[j].op = "out"
    BY <1>1, <2>1 DEF Plain, OutFirst
  <2>3. j \in 1..k /\ 6 + j \in 1..i - 1
    BY <2>1
  <2>4. QED
    BY <1>3, <2>2, <2>3
<1>6. 2 < 6 + k /\ 5 < 6 + k /\ 6 + k # 0 /\ 2 + 1 = 3 /\ 5 + 1 = 6 /\ 2 - 1 = 1
  OBVIOUS
<1>7. q[1].op # "set_halt" /\ q[2].arg = x /\ q[5].arg = x
  BY DEF Op
<1>8. Head(q) = q[1] /\ q # <<>>
  <2>1. q # <<>>
    BY <1>1, <1>6, EmptySeq
  <2>2. QED
    BY <2>1, CallMade
<1>9. HaltChecked(q)
  BY <1>1, <1>4, <1>6, <1>7 DEF HaltChecked
<1>10. ClearsChecked(q)
  BY <1>1, <1>4, <1>6, <1>7 DEF ClearsChecked
<1>11. ResetChecked(q) /\ Reopened(q) /\ OutFirst(q)
  BY <1>1, <1>4, <1>5 DEF ResetChecked, Reopened, OutFirst
<1>12. QED
  BY <1>7, <1>8, <1>9, <1>10, <1>11 DEF Scripted, Shaped

LEMMA ReopenShape ==
  /\ ResetAndReopen \in Seq(Call) /\ Len(ResetAndReopen) = 4
  /\ ResetAndReopen[1].op = "reset" /\ ResetAndReopen[2].op = "open"
  /\ ResetAndReopen[3].op = "clear" /\ ResetAndReopen[4].op = "clear"
<1>1. PICK a \in Call, b \in Call, c \in Call, d \in Call :
        /\ a = Op("reset", 0) /\ b = Op("open", 0) /\ c = Op("clear", EP_OUT)
        /\ d = Op("clear", EP_IN)
        /\ a.op = "reset" /\ b.op = "open" /\ c.op = "clear" /\ d.op = "clear"
  <2>1. /\ Op("reset", 0) \in Call /\ Op("open", 0) \in Call /\ Op("clear", EP_OUT) \in Call
        /\ Op("clear", EP_IN) \in Call
        /\ Op("reset", 0).op = "reset" /\ Op("open", 0).op = "open"
        /\ Op("clear", EP_OUT).op = "clear" /\ Op("clear", EP_IN).op = "clear"
    BY DEF Op, Call, CallName, EP_OUT, EP_IN
  <2>2. QED
    BY <2>1
<1>2. ResetAndReopen = <<a, b, c, d>>
  BY <1>1 DEF ResetAndReopen
<1>3. QED
  BY <1>1, <1>2

LEMMA CaseScripted ==
  ASSUME NEW case \in [kind: {"fragment", "backpressure", "reset_idle", "reset_pending", "halt"},
                       arg: Nat],
         case.kind = "halt" => case.arg \in Endpoints
  PROVE  Scripted(CaseOps(case))
<1> USE HilAssumption
<1>1. PICK e \in Seq(Call), k \in Nat :
        e = Echo(Window) /\ Plain(e) /\ Calls(e, "in") /\ e # <<>> /\ k = Len(e)
  <2>1. Plain(Echo(Window)) /\ Calls(Echo(Window), "in")
    BY EchoPlain
  <2>2. Len(Echo(Window)) \in Nat
    BY <2>1, LenProperties DEF Plain
  <2>3. Echo(Window) \in Seq(Call) /\ Echo(Window) # <<>>
    BY <2>1 DEF Plain
  <2>4. QED
    BY <2>1, <2>2, <2>3
<1>2. PICK x \in Nat : x = case.arg
  OBVIOUS
<1>3. CASE case.kind = "fragment"
  <2>1. PICK f : f = Echo(x) /\ Plain(f)
    BY EchoPlain
  <2>2. CaseOps(case) = f \o f \o f \o f
    BY <1>2, <1>3, <2>1 DEF CaseOps
  <2>3. Plain(f \o f)
    BY <2>1, PlainJoined
  <2>4. Plain(f \o f \o f)
    BY <2>1, <2>3, PlainJoined
  <2>5. Plain(f \o f \o f \o f)
    BY <2>1, <2>4, PlainJoined
  <2>6. QED
    BY <2>2, <2>5, PlainScripted
<1>4. CASE case.kind = "backpressure"
  <2>1. HsPacket + 1 \in Nat
    OBVIOUS
  <2>2. Plain(Echo(HsPacket + 1))
    BY <2>1, EchoPlain
  <2>3. CaseOps(case) = e \o Echo(HsPacket + 1)
    BY <1>1, <1>4 DEF CaseOps
  <2>4. QED
    BY <1>1, <2>2, <2>3, PlainJoined, PlainScripted
<1>5. PICK t \in Seq(Call) :
        /\ t = ResetAndReopen /\ Len(t) = 4 /\ t[1].op = "reset" /\ t[2].op = "open"
        /\ t[3].op = "clear" /\ t[4].op = "clear"
  BY ReopenShape
<1>6. CASE case.kind = "reset_idle"
  <2>1. PICK q : q = t \o e
    OBVIOUS
  <2>2. CaseOps(case) = q
    BY <1>1, <1>5, <1>6, <2>1 DEF CaseOps
  <2>3. /\ q \in Seq(Call) /\ Len(q) = 4 + k
        /\ \A i \in 1..4 : q[i] = t[i]
        /\ \A i \in 1..k : q[4 + i] = e[i]
    <3>1. /\ t \o e \in Seq(Call) /\ Len(t \o e) = Len(t) + Len(e)
          /\ \A i \in 1..Len(t) : (t \o e)[i] = t[i]
          /\ \A i \in 1..Len(e) : (t \o e)[Len(t) + i] = e[i]
      BY <1>1, <1>5, Joined
    <3>2. QED
      BY <1>1, <1>5, <2>1, <3>1
  <2>4. /\ q[0 + 1].op = "reset" /\ q[0 + 2].op = "open" /\ q[0 + 3].op = "clear"
        /\ q[0 + 4].op = "clear"
    BY <1>5, <2>3
  <2>5. /\ Len(q) = 0 + 4 + Len(e)
        /\ \A i \in 1..Len(e) : q[0 + 4 + i] = e[i]
        /\ \A i \in 1..0 : q[i].op \in {"out", "zlp"}
    BY <1>1, <2>3
  <2>6. Scripted(q)
    BY <1>1, <2>3, <2>4, <2>5, ResetShape
  <2>7. QED
    BY <2>2, <2>6
<1>7. CASE case.kind = "reset_pending"
  <2>1. PICK w \in Seq(Call) : w = Write(x) /\ \A i \in 1..Len(w) : w[i].op \in {"out", "zlp"}
    BY WriteShape
  <2>2. PICK a \in Nat : a = Len(w)
    BY LenProperties
  <2>3. PICK v, q : v = w \o t /\ q = v \o e
    OBVIOUS
  <2>4. CaseOps(case) = q
    BY <1>1, <1>2, <1>5, <1>7, <2>1, <2>3 DEF CaseOps
  <2>5. /\ v \in Seq(Call) /\ Len(v) = a + 4
        /\ \A i \in 1..a : v[i] = w[i]
        /\ \A i \in 1..4 : v[a + i] = t[i]
    <3>1. /\ w \o t \in Seq(Call) /\ Len(w \o t) = Len(w) + Len(t)
          /\ \A i \in 1..Len(w) : (w \o t)[i] = w[i]
          /\ \A i \in 1..Len(t) : (w \o t)[Len(w) + i] = t[i]
      BY <1>5, <2>2, Joined
    <3>2. QED
      BY <1>5, <2>2, <2>3, <3>1
  <2>6. /\ q \in Seq(Call) /\ Len(q) = a + 4 + k
        /\ \A i \in 1..a + 4 : q[i] = v[i]
        /\ \A i \in 1..k : q[a + 4 + i] = e[i]
    <3>1. /\ v \o e \in Seq(Call) /\ Len(v \o e) = Len(v) + Len(e)
          /\ \A i \in 1..Len(v) : (v \o e)[i] = v[i]
          /\ \A i \in 1..Len(e) : (v \o e)[Len(v) + i] = e[i]
      <4>1. v \in Seq(Call) /\ e \in Seq(Call)
        BY <1>1, <2>5
      <4>2. QED
        BY <4>1, Joined
    <3>2. QED
      BY <1>1, <2>5, <2>3, <3>1
  <2>7. ASSUME NEW i \in 1..a PROVE q[i].op \in {"out", "zlp"}
    <3>1. i \in 1..a + 4
      OBVIOUS
    <3>2. q[i] = v[i] /\ v[i] = w[i]
      BY <2>5, <2>6, <3>1
    <3>3. w[i].op \in {"out", "zlp"}
      BY <2>1, <2>2
    <3>4. QED
      BY <3>2, <3>3
  <2>8. /\ q[a + 1].op = "reset" /\ q[a + 2].op = "open" /\ q[a + 3].op = "clear"
        /\ q[a + 4].op = "clear"
    <3>1. \A i \in 1..4 : a + i \in 1..a + 4 /\ q[a + i] = t[i]
      <4>1. \A i \in 1..4 : a + i \in 1..a + 4
        OBVIOUS
      <4>2. QED
        BY <2>5, <2>6, <4>1
    <3>2. 1 \in 1..4 /\ 2 \in 1..4 /\ 3 \in 1..4 /\ 4 \in 1..4
      OBVIOUS
    <3>3. QED
      BY <1>5, <3>1, <3>2
  <2>9. Scripted(q)
    BY <1>1, <2>6, <2>7, <2>8, ResetShape
  <2>10. QED
    BY <2>4, <2>9
<1>8. CASE case.kind = "halt"
  <2>1. PICK a \in Call, b \in Call, c \in Call, d \in Call, f \in Call :
          /\ a = Op("status_clear", x) /\ b = Op("set_halt", x) /\ c = Op("status_set", x)
          /\ d = Op("stall", x) /\ f = Op("clear", x)
    <3>1. /\ Op("status_clear", x) \in Call /\ Op("set_halt", x) \in Call
          /\ Op("status_set", x) \in Call /\ Op("stall", x) \in Call /\ Op("clear", x) \in Call
      BY DEF Op, Call, CallName
    <3>2. QED
      BY <3>1
  <2>2. PICK h : h = <<a, b, c, d, f, a>>
    OBVIOUS
  <2>3. PICK q : q = h \o e
    OBVIOUS
  <2>4. CaseOps(case) = q
    BY <1>1, <1>2, <1>8, <2>1, <2>2, <2>3 DEF CaseOps
  <2>5. /\ h \in Seq(Call) /\ Len(h) = 6 /\ h[1] = a /\ h[2] = b /\ h[3] = c /\ h[4] = d
        /\ h[5] = f /\ h[6] = a
    BY <2>2
  <2>6. /\ q \in Seq(Call) /\ Len(q) = 6 + k
        /\ \A i \in 1..6 : q[i] = h[i]
        /\ \A i \in 1..k : q[6 + i] = e[i]
    <3>1. /\ h \o e \in Seq(Call) /\ Len(h \o e) = Len(h) + Len(e)
          /\ \A i \in 1..Len(h) : (h \o e)[i] = h[i]
          /\ \A i \in 1..Len(e) : (h \o e)[Len(h) + i] = e[i]
      <4>1. h \in Seq(Call) /\ e \in Seq(Call)
        BY <1>1, <2>5
      <4>2. QED
        BY <4>1, Joined
    <3>2. QED
      BY <1>1, <2>5, <2>3, <3>1
  <2>7. /\ q[1] = a /\ q[2] = b /\ q[3] = c /\ q[4] = d /\ q[5] = f /\ q[6] = a
    BY <2>5, <2>6
  <2>8. Scripted(q)
    <3>1. /\ q[1] = Op("status_clear", x) /\ q[2] = Op("set_halt", x)
          /\ q[3] = Op("status_set", x) /\ q[4] = Op("stall", x)
          /\ q[5] = Op("clear", x) /\ q[6] = Op("status_clear", x)
      BY <2>1, <2>7
    <3>2. Len(q) = 6 + Len(e) /\ \A i \in 1..Len(e) : q[6 + i] = e[i]
      BY <1>1, <2>6
    <3>3. QED
      BY <1>1, <1>2, <1>8, <2>6, <3>1, <3>2, HaltShape
  <2>9. QED
    BY <2>4, <2>8
<1>9. QED
  BY <1>3, <1>4, <1>6, <1>7, <1>8
-----------------------------------------------------------------------------
(* The invariant.                                                           *)

Device ==
  [present: BOOLEAN, plug: Nat \ {0}, out: Transfers, echo: Seq(Transfers),
   halted: SUBSET Endpoints]

Types == TypeOK /\ device \in Device

Working == {"start", "create", "record", "work", "unit_done", "unit"}

(* The run under way has no verdict, and the device is open while a case or *)
(* an echo is under way or done.                                            *)
Phases ==
  /\ evidence.run = 1
  /\ pc \in Working => evidence.status = "RUNNING" /\ ~Passed
  /\ pc \in Working \ {"start"} \/ evidence.status = "PASS" \/ Passed => Eligible
  /\ handle <= device.plug
  /\ pc \in {"start", "create"} => sent = 0
  /\ pc \in {"unit_done", "unit"} \/ (pc = "record" /\ sent > 0) => handle # 0
  /\ pc = "work" => ops # <<>> /\ (handle = 0 => Head(ops).op = "open")

(* What a PASS says of the numbers.                                         *)
Enough(document) ==
  CASE args.program = "matrix"   -> document.units = Len(Cases)
    [] args.program = "loopback" -> document.bytes >= args.total /\ document.seconds >= args.seconds
    [] args.program = "fs"       -> document.bytes = args.total /\ args.speed = "fs"

(* A case or an echo is begun only when there is one more to do.            *)
Counts ==
  /\ args.program = "matrix" => progress.units <= Len(Cases)
  /\ args.program = "fs" => progress.bytes <= args.total
  /\ pc = "work" /\ Calls(ops, "out") => More
  /\ pc \in {"work", "unit_done"} /\ sent > 0 => More
  /\ evidence.status = "PASS" => Enough(evidence)
  /\ Passed => Enough(file)

(* A transfer of one payload: it was drawn before.                          *)
Drawn(transfer, last) == Len(transfer.ids) = 1 => transfer.ids[1] <= last

Draws ==
  /\ Drawn(device.out, sent)
  /\ \A i \in 1..Len(device.echo) : Drawn(device.echo[i], sent)

Settled ==
  ClearsChecked(ops) \/ device.halted = {} \/ ClearsReset(ops)

(* The calls left fit the device.                                           *)
Underway ==
  pc = "work" =>
    /\ Shaped(ops) /\ Settled
    /\ sent = 0 => OutFirst(ops)
    /\ Head(ops).op = "set_halt" => Head(ops).arg \notin device.halted

(* The run may still pass, or has passed.                                   *)
Going == pc \in Working \/ evidence.status = "PASS" \/ Passed

(* Then what the device did wrong has not been seen for one call at most:   *)
(* the check of it is the next one.                                         *)
Heard ==
  "deaf" \in faults =>
    pc = "work" /\ Head(ops).op = "status_set" /\ Head(ops).arg \notin device.halted

Cleared ==
  "stuck" \in faults =>
    /\ pc = "work" /\ Head(ops).op = "status_clear"
    /\ Head(ops).arg \in device.halted \/ ~Connected

(* An echo that was kept over a reset is the next that the case reads, and  *)
(* is not the payload that it then compares.                                *)
Kept ==
  "keeps" \in faults /\ "unplug" \notin faults =>
    /\ pc = "work" /\ Calls(ops, "in") /\ ~Calls(ops, "reset") /\ device.echo # <<>>
    /\ OutFirst(ops) \/ device.echo[1].ids # <<sent>>

Seen == {"metadata", "timeout", "corrupt", "descriptors"}

Noticed == Going => Seen \cap faults = {} /\ Heard /\ Cleared /\ Kept

IInv == Types /\ Phases /\ Counts /\ Draws /\ Underway /\ Noticed
-----------------------------------------------------------------------------
(* The calls of a unit.                                                     *)

LEMMA ProgramKnown ==
  ASSUME TypeOK
  PROVE  /\ args \in Runs /\ args.program \in {"matrix", "loopback", "fs"}
         /\ args.chunk \in Nat /\ args.total \in Nat /\ args.seconds \in Nat
         /\ progress.units \in Nat /\ progress.bytes \in Nat /\ progress.seconds \in Nat
         /\ Len(Cases) \in Nat /\ Window \in Nat
<1>1. args \in [program: {"matrix", "loopback", "fs"}, speed: {"hs", "fs"},
                forced: BOOLEAN, chunk: Nat, total: Nat, seconds: Nat]
  BY HilAssumption DEF TypeOK
<1>2. progress \in [units: Nat, bytes: Nat, seconds: Nat] /\ args \in Runs
  BY DEF TypeOK
<1>3. Len(Cases) \in Nat /\ Window \in Nat
  BY HilAssumption, LenProperties
<1>4. QED
  BY <1>1, <1>2, <1>3

LEMMA EchoSizeBounds ==
  ASSUME TypeOK, args.program = "fs" => progress.bytes <= args.total
  PROVE  EchoSize \in Nat /\ (args.program = "fs" => progress.bytes + EchoSize <= args.total)
BY ProgramKnown DEF EchoSize, Smaller

(* What is done next is shaped as the invariant needs it.                   *)
LEMMA UnitScripted ==
  ASSUME TypeOK, Counts, More
  PROVE  Scripted(UnitOps)
<1>1. CASE args.program = "matrix"
  <2>1. progress.units + 1 \in 1..Len(Cases)
    BY <1>1, ProgramKnown DEF More
  <2>2. Cases[progress.units + 1]
          \in [kind: {"fragment", "backpressure", "reset_idle", "reset_pending", "halt"}, arg: Nat]
    <3>1. Cases \in Seq([kind: {"fragment", "backpressure", "reset_idle", "reset_pending", "halt"},
                         arg: Nat])
      BY HilAssumption
    <3>2. QED
      BY <2>1, <3>1, ElementOfSeq
  <2>3. Cases[progress.units + 1].kind = "halt" => Cases[progress.units + 1].arg \in Endpoints
    BY <2>1, HilAssumption DEF Endpoints, EP_OUT, EP_IN
  <2>4. UnitOps = CaseOps(Cases[progress.units + 1])
    BY <1>1 DEF UnitOps
  <2>5. QED
    BY <2>2, <2>3, <2>4, CaseScripted
<1>2. CASE args.program # "matrix"
  <2>1. EchoSize \in Nat
    BY EchoSizeBounds DEF Counts
  <2>2. UnitOps = Echo(EchoSize)
    BY <1>2 DEF UnitOps
  <2>3. QED
    BY <2>1, <2>2, EchoPlain, PlainScripted
<1>3. QED
  BY <1>1, <1>2

(* What is done to open the device.                                         *)
LEMMA EnterScripted ==
  ASSUME NEW q,
         q = <<Op("open", 0)>> \o IF args.program = "fs" THEN <<Op("descriptors", 0)>> ELSE <<>>
  PROVE  /\ Scripted(q) /\ Head(q).op = "open" /\ ~Calls(q, "out")
         /\ ClearsChecked(q)
<1>1. PICK a \in Call, b \in Call : /\ a = Op("open", 0) /\ a.op = "open"
                                    /\ b = Op("descriptors", 0) /\ b.op = "descriptors"
  <2>1. /\ Op("open", 0) \in Call /\ Op("open", 0).op = "open"
        /\ Op("descriptors", 0) \in Call /\ Op("descriptors", 0).op = "descriptors"
    BY DEF Op, Call, CallName
  <2>2. QED
    BY <2>1
<1>2. /\ q \in Seq(Call) /\ q # <<>> /\ q[1] = a
      /\ \A i \in 1..Len(q) : q[i] = a \/ q[i] = b
  <2>1. CASE args.program = "fs"
    <3>0. PICK w : w = <<a>> \o <<b>>
      OBVIOUS
    <3>1. q = w
      BY <1>1, <2>1, <3>0
    <3>2. /\ <<a>> \in Seq(Call) /\ Len(<<a>>) = 1 /\ <<a>>[1] = a
          /\ <<b>> \in Seq(Call) /\ Len(<<b>>) = 1 /\ <<b>>[1] = b /\ <<b>> # <<>>
          /\ 1 \in 1..1 /\ 1 + 1 = 2
      OBVIOUS
    <3>3. w \in Seq(Call) /\ w # <<>> /\ Len(w) = 2 /\ w[1] = a /\ w[2] = b
      BY <3>0, <3>2, Joined
    <3>4. \A i \in 1..2 : i = 1 \/ i = 2
      OBVIOUS
    <3>5. QED
      BY <3>1, <3>3, <3>4
  <2>2. CASE args.program # "fs"
    <3>1. q = <<a>> \o <<>>
      BY <1>1, <2>2
    <3>2. <<a>> \o <<>> = <<a>>
      OBVIOUS
    <3>3. QED
      BY <3>1, <3>2
  <2>3. QED
    BY <2>1, <2>2
<1>3. Head(q) = a
  BY <1>2, CallMade
<1>4. \A i \in 1..Len(q) : q[i].op = "open" \/ q[i].op = "descriptors"
  BY <1>1, <1>2
<1>5. Shaped(q) /\ OutFirst(q) /\ ClearsChecked(q) /\ ~Calls(q, "out")
  BY <1>4 DEF Shaped, HaltChecked, ResetChecked, Reopened, OutFirst, ClearsChecked, Calls
<1>6. QED
  BY <1>1, <1>2, <1>3, <1>5 DEF Scripted
-----------------------------------------------------------------------------
(* How a step ends.                                                         *)

LEMMA Failing ==
  ASSUME NEW document \in Document, RaiseWith(document)
  PROVE  /\ pc' = "conclude" /\ ops' = <<>> /\ handle' = 0
         /\ evidence' \in Document /\ evidence'.status = "FAIL" /\ evidence'.run = document.run
         /\ evidence'.verdict = "NOT_QUALIFIED"
BY DEF RaiseWith, Document, Status, Verdict

(* An exception keeps the invariant, whatever the device did.               *)
LEMMA Failed ==
  ASSUME IInv, pc \in Working, NEW document \in Document, document.run = 1, RaiseWith(document),
         UNCHANGED <<args, progress, file>>, device' \in Device, sent' \in Nat,
         faults' \subseteq FaultKinds, Draws'
  PROVE  IInv'
<1>1. /\ pc' = "conclude" /\ ops' = <<>> /\ handle' = 0
      /\ evidence' \in Document /\ evidence'.status = "FAIL" /\ evidence'.run = 1
      /\ evidence'.verdict = "NOT_QUALIFIED"
  BY Failing
<1>2. ~Passed /\ ~Passed'
  BY DEF IInv, Phases, Passed
<1>3. ops' \in Seq(Call) /\ handle' \in Nat /\ device'.plug \in Nat
  BY <1>1 DEF Device
<1>4. args' \in Runs /\ progress' \in [units: Nat, bytes: Nat, seconds: Nat] /\ file' \in Document
  BY DEF IInv, Types, TypeOK
<1>5. device'.out \in Transfers /\ device'.echo \in Seq(Transfers)
      /\ device'.halted \subseteq Endpoints
  BY DEF Device
<1>6. Types'
  BY <1>1, <1>3, <1>4, <1>5 DEF Types, TypeOK
<1>7. pc' \notin Working /\ pc' # "start" /\ pc' # "create" /\ pc' # "work" /\ pc' # "unit_done"
      /\ pc' # "record" /\ pc' # "unit"
  BY <1>1 DEF Working
<1>8. Phases'
  BY <1>1, <1>2, <1>3, <1>7 DEF Phases
<1>9. Counts'
  BY <1>1, <1>2, <1>7 DEF IInv, Counts
<1>10. Underway' /\ Noticed'
  BY <1>1, <1>2, <1>7 DEF Underway, Noticed, Going
<1>11. QED
  BY <1>6, <1>8, <1>9, <1>10 DEF IInv

(* A call is made; `device.halted' and `handle' change as the calls do.     *)
LEMMA Made ==
  ASSUME IInv, pc = "work", Advance, UNCHANGED <<args, progress, file, evidence>>,
         device' \in Device, handle' \in Nat, handle' <= device'.plug,
         handle' = 0 => Head(ops).op = "reset",
         faults' \subseteq FaultKinds,
         sent' = IF Head(ops).op = "out" THEN sent + 1 ELSE sent,
         \/ device'.halted = {} \/ Head(ops).op = "set_halt"
         \/ device'.halted \subseteq device.halted /\ Head(ops).op # "reset",
         Head(ops).op = "status_clear" => Head(ops).arg \notin device'.halted,
         Draws', Noticed'
  PROVE  IInv'
<1>1. /\ ops \in Seq(Call) /\ ops # <<>> /\ ops' = Tail(ops) /\ sent \in Nat
      /\ pc' = IF Len(ops) = 1 THEN "unit_done" ELSE "work"
  BY DEF IInv, Types, TypeOK, Phases, Advance
<1>2. /\ Tail(ops) \in Seq(Call) /\ (Len(ops) # 1 => Tail(ops) # <<>>) /\ Head(ops) = ops[1]
      /\ 1 \in 1..Len(ops)
  BY <1>1, CallMade
<1>3. sent' \in Nat /\ (sent' # sent => Head(ops).op = "out") /\ (sent' = 0 => sent = 0)
      /\ (Head(ops).op = "out" => sent' # 0)
  BY <1>1
<1>4. Types'
  <2>1. args' \in Runs /\ progress' \in [units: Nat, bytes: Nat, seconds: Nat] /\ file' \in Document
        /\ evidence' \in Document /\ (evidence'.status = "PASS" <=> evidence'.verdict = "GRANTED")
    BY DEF IInv, Types, TypeOK
  <2>2. device'.out \in Transfers /\ device'.echo \in Seq(Transfers)
        /\ device'.halted \subseteq Endpoints
    BY DEF Device
  <2>3. QED
    BY <1>1, <1>2, <1>3, <2>1, <2>2 DEF Types, TypeOK
<1>5. Shaped(ops) /\ Settled /\ (sent = 0 => OutFirst(ops))
  BY DEF IInv, Underway
<1>6. /\ \A name : Calls(Tail(ops), name) => Calls(ops, name)
      /\ OutFirst(ops) /\ Head(ops).op # "out" => OutFirst(Tail(ops))
      /\ ClearsChecked(ops) => ClearsChecked(Tail(ops))
      /\ ClearsReset(ops) /\ Head(ops).op # "reset" => ClearsReset(Tail(ops))
      /\ Shaped(Tail(ops))
  BY <1>1, <1>5, CallsLeft
<1>7. /\ Head(ops).op = "reset" => Len(ops) # 1 /\ Head(Tail(ops)).op = "open"
      /\ Len(ops) # 1 /\ Head(Tail(ops)).op = "set_halt" =>
           Head(ops) = Op("status_clear", Head(Tail(ops)).arg)
  BY <1>1, <1>5, NextCall
<1>8. /\ evidence.run = 1 /\ evidence.status = "RUNNING" /\ ~Passed /\ Eligible
      /\ Passed' = Passed /\ Eligible' = Eligible /\ More' = More
  BY DEF IInv, Phases, Working, Passed, Eligible, More
<1>9. Phases'
  BY <1>1, <1>2, <1>7, <1>8 DEF Phases, Working
<1>10. Counts'
  <2>1. Calls(ops, Head(ops).op)
    BY <1>2 DEF Calls
  <2>2. sent' > 0 => More
    BY <1>1, <1>3, <2>1 DEF IInv, Counts
  <2>3. Calls(ops', "out") => More
    BY <1>1, <1>6 DEF IInv, Counts
  <2>4. QED
    BY <1>8, <2>2, <2>3 DEF IInv, Counts
<1>11. Underway'
  <2> SUFFICES ASSUME Len(ops) # 1
               PROVE  /\ Shaped(ops') /\ Settled'
                      /\ sent' = 0 => OutFirst(ops')
                      /\ Head(ops').op = "set_halt" => Head(ops').arg \notin device'.halted
    BY <1>1 DEF Underway
  <2>1. Settled'
    <3>1. CASE device'.halted = {}
      BY <3>1 DEF Settled
    <3>2. CASE Head(ops).op = "set_halt"
      <4>1. ClearsChecked(ops)
        BY <1>2, <1>5, <3>2 DEF Shaped, Calls
      <4>2. QED
        BY <1>1, <1>6, <4>1 DEF Settled
    <3>3. CASE device'.halted \subseteq device.halted /\ Head(ops).op # "reset"
      BY <1>1, <1>5, <1>6, <3>3 DEF Settled
    <3>4. QED
      BY <3>1, <3>2, <3>3
  <2>2. sent' = 0 => OutFirst(ops')
    BY <1>1, <1>3, <1>5, <1>6
  <2>3. Head(ops').op = "set_halt" => Head(ops').arg \notin device'.halted
    <3> SUFFICES ASSUME Head(Tail(ops)).op = "set_halt"
                 PROVE  Head(Tail(ops)).arg \notin device'.halted
      BY <1>1
    <3>1. Head(ops).op = "status_clear" /\ Head(ops).arg = Head(Tail(ops)).arg
      <4>1. PICK x : x = Head(Tail(ops)).arg
        OBVIOUS
      <4>2. Head(ops) = Op("status_clear", x)
        BY <1>7, <4>1
      <4>3. Op("status_clear", x).op = "status_clear" /\ Op("status_clear", x).arg = x
        BY DEF Op
      <4>4. QED
        BY <4>1, <4>2, <4>3
    <3>2. QED
      BY <3>1
  <2>4. QED
    BY <1>1, <1>6, <2>1, <2>2, <2>3
<1>12. QED
  BY <1>4, <1>9, <1>10, <1>11 DEF IInv
-----------------------------------------------------------------------------
(* What the device did wrong, and the checks of it.                         *)

LEMMA RunsOn ==
  ASSUME IInv, pc \in Working
  PROVE  /\ evidence \in Document /\ evidence.run = 1 /\ evidence.status = "RUNNING" /\ ~Passed
         /\ Seen \cap faults = {} /\ Heard /\ Cleared /\ Kept
         /\ sent \in Nat /\ handle \in Nat /\ handle <= device.plug /\ device \in Device
         /\ faults \subseteq FaultKinds /\ Draws /\ args \in Runs
BY DEF IInv, Types, TypeOK, Phases, Noticed, Going

LEMMA WorksOn ==
  ASSUME IInv, pc = "work"
  PROVE  /\ pc \in Working /\ ops \in Seq(Call) /\ ops # <<>> /\ Head(ops) \in Call
         /\ Head(ops) = ops[1] /\ 1 \in 1..Len(ops)
         /\ Shaped(ops) /\ Settled /\ (sent = 0 => OutFirst(ops))
         /\ Head(ops).op = "set_halt" => Head(ops).arg \notin device.halted
         /\ handle = 0 => Head(ops).op = "open"
<1>1. ops \in Seq(Call) /\ ops # <<>> /\ (handle = 0 => Head(ops).op = "open")
  BY DEF IInv, Types, TypeOK, Phases
<1>2. Head(ops) \in Call /\ Head(ops) = ops[1] /\ 1 \in 1..Len(ops)
  BY <1>1, CallMade
<1>3. QED
  BY <1>1, <1>2 DEF IInv, Underway, Working

(* A check that succeeds shows that nothing is overlooked.                  *)
LEMMA Checked ==
  ASSUME IInv, pc = "work",
         Head(ops).op = "status_set" => Head(ops).arg \in device.halted,
         Head(ops).op = "status_clear" => Head(ops).arg \notin device.halted /\ Connected
  PROVE  "deaf" \notin faults /\ "stuck" \notin faults /\ Seen \cap faults = {}
BY WorksOn, RunsOn DEF Heard, Cleared

(* An echo that was kept is not read as the payload, and until it is read   *)
(* the case is not over.                                                    *)
LEMMA KeptOn ==
  ASSUME IInv, pc = "work", Advance,
         sent' = IF Head(ops).op = "out" THEN sent + 1 ELSE sent,
         "keeps" \in faults' /\ "unplug" \notin faults' =>
           /\ "keeps" \in faults /\ "unplug" \notin faults /\ Head(ops).op # "in"
           /\ Head(ops).op # "reset" => device'.echo # <<>> /\ device'.echo[1] = device.echo[1]
  PROVE  Kept'
<1> SUFFICES ASSUME "keeps" \in faults', "unplug" \notin faults'
             PROVE  /\ pc' = "work" /\ Calls(ops', "in") /\ ~Calls(ops', "reset")
                    /\ device'.echo # <<>>
                    /\ OutFirst(ops') \/ device'.echo[1].ids # <<sent'>>
  BY DEF Kept
<1>1. /\ Calls(ops, "in") /\ ~Calls(ops, "reset") /\ device.echo # <<>>
      /\ OutFirst(ops) \/ device.echo[1].ids # <<sent>>
  BY WorksOn, RunsOn DEF Kept
<1>2. /\ ops \in Seq(Call) /\ ops # <<>> /\ Head(ops) = ops[1] /\ 1 \in 1..Len(ops)
      /\ sent \in Nat /\ device \in Device /\ Draws
  BY WorksOn, RunsOn
<1>3. Head(ops).op # "reset"
  BY <1>1, <1>2 DEF Calls
<1>4. /\ ops' = Tail(ops) /\ Calls(Tail(ops), "in") /\ ~Calls(Tail(ops), "reset")
      /\ OutFirst(ops) /\ Head(ops).op # "out" => OutFirst(Tail(ops))
  BY <1>1, <1>2, CallsLeft DEF Advance
<1>5. Len(ops) # 1
  <2> SUFFICES ASSUME Len(ops) = 1 PROVE FALSE
    OBVIOUS
  <2>1. Len(Tail(ops)) = 0
    BY <1>2, CallMade
  <2>2. \E i \in 1..0 : Tail(ops)[i].op = "in"
    BY <1>4, <2>1 DEF Calls
  <2>3. QED
    BY <2>2
<1>6. device'.echo # <<>> /\ device'.echo[1] = device.echo[1]
  BY <1>3
<1>7. OutFirst(ops') \/ device'.echo[1].ids # <<sent'>>
  <2>1. CASE Head(ops).op # "out"
    BY <1>1, <1>4, <1>6, <2>1
  <2>2. CASE Head(ops).op = "out"
    <3>1. device.echo \in Seq(Transfers) /\ Len(device.echo) \in Nat \ {0}
      BY <1>1, <1>2, EmptySeq, LenProperties DEF Device
    <3>2. PICK ids \in Seq(Nat) : ids = device.echo[1].ids
      <4>1. device.echo[1] \in Transfers
        BY <3>1, ElementOfSeq
      <4>2. QED
        BY <4>1 DEF Transfers
    <3>3. Len(ids) = 1 => ids[1] <= sent
      BY <1>2, <3>1, <3>2 DEF Draws, Drawn
    <3>4. ASSUME ids = <<sent + 1>> PROVE FALSE
      <4>1. Len(ids) = 1 /\ ids[1] = sent + 1
        BY <3>4
      <4>2. QED
        BY <1>2, <3>3, <4>1
    <3>5. QED
      BY <1>6, <2>2, <3>2, <3>4
  <2>3. QED
    BY <2>1, <2>2
<1>8. QED
  BY <1>4, <1>5, <1>6, <1>7 DEF Advance

(* A call that ends well and in which nothing goes wrong.                   *)
LEMMA MadeWell ==
  ASSUME IInv, pc = "work", Advance, NoFault, UNCHANGED <<args, progress, file, evidence>>,
         device' \in Device, handle' \in Nat, handle' <= device'.plug,
         handle' = 0 => Head(ops).op = "reset",
         sent' = IF Head(ops).op = "out" THEN sent + 1 ELSE sent,
         \/ device'.halted = {} \/ Head(ops).op = "set_halt"
         \/ device'.halted \subseteq device.halted /\ Head(ops).op # "reset",
         Head(ops).op = "status_set" => Head(ops).arg \in device.halted,
         Head(ops).op = "status_clear" =>
           Head(ops).arg \notin device.halted \cup device'.halted /\ Connected,
         "keeps" \in faults /\ "unplug" \notin faults =>
           /\ Head(ops).op # "in"
           /\ Head(ops).op # "reset" => device'.echo # <<>> /\ device'.echo[1] = device.echo[1],
         Draws'
  PROVE  IInv'
<1>1. faults' = faults
  BY DEF NoFault
<1>2. "deaf" \notin faults /\ "stuck" \notin faults /\ Seen \cap faults = {}
  BY Checked
<1>3. Kept'
  BY <1>1, KeptOn
<1>4. Noticed'
  BY <1>1, <1>2, <1>3 DEF Noticed, Heard, Cleared
<1>5. faults' \subseteq FaultKinds
  BY <1>1, WorksOn, RunsOn
<1>6. QED
  BY <1>4, <1>5, Made
-----------------------------------------------------------------------------
(* The device.                                                              *)

LEMMA NoTransferTyped == NoTransfer \in Transfers /\ \A n \in Nat : Drawn(NoTransfer, n)
<1>1. <<>> \in Seq(Nat) /\ Len(<<>>) = 0 /\ 0 \in Nat
  OBVIOUS
<1>2. NoTransfer \in [ids: Seq(Nat), size: Nat] /\ NoTransfer.ids = <<>>
  BY <1>1 DEF NoTransfer
<1>3. QED
  BY <1>1, <1>2 DEF Transfers, Drawn

LEMMA DeviceFields ==
  ASSUME NEW d \in Device
  PROVE  /\ d.present \in BOOLEAN /\ d.plug \in Nat \ {0} /\ d.plug \in Nat /\ d.out \in Transfers
         /\ d.echo \in Seq(Transfers) /\ d.halted \in SUBSET Endpoints
BY DEF Device

LEMMA DeviceMoves ==
  ASSUME NEW d \in Device, NEW o \in Transfers, NEW e \in Seq(Transfers), NEW n,
         n = [d EXCEPT !.out = o, !.echo = e]
  PROVE  n \in Device /\ n.plug = d.plug /\ n.halted = d.halted /\ n.out = o /\ n.echo = e
BY DEF Device

(* One echo more, or one less.                                              *)
LEMMA EchoAppended ==
  ASSUME NEW e \in Seq(Transfers), NEW t \in Transfers
  PROVE  /\ Append(e, t) \in Seq(Transfers) /\ Append(e, t) # <<>>
         /\ e # <<>> => Append(e, t)[1] = e[1]
         /\ \A i \in 1..Len(Append(e, t)) :
              Append(e, t)[i] = t \/ \E j \in 1..Len(e) : Append(e, t)[i] = e[j]
<1>1. PICK l \in Nat : l = Len(e)
  BY LenProperties
<1>2. PICK r : r = Append(e, t)
  OBVIOUS
<1>3. /\ r \in Seq(Transfers) /\ Len(r) = l + 1 /\ r[l + 1] = t
      /\ \A i \in 1..l : r[i] = e[i]
  BY <1>1, <1>2, AppendProperties
<1>4. \A i \in 1..l + 1 : i = l + 1 \/ i \in 1..l
  BY <1>1
<1>5. r # <<>>
  <2>1. l + 1 # 0
    BY <1>1
  <2>2. QED
    BY <1>3, <2>1, EmptySeq
<1>6. e # <<>> => 1 \in 1..l
  BY <1>1, EmptySeq
<1>7. QED
  BY <1>1, <1>2, <1>3, <1>4, <1>5, <1>6

LEMMA EchoTaken ==
  ASSUME NEW e \in Seq(Transfers), e # <<>>
  PROVE  /\ Head(e) = e[1] /\ Head(e) \in Transfers /\ Tail(e) \in Seq(Transfers)
         /\ \A i \in 1..Len(Tail(e)) : \E j \in 1..Len(e) : Tail(e)[i] = e[j]
<1>1. PICK l \in Nat : l = Len(e) - 1 /\ Len(e) = l + 1
  <2>1. Len(e) \in Nat /\ Len(e) # 0
    BY LenProperties, EmptySeq
  <2>2. QED
    BY <2>1
<1>2. PICK r : r = Tail(e)
  OBVIOUS
<1>3. /\ Head(e) = e[1] /\ Head(e) \in Transfers /\ r \in Seq(Transfers) /\ Len(r) = l
      /\ \A i \in 1..l : r[i] = e[i + 1]
  BY <1>1, <1>2, HeadTailProperties, ElementOfSeq
<1>4. \A i \in 1..l : i + 1 \in 1..l + 1
  BY <1>1
<1>5. QED
  BY <1>1, <1>2, <1>3, <1>4

LEMMA DrawsOn ==
  ASSUME device \in Device, device' \in Device, Draws, sent \in Nat, sent' \in Nat, sent <= sent',
         device'.out = device.out \/ Drawn(device'.out, sent'),
         \A i \in 1..Len(device'.echo) :
           \/ Drawn(device'.echo[i], sent')
           \/ \E j \in 1..Len(device.echo) : device'.echo[i] = device.echo[j]
  PROVE  Draws'
<1>1. ASSUME NEW t \in Transfers, Drawn(t, sent) PROVE Drawn(t, sent')
  <2>1. PICK ids \in Seq(Nat) : ids = t.ids
    BY DEF Transfers
  <2>2. Len(ids) = 1 => ids[1] \in Nat
    BY ElementOfSeq
  <2>3. Len(ids) = 1 => ids[1] <= sent
    BY <1>1, <2>1 DEF Drawn
  <2>4. Len(ids) = 1 => ids[1] <= sent'
    BY <2>2, <2>3
  <2>5. QED
    BY <2>1, <2>4 DEF Drawn
<1>2. device.out \in Transfers /\ device.echo \in Seq(Transfers)
  BY DeviceFields
<1>3. Drawn(device'.out, sent')
  BY <1>1, <1>2 DEF Draws
<1>4. \A j \in 1..Len(device.echo) : Drawn(device.echo[j], sent')
  <2> TAKE j \in 1..Len(device.echo)
  <2>1. device.echo[j] \in Transfers
    BY <1>2, ElementOfSeq
  <2>2. QED
    BY <1>1, <2>1 DEF Draws
<1>5. \A i \in 1..Len(device'.echo) : Drawn(device'.echo[i], sent')
  BY <1>4
<1>6. QED
  BY <1>3, <1>5 DEF Draws

LEMMA DrawsSame ==
  ASSUME Draws, device'.out = device.out, device'.echo = device.echo, UNCHANGED sent
  PROVE  Draws'
BY DEF Draws

LEMMA FaultTyped ==
  ASSUME faults \subseteq FaultKinds, NEW kind, Fault(kind)
  PROVE  faults' \subseteq FaultKinds /\ faults' = faults \cup {kind} /\ kind \in FaultKinds
BY DEF Fault

LEMMA Fails ==
  ASSUME IInv, pc \in Working, Raise, UNCHANGED session, device' \in Device, sent' \in Nat,
         faults' \subseteq FaultKinds, Draws'
  PROVE  IInv'
<1>1. evidence \in Document /\ evidence.run = 1
  BY RunsOn
<1>2. RaiseWith(evidence) /\ UNCHANGED <<args, progress, file>>
  BY DEF Raise, session
<1>3. QED
  BY <1>1, <1>2, Failed
-----------------------------------------------------------------------------
(* The transfers.                                                           *)

LEMMA TransferOutStep ==
  ASSUME IInv, TransferOut
  PROVE  IInv'
<1>1. PICK size, transfer :
        /\ size \in Nat /\ size = Head(ops).arg
        /\ transfer = [ids |-> Append(device.out.ids, sent + 1), size |-> device.out.size + size]
  BY WorksOn DEF TransferOut, Doing, Call
<1>2. /\ pc = "work" /\ pc \in Working /\ Head(ops).op = "out" /\ sent' = sent + 1
      /\ UNCHANGED session
      /\ \/ Accepts /\ device' = Received(transfer, size) /\ Advance /\ NoFault
              /\ UNCHANGED <<handle, evidence>>
         \/ ~Accepts /\ Raise /\ NoFault /\ UNCHANGED device
         \/ Accepts /\ TimesOut /\ device' \in {device, Received(transfer, size)}
  BY <1>1 DEF TransferOut, Doing, Working
<1>3. /\ sent \in Nat /\ device \in Device /\ Draws /\ faults \subseteq FaultKinds
      /\ handle \in Nat /\ handle <= device.plug /\ sent' \in Nat /\ sent <= sent'
  BY <1>2, RunsOn
<1>4. transfer \in Transfers /\ Drawn(transfer, sent')
  <2>1. PICK ids \in Seq(Nat) : ids = device.out.ids
    BY <1>3, DeviceFields DEF Transfers
  <2>2. PICK new : new = Append(ids, sent + 1)
    OBVIOUS
  <2>3. PICK l \in Nat : l = Len(ids)
    BY LenProperties
  <2>4. new \in Seq(Nat) /\ Len(new) = l + 1 /\ new[l + 1] = sent + 1
    BY <1>3, <2>2, <2>3, AppendProperties
  <2>5. Len(new) = 1 => new[1] = sent + 1
    <3> SUFFICES ASSUME Len(new) = 1 PROVE new[1] = sent + 1
      OBVIOUS
    <3>1. l + 1 = 1
      BY <2>4
    <3>2. QED
      BY <2>4, <3>1
  <2>6. Len(new) = 1 => new[1] <= sent'
    <3>1. sent + 1 <= sent'
      BY <1>2, <1>3
    <3>2. QED
      BY <2>5, <3>1
  <2>7. device.out.size + size \in Nat
    <3>1. device.out \in Transfers
      BY <1>3, DeviceFields
    <3>2. device.out.size \in Nat
      BY <3>1 DEF Transfers
    <3>3. size \in Nat
      BY <1>1
    <3>4. QED
      BY <3>2, <3>3
  <2>8. transfer = [ids |-> new, size |-> device.out.size + size]
    BY <1>1, <2>1, <2>2
  <2>9. QED
    BY <2>4, <2>6, <2>7, <2>8 DEF Transfers, Drawn
<1>5. PICK received : received = Received(transfer, size)
  OBVIOUS
<1>6. /\ received \in Device /\ received.plug = device.plug /\ received.halted = device.halted
      /\ \/ /\ received.out = NoTransfer /\ received.echo = Append(device.echo, transfer)
         \/ received.out = transfer /\ received.echo = device.echo
  <2>1. PICK longer : longer = Append(device.echo, transfer)
    OBVIOUS
  <2>2. longer \in Seq(Transfers) /\ device.echo \in Seq(Transfers) /\ NoTransfer \in Transfers
    BY <1>3, <1>4, <2>1, DeviceFields, EchoAppended, NoTransferTyped
  <2>3. PICK d \in Device : d = device
    BY <1>3
  <2>4. PICK none \in Transfers : none = NoTransfer
    BY <2>2
  <2>5. \/ received = [d EXCEPT !.out = none, !.echo = longer]
        \/ received = [d EXCEPT !.out = transfer]
    BY <1>5, <2>1, <2>3, <2>4 DEF Received, Device
  <2>6. CASE received = [d EXCEPT !.out = none, !.echo = longer]
    <3>1. received \in Device /\ received.plug = d.plug /\ received.halted = d.halted
          /\ received.out = none /\ received.echo = longer
      BY <2>2, <2>6 DEF Device
    <3>2. QED
      BY <2>1, <2>3, <2>4, <3>1
  <2>7. CASE received = [d EXCEPT !.out = transfer]
    <3>1. received \in Device /\ received.plug = d.plug /\ received.halted = d.halted
          /\ received.out = transfer /\ received.echo = d.echo
      BY <1>4, <2>7 DEF Device
    <3>2. QED
      BY <2>3, <3>1
  <2>8. QED
    BY <2>5, <2>6, <2>7
<1>7. /\ \A i \in 1..Len(received.echo) :
           \/ Drawn(received.echo[i], sent')
           \/ \E j \in 1..Len(device.echo) : received.echo[i] = device.echo[j]
      /\ Drawn(received.out, sent')  \/ received.out = device.out
      /\ device.echo # <<>> => received.echo # <<>> /\ received.echo[1] = device.echo[1]
  <2>1. device.echo \in Seq(Transfers)
    BY <1>3, DeviceFields
  <2>2. CASE received.out = NoTransfer /\ received.echo = Append(device.echo, transfer)
    BY <1>3, <1>4, <2>1, <2>2, EchoAppended, NoTransferTyped
  <2>3. CASE received.out = transfer /\ received.echo = device.echo
    BY <1>4, <2>3
  <2>4. QED
    BY <1>6, <2>2, <2>3
<1>8. device' \in {device, received}
  BY <1>2, <1>5
<1>9. device' \in Device /\ Draws'
  <2>1. device' \in Device
    BY <1>3, <1>6, <1>8
  <2>2. device'.out = device.out \/ Drawn(device'.out, sent')
    BY <1>7, <1>8
  <2>3. \A i \in 1..Len(device'.echo) :
           \/ Drawn(device'.echo[i], sent')
           \/ \E j \in 1..Len(device.echo) : device'.echo[i] = device.echo[j]
    BY <1>7, <1>8
  <2>4. QED
    BY <1>3, <2>1, <2>2, <2>3, DrawsOn
<1>10. CASE Accepts /\ device' = received /\ Advance /\ NoFault /\ UNCHANGED <<handle, evidence>>
  <2>1. handle' \in Nat /\ handle' <= device'.plug /\ handle' # 0
    <3>1. handle' = handle /\ device'.plug = device.plug /\ handle = device.plug
      BY <1>6, <1>10 DEF Accepts, Connected
    <3>2. QED
      BY <1>3, <3>1, DeviceFields
  <2>2. device'.halted \subseteq device.halted
    BY <1>6, <1>10
  <2>3. device.echo # <<>> => device'.echo # <<>> /\ device'.echo[1] = device.echo[1]
    BY <1>7, <1>10
  <2>4. device.echo # <<>> \/ ~("keeps" \in faults /\ "unplug" \notin faults)
    BY <1>2, RunsOn DEF Kept
  <2>5. UNCHANGED <<args, progress, file, evidence>>
    BY <1>2, <1>10 DEF session
  <2>6. QED
    BY <1>2, <1>9, <1>10, <2>1, <2>2, <2>3, <2>4, <2>5, MadeWell
<1>11. CASE Raise /\ NoFault
  BY <1>2, <1>3, <1>9, <1>11, Fails DEF NoFault
<1>12. CASE TimesOut
  BY <1>2, <1>3, <1>9, <1>12, Fails, FaultTyped DEF TimesOut
<1>13. QED
  BY <1>2, <1>5, <1>10, <1>11, <1>12

LEMMA TerminateOutStep ==
  ASSUME IInv, TerminateOut
  PROVE  IInv'
<1>1. /\ pc = "work" /\ pc \in Working /\ Head(ops).op = "zlp" /\ sent' = sent
      /\ UNCHANGED session
      /\ \/ Accepts /\ Advance /\ NoFault /\ UNCHANGED <<handle, evidence>>
              /\ device' = IF device.out.size > 0
                           THEN [device EXCEPT !.out = NoTransfer, !.echo = Append(@, device.out)]
                           ELSE device
         \/ ~Accepts /\ Raise /\ NoFault /\ UNCHANGED device
         \/ Accepts /\ TimesOut /\ UNCHANGED device
  BY DEF TerminateOut, Doing, Working
<1>2. /\ sent \in Nat /\ device \in Device /\ Draws /\ faults \subseteq FaultKinds
      /\ handle \in Nat /\ handle <= device.plug /\ sent' \in Nat /\ sent <= sent'
  BY <1>1, RunsOn
<1>3. CASE UNCHANGED device /\ Raise /\ faults' \subseteq FaultKinds
  <2>1. device' \in Device /\ Draws'
    BY <1>1, <1>2, <1>3, DrawsSame
  <2>2. QED
    BY <1>1, <1>2, <1>3, <2>1, Fails
<1>4. CASE /\ Accepts /\ Advance /\ NoFault /\ UNCHANGED <<handle, evidence>>
           /\ device' = IF device.out.size > 0
                        THEN [device EXCEPT !.out = NoTransfer, !.echo = Append(@, device.out)]
                        ELSE device
  <2>1. PICK longer : longer = Append(device.echo, device.out)
    OBVIOUS
  <2>2. device.echo \in Seq(Transfers) /\ device.out \in Transfers /\ NoTransfer \in Transfers
    BY <1>2, DeviceFields, NoTransferTyped
  <2>3. PICK d \in Device : d = device
    BY <1>2
  <2>4. PICK none \in Transfers : none = NoTransfer
    BY <2>2
  <2>5. PICK received : received = device'
    OBVIOUS
  <2>6. received = [d EXCEPT !.out = none, !.echo = longer] \/ received = d
    BY <1>4, <2>1, <2>3, <2>4, <2>5 DEF Device
  <2>7. longer \in Seq(Transfers)
    BY <2>1, <2>2, EchoAppended
  <2>8. received \in Device /\ received.plug = d.plug /\ received.halted = d.halted
        /\ \/ received.out = none /\ received.echo = longer
           \/ received.out = d.out /\ received.echo = d.echo
    BY <2>6, <2>7 DEF Device
  <2>9. /\ \A i \in 1..Len(received.echo) :
             \/ Drawn(received.echo[i], sent')
             \/ \E j \in 1..Len(device.echo) : received.echo[i] = device.echo[j]
        /\ Drawn(received.out, sent')  \/ received.out = device.out
        /\ device.echo # <<>> => received.echo # <<>> /\ received.echo[1] = device.echo[1]
    <3>1. CASE received.out = none /\ received.echo = longer
      <4>1. Drawn(device.out, sent')
        BY <1>1, <1>2 DEF Draws
      <4>2. Drawn(none, sent')
        BY <1>2, <2>4, NoTransferTyped
      <4>3. QED
        BY <2>1, <2>2, <3>1, <4>1, <4>2, EchoAppended
    <3>2. CASE received.out = d.out /\ received.echo = d.echo
      BY <2>3, <3>2
    <3>3. QED
      BY <2>8, <3>1, <3>2
  <2>10. device' \in Device /\ Draws'
    <3>1. device' \in Device
      BY <2>5, <2>8
    <3>2. device'.out = device.out \/ Drawn(device'.out, sent')
      BY <2>5, <2>9
    <3>3. \A i \in 1..Len(device'.echo) :
             \/ Drawn(device'.echo[i], sent')
             \/ \E j \in 1..Len(device.echo) : device'.echo[i] = device.echo[j]
      BY <2>5, <2>9
    <3>4. QED
      BY <1>2, <3>1, <3>2, <3>3, DrawsOn
  <2>11. handle' \in Nat /\ handle' <= device'.plug /\ handle' # 0
    <3>1. handle' = handle /\ device'.plug = device.plug /\ handle = device.plug
      BY <1>4, <2>3, <2>5, <2>8 DEF Accepts, Connected
    <3>2. QED
      BY <1>2, <3>1, DeviceFields
  <2>12. device'.halted \subseteq device.halted
    BY <2>3, <2>5, <2>8
  <2>13. device.echo # <<>> => device'.echo # <<>> /\ device'.echo[1] = device.echo[1]
    BY <2>5, <2>9
  <2>14. device.echo # <<>> \/ ~("keeps" \in faults /\ "unplug" \notin faults)
    BY <1>1, RunsOn DEF Kept
  <2>15. UNCHANGED <<args, progress, file, evidence>>
    BY <1>1, <1>4 DEF session
  <2>16. QED
    BY <1>1, <1>4, <2>10, <2>11, <2>12, <2>13, <2>14, <2>15, MadeWell
<1>5. QED
  BY <1>1, <1>2, <1>3, <1>4, FaultTyped DEF NoFault, TimesOut

(* What is read is the payload that was written, or the run fails.          *)
LEMMA TransferInStep ==
  ASSUME IInv, TransferIn
  PROVE  IInv'
<1>1. PICK size, sends, shorter :
        /\ size \in Nat /\ sends \in BOOLEAN
        /\ size = Head(ops).arg /\ shorter = [device EXCEPT !.echo = Tail(@)]
        /\ sends <=> Connected /\ EP_IN \notin device.halted /\ device.echo # <<>>
  <2>1. Head(ops).arg \in Nat
    BY WorksOn DEF TransferIn, Doing, Call
  <2>2. QED
    BY <2>1
<1>2. /\ pc = "work" /\ pc \in Working /\ Head(ops).op = "in" /\ sent' = sent
      /\ UNCHANGED session
      /\ \/ /\ sends /\ device' = shorter
            /\ \E got \in {Head(device.echo), [Head(device.echo) EXCEPT !.ids = <<0>>]} :
                 /\ IF got = Head(device.echo) THEN NoFault ELSE Fault("corrupt")
                 /\ IF Matches(got, size)
                    THEN Advance /\ UNCHANGED <<handle, evidence>>
                    ELSE Raise
         \/ ~sends /\ Raise /\ NoFault /\ UNCHANGED device
         \/ sends /\ TimesOut /\ UNCHANGED device
  BY <1>1 DEF TransferIn, Doing, Working
<1>3. /\ sent \in Nat /\ device \in Device /\ Draws /\ faults \subseteq FaultKinds
      /\ handle \in Nat /\ handle <= device.plug /\ sent' \in Nat /\ sent <= sent'
  BY <1>2, RunsOn
<1>4. CASE UNCHANGED device /\ Raise /\ faults' \subseteq FaultKinds
  <2>1. device' \in Device /\ Draws'
    BY <1>2, <1>3, <1>4, DrawsSame
  <2>2. QED
    BY <1>2, <1>3, <1>4, <2>1, Fails
<1>5. CASE /\ sends /\ device' = shorter
           /\ \E got \in {Head(device.echo), [Head(device.echo) EXCEPT !.ids = <<0>>]} :
                /\ IF got = Head(device.echo) THEN NoFault ELSE Fault("corrupt")
                /\ IF Matches(got, size)
                   THEN Advance /\ UNCHANGED <<handle, evidence>>
                   ELSE Raise
  <2>1. PICK got \in {Head(device.echo), [Head(device.echo) EXCEPT !.ids = <<0>>]} :
          /\ IF got = Head(device.echo) THEN NoFault ELSE Fault("corrupt")
          /\ IF Matches(got, size) THEN Advance /\ UNCHANGED <<handle, evidence>> ELSE Raise
    BY <1>5
  <2>2. Connected /\ device.echo # <<>>
    BY <1>1, <1>5
  <2>3. device.echo \in Seq(Transfers)
    BY <1>3, DeviceFields
  <2>4. PICK d \in Device, tail \in Seq(Transfers) : d = device /\ tail = Tail(device.echo)
    BY <1>3, <2>2, <2>3, EchoTaken
  <2>5. PICK received : received = device'
    OBVIOUS
  <2>6. received = [d EXCEPT !.echo = tail]
    BY <1>1, <1>5, <2>4, <2>5
  <2>7. /\ received \in Device /\ received.plug = d.plug /\ received.halted = d.halted
        /\ received.out = d.out /\ received.echo = tail
    BY <2>6 DEF Device
  <2>8. device' \in Device /\ Draws'
    <3>1. device' \in Device
      BY <2>5, <2>7
    <3>2. device'.out = device.out
      BY <2>4, <2>5, <2>7
    <3>3. \A i \in 1..Len(device'.echo) :
            \E j \in 1..Len(device.echo) : device'.echo[i] = device.echo[j]
      BY <2>2, <2>3, <2>4, <2>5, <2>7, EchoTaken
    <3>4. QED
      BY <1>3, <3>1, <3>2, <3>3, DrawsOn
  <2>9. faults' \subseteq FaultKinds
    BY <1>3, <2>1, FaultTyped DEF NoFault
  <2>10. CASE ~Matches(got, size)
    BY <1>2, <1>3, <2>1, <2>8, <2>9, <2>10, Fails
  <2>11. CASE Matches(got, size)
    <3>1. OutFirst(ops) => FALSE
      BY <1>2, WorksOn, CallsLeft
    <3>2. got.ids = <<sent>> /\ sent # 0
      BY <1>2, <2>11, <3>1, WorksOn DEF Matches
    <3>3. got = Head(device.echo)
      <4>1. got = [Head(device.echo) EXCEPT !.ids = <<0>>] => FALSE
        <5>1. PICK t \in Transfers : t = Head(device.echo)
          BY <2>2, <2>3, EchoTaken
        <5>2. [t EXCEPT !.ids = <<0>>].ids = <<0>>
          BY DEF Transfers
        <5>3. QED
          BY <3>2, <5>1, <5>2
      <4>2. QED
        BY <2>1, <4>1
    <3>4. NoFault /\ Advance /\ UNCHANGED <<handle, evidence>>
      BY <2>1, <2>11, <3>3
    <3>5. ~("keeps" \in faults /\ "unplug" \notin faults)
      <4>1. Head(device.echo) = device.echo[1]
        BY <2>2, <2>3, EchoTaken
      <4>2. QED
        BY <1>2, <3>1, <3>2, <3>3, <4>1, RunsOn DEF Kept
    <3>6. handle' \in Nat /\ handle' <= device'.plug /\ handle' # 0
      <4>1. handle' = handle /\ device'.plug = device.plug /\ handle = device.plug
        BY <2>2, <2>4, <2>5, <2>7, <3>4 DEF Connected
      <4>2. QED
        BY <1>3, <4>1, DeviceFields
    <3>7. device'.halted \subseteq device.halted
      BY <2>4, <2>5, <2>7
    <3>8. UNCHANGED <<args, progress, file, evidence>>
      BY <1>2, <3>4 DEF session
    <3>9. QED
      BY <1>2, <2>8, <3>4, <3>5, <3>6, <3>7, <3>8, MadeWell
  <2>12. QED
    BY <2>10, <2>11
<1>6. QED
  BY <1>2, <1>3, <1>4, <1>5, FaultTyped DEF NoFault, TimesOut
-----------------------------------------------------------------------------
(* The other calls.                                                         *)

(* The device is gone for now, with nothing but what it keeps.              *)
LEMMA DeviceLeaves ==
  ASSUME NEW d \in Device, NEW r,
         r \in {[d EXCEPT !.present = FALSE, !.out = NoTransfer, !.echo = <<>>, !.halted = {}],
                [d EXCEPT !.present = FALSE, !.out = NoTransfer, !.halted = {}]}
  PROVE  /\ r \in Device /\ r.plug = d.plug /\ r.halted = {} /\ r.out = NoTransfer
         /\ r.present = FALSE
         /\ r.echo = <<>> \/ r.echo = d.echo
<1>1. PICK none \in Transfers : none = NoTransfer
  BY NoTransferTyped
<1>2. PICK empty \in Seq(Transfers) : empty = <<>>
  <2>1. <<>> \in Seq(Transfers)
    OBVIOUS
  <2>2. QED
    BY <2>1
<1>3. FALSE \in BOOLEAN /\ {} \in SUBSET Endpoints
  OBVIOUS
<1>4. \/ r = [d EXCEPT !.present = FALSE, !.out = none, !.echo = empty, !.halted = {}]
      \/ r = [d EXCEPT !.present = FALSE, !.out = none, !.halted = {}]
  BY <1>1, <1>2
<1>5. CASE r = [d EXCEPT !.present = FALSE, !.out = none, !.echo = empty, !.halted = {}]
  <2>1. /\ r \in Device /\ r.plug = d.plug /\ r.halted = {} /\ r.out = none
        /\ r.present = FALSE /\ r.echo = empty
    BY <1>3, <1>5 DEF Device
  <2>2. QED
    BY <1>1, <1>2, <2>1
<1>6. CASE r = [d EXCEPT !.present = FALSE, !.out = none, !.halted = {}]
  <2>1. /\ r \in Device /\ r.plug = d.plug /\ r.halted = {} /\ r.out = none
        /\ r.present = FALSE /\ r.echo = d.echo
    BY <1>3, <1>6 DEF Device
  <2>2. QED
    BY <1>1, <2>1
<1>7. QED
  BY <1>4, <1>5, <1>6

LEMMA DrawsEmptied ==
  ASSUME Draws, sent \in Nat, UNCHANGED sent, device'.out = NoTransfer,
         device'.echo = <<>> \/ device'.echo = device.echo
  PROVE  Draws'
<1>1. Drawn(device'.out, sent')
  BY NoTransferTyped
<1>2. \A i \in 1..Len(device'.echo) : Drawn(device'.echo[i], sent')
  <2>1. CASE device'.echo = device.echo
    BY <2>1 DEF Draws
  <2>2. CASE device'.echo = <<>>
    <3>1. Len(<<>>) = 0 /\ \A i \in 1..0 : FALSE
      OBVIOUS
    <3>2. Len(device'.echo) = 0
      BY <2>2, <3>1
    <3>3. QED
      BY <3>1, <3>2
  <2>3. QED
    BY <2>1, <2>2
<1>3. QED
  BY <1>1, <1>2 DEF Draws

LEMMA ResetDeviceStep ==
  ASSUME IInv, ResetDevice
  PROVE  IInv'
<1>1. PICK dropped, kept :
        /\ dropped = [device EXCEPT !.present = FALSE, !.out = NoTransfer, !.echo = <<>>,
                                    !.halted = {}]
        /\ kept = [device EXCEPT !.present = FALSE, !.out = NoTransfer, !.halted = {}]
  OBVIOUS
<1>2. /\ pc = "work" /\ pc \in Working /\ Head(ops).op = "reset" /\ sent' = sent
      /\ UNCHANGED session
      /\ \/ /\ Connected
            /\ \/ NoFault /\ device' = dropped
               \/ device.echo # <<>> /\ Fault("keeps") /\ device' = kept
            /\ handle' = 0 /\ Advance /\ UNCHANGED evidence
         \/ ~Connected /\ Raise /\ NoFault /\ UNCHANGED device
         \/ Connected /\ TimesOut /\ UNCHANGED device
  BY <1>1 DEF ResetDevice, Doing, Working
<1>3. /\ sent \in Nat /\ device \in Device /\ Draws /\ faults \subseteq FaultKinds
      /\ handle \in Nat /\ handle <= device.plug
  BY <1>2, RunsOn
<1>4. CASE UNCHANGED device /\ Raise /\ faults' \subseteq FaultKinds
  <2>1. device' \in Device /\ Draws'
    BY <1>2, <1>3, <1>4, DrawsSame
  <2>2. QED
    BY <1>2, <1>3, <1>4, <2>1, Fails
<1>5. CASE /\ \/ NoFault /\ device' = dropped
              \/ device.echo # <<>> /\ Fault("keeps") /\ device' = kept
           /\ handle' = 0 /\ Advance /\ UNCHANGED evidence
  <2>1. PICK received : received = device'
    OBVIOUS
  <2>2. /\ received \in Device /\ received.plug = device.plug /\ received.halted = {}
        /\ received.out = NoTransfer
        /\ received.echo = <<>> \/ received.echo = device.echo
    BY <1>1, <1>3, <1>5, <2>1, DeviceLeaves
  <2>3. device' \in Device /\ device'.plug \in Nat /\ device'.halted = {}
    BY <2>1, <2>2, DeviceFields
  <2>4. Draws'
    BY <1>2, <1>3, <2>1, <2>2, DrawsEmptied
  <2>5. handle' \in Nat /\ handle' <= device'.plug
    BY <1>5, <2>3
  <2>6. UNCHANGED <<args, progress, file, evidence>>
    BY <1>2, <1>5 DEF session
  <2>7. CASE NoFault
    BY <1>2, <1>5, <2>3, <2>4, <2>5, <2>6, <2>7, MadeWell
  <2>8. CASE device.echo # <<>> /\ Fault("keeps") /\ device' = kept
    <3>1. faults' \subseteq FaultKinds /\ faults' = faults \cup {"keeps"}
      BY <1>3, <2>8, FaultTyped
    <3>2. Seen \cap faults' = {} /\ "deaf" \notin faults' /\ "stuck" \notin faults'
      <4>1. "deaf" \notin faults /\ "stuck" \notin faults /\ Seen \cap faults = {}
        BY <1>2, Checked
      <4>2. QED
        BY <3>1, <4>1 DEF Seen
    <3>3. device'.echo # <<>>
      <4>1. PICK d \in Device : d = device
        BY <1>3
      <4>2. received = [d EXCEPT !.present = FALSE, !.out = NoTransfer, !.halted = {}]
        BY <1>1, <2>1, <2>8, <4>1
      <4>3. received.echo = d.echo
        BY <4>2 DEF Device
      <4>4. QED
        BY <2>1, <2>8, <4>1, <4>3
    <3>4. /\ Calls(Tail(ops), "in") /\ ~Calls(Tail(ops), "reset") /\ OutFirst(Tail(ops))
          /\ Len(ops) # 1
      BY <1>2, WorksOn, NextCall
    <3>5. ops' = Tail(ops) /\ pc' = "work"
      BY <1>5, <3>4 DEF Advance
    <3>6. Noticed'
      BY <3>2, <3>3, <3>4, <3>5 DEF Noticed, Heard, Cleared, Kept
    <3>7. QED
      BY <1>2, <1>5, <2>3, <2>4, <2>5, <2>6, <3>1, <3>6, Made
  <2>9. QED
    BY <1>5, <2>7, <2>8
<1>6. QED
  BY <1>2, <1>3, <1>4, <1>5, FaultTyped DEF NoFault, TimesOut

LEMMA OpenStep ==
  ASSUME IInv, Open
  PROVE  IInv'
<1>1. /\ pc = "work" /\ pc \in Working /\ Head(ops).op = "open" /\ sent' = sent
      /\ UNCHANGED session /\ UNCHANGED device
      /\ \/ handle' = device.plug /\ Advance /\ NoFault /\ UNCHANGED evidence
         \/ /\ IF "unplug" \in faults THEN NoFault ELSE Fault("slow")
            /\ Raise
  BY DEF Open, Doing, Working
<1>2. /\ sent \in Nat /\ device \in Device /\ Draws /\ faults \subseteq FaultKinds
      /\ handle \in Nat /\ handle <= device.plug
  BY <1>1, RunsOn
<1>3. device' \in Device /\ Draws'
  BY <1>1, <1>2, DrawsSame
<1>4. CASE handle' = device.plug /\ Advance /\ NoFault /\ UNCHANGED evidence
  <2>1. handle' \in Nat /\ handle' <= device'.plug /\ handle' # 0
    <3>1. handle' = device.plug /\ device'.plug = device.plug
      BY <1>1, <1>4
    <3>2. QED
      BY <1>2, <3>1, DeviceFields
  <2>2. device'.halted \subseteq device.halted
    BY <1>1
  <2>3. UNCHANGED <<args, progress, file, evidence>>
    BY <1>1, <1>4 DEF session
  <2>4. "keeps" \in faults /\ "unplug" \notin faults =>
           device'.echo # <<>> /\ device'.echo[1] = device.echo[1]
    BY <1>1, RunsOn DEF Kept
  <2>5. QED
    BY <1>1, <1>3, <1>4, <2>1, <2>2, <2>3, <2>4, MadeWell
<1>5. CASE Raise /\ faults' \subseteq FaultKinds
  BY <1>1, <1>2, <1>3, <1>5, Fails
<1>6. QED
  BY <1>1, <1>2, <1>4, <1>5, FaultTyped DEF NoFault

LEMMA ControlFails ==
  ASSUME IInv, pc = "work", Raise, UNCHANGED device, UNCHANGED <<sent, session>>,
         faults' \subseteq FaultKinds
  PROVE  IInv'
<1>1. pc \in Working /\ sent' \in Nat /\ device' \in Device /\ Draws /\ UNCHANGED session
      /\ device'.out = device.out /\ device'.echo = device.echo /\ UNCHANGED sent
  BY WorksOn, RunsOn
<1>2. Draws'
  BY <1>1, DrawsSame
<1>3. QED
  BY <1>1, <1>2, Fails

LEMMA ControlHandle ==
  ASSUME IInv, pc = "work", Connected, UNCHANGED handle, device'.plug = device.plug
  PROVE  handle' \in Nat /\ handle' <= device'.plug /\ handle' # 0
<1>1. handle' = handle /\ handle = device.plug
  BY DEF Connected
<1>2. device \in Device /\ handle \in Nat /\ handle <= device.plug
  BY WorksOn, RunsOn
<1>3. QED
  BY <1>1, <1>2, DeviceFields

LEMMA ControlMade ==
  ASSUME IInv, pc = "work", Connected, Advance, NoFault, UNCHANGED <<handle, evidence>>,
         UNCHANGED <<sent, session>>,
         device' \in Device, device'.plug = device.plug, device'.out = device.out,
         device'.echo = device.echo,
         Head(ops).op = "set_halt" \/ device'.halted \subseteq device.halted,
         Head(ops).op \in {"status_clear", "status_set", "stall", "set_halt", "clear",
                           "descriptors"},
         Head(ops).op = "status_set" => Head(ops).arg \in device.halted,
         Head(ops).op = "status_clear" => Head(ops).arg \notin device.halted \cup device'.halted
  PROVE  IInv'
<1>1. handle' \in Nat /\ handle' <= device'.plug /\ handle' # 0
  BY ControlHandle
<1>2. UNCHANGED <<args, progress, file, evidence>> /\ sent' = sent
  BY DEF session
<1>3. /\ Head(ops).op # "out" /\ Head(ops).op # "in" /\ Head(ops).op # "reset"
      /\ pc \in Working
  BY WorksOn
<1>4. Draws'
  BY <1>2, <1>3, RunsOn, DrawsSame
<1>5. "keeps" \in faults /\ "unplug" \notin faults =>
        device'.echo # <<>> /\ device'.echo[1] = device.echo[1]
  BY <1>3, RunsOn DEF Kept
<1>6. sent' = IF Head(ops).op = "out" THEN sent + 1 ELSE sent
  BY <1>2, <1>3
<1>7. QED
  BY <1>1, <1>2, <1>3, <1>4, <1>5, <1>6, MadeWell

LEMMA EndpointHaltedStep ==
  ASSUME IInv, EndpointHalted
  PROVE  IInv'
<1>1. /\ pc = "work" /\ pc \in Working /\ UNCHANGED <<sent, session>> /\ UNCHANGED device
      /\ Head(ops).op \in {"status_clear", "status_set"}
      /\ Head(ops).op = "status_set" \/ Head(ops).op # "status_set"
      /\ \/ /\ Connected /\ Advance /\ UNCHANGED <<handle, evidence>>
            /\ Head(ops).op = "status_set" => Head(ops).arg \in device.halted
            /\ Head(ops).op = "status_clear" => Head(ops).arg \notin device.halted
         \/ Raise
      /\ NoFault
  BY DEF EndpointHalted, Control, Doing, Working, Halted, Endpoint
<1>2. device' \in Device /\ faults' \subseteq FaultKinds
  BY <1>1, RunsOn DEF NoFault
<1>3. CASE Raise
  BY <1>1, <1>2, <1>3, ControlFails
<1>4. CASE /\ Connected /\ Advance /\ UNCHANGED <<handle, evidence>>
           /\ Head(ops).op = "status_set" => Head(ops).arg \in device.halted
           /\ Head(ops).op = "status_clear" => Head(ops).arg \notin device.halted
  <2>1. /\ device'.plug = device.plug /\ device'.out = device.out /\ device'.echo = device.echo
        /\ device'.halted = device.halted
    BY <1>1
  <2>2. QED
    BY <1>1, <1>2, <1>4, <2>1, ControlMade
<1>5. QED
  BY <1>1, <1>3, <1>4

LEMMA ExpectStallStep ==
  ASSUME IInv, ExpectStall
  PROVE  IInv'
<1>1. /\ pc = "work" /\ pc \in Working /\ UNCHANGED <<sent, session>> /\ UNCHANGED device
      /\ Head(ops).op = "stall" /\ NoFault
      /\ \/ Connected /\ Advance /\ UNCHANGED <<handle, evidence>>
         \/ Raise
  BY DEF ExpectStall, Control, Doing, Working
<1>2. device' \in Device /\ faults' \subseteq FaultKinds
  BY <1>1, RunsOn DEF NoFault
<1>3. CASE Raise
  BY <1>1, <1>2, <1>3, ControlFails
<1>4. CASE Connected /\ Advance /\ UNCHANGED <<handle, evidence>>
  <2>1. /\ device'.plug = device.plug /\ device'.out = device.out /\ device'.echo = device.echo
        /\ device'.halted = device.halted
    BY <1>1
  <2>2. QED
    BY <1>1, <1>2, <1>4, <2>1, ControlMade
<1>5. QED
  BY <1>1, <1>3, <1>4

LEMMA DescriptorsStep ==
  ASSUME IInv, Descriptors
  PROVE  IInv'
<1>1. /\ pc = "work" /\ pc \in Working /\ UNCHANGED <<sent, session>> /\ UNCHANGED device
      /\ Head(ops).op = "descriptors"
      /\ \/ NoFault /\ Connected /\ Advance /\ UNCHANGED <<handle, evidence>>
         \/ (NoFault \/ Fault("descriptors")) /\ Raise
  BY DEF Descriptors, Control, Doing, Working
<1>2. device' \in Device /\ faults \subseteq FaultKinds
  BY <1>1, RunsOn
<1>3. CASE (NoFault \/ Fault("descriptors")) /\ Raise
  <2>1. faults' \subseteq FaultKinds
    BY <1>2, <1>3, FaultTyped DEF NoFault
  <2>2. QED
    BY <1>1, <1>3, <2>1, ControlFails
<1>4. CASE NoFault /\ Connected /\ Advance /\ UNCHANGED <<handle, evidence>>
  <2>1. /\ device'.plug = device.plug /\ device'.out = device.out /\ device'.echo = device.echo
        /\ device'.halted = device.halted
    BY <1>1
  <2>2. QED
    BY <1>1, <1>2, <1>4, <2>1, ControlMade
<1>5. QED
  BY <1>1, <1>3, <1>4

(* A device that ignores the request is found out by the next call.         *)
LEMMA SetEndpointHaltStep ==
  ASSUME IInv, SetEndpointHalt
  PROVE  IInv'
<1>1. PICK x : x = Head(ops).arg
  OBVIOUS
<1>2. /\ pc = "work" /\ pc \in Working /\ UNCHANGED <<sent, session>> /\ Head(ops).op = "set_halt"
      /\ \/ /\ NoFault /\ Connected /\ Advance /\ UNCHANGED <<handle, evidence>>
            /\ device' = [device EXCEPT !.halted = @ \cup {x}]
         \/ /\ Fault("deaf") /\ Connected /\ Advance /\ UNCHANGED <<handle, evidence>>
            /\ UNCHANGED device
         \/ (NoFault \/ Fault("deaf")) /\ Raise /\ UNCHANGED device
  BY <1>1 DEF SetEndpointHalt, Control, Doing, Working, Endpoint
<1>3. /\ sent \in Nat /\ device \in Device /\ Draws /\ faults \subseteq FaultKinds
      /\ handle \in Nat /\ handle <= device.plug
  BY <1>2, RunsOn
<1>4. /\ ops \in Seq(Call) /\ ops # <<>> /\ Shaped(ops) /\ x \in Endpoints
      /\ Len(ops) # 1 /\ Head(Tail(ops)) = Op("status_set", x) /\ x \notin device.halted
  BY <1>1, <1>2, WorksOn, NextCall
<1>5. CASE (NoFault \/ Fault("deaf")) /\ Raise /\ UNCHANGED device
  <2>1. faults' \subseteq FaultKinds
    BY <1>3, <1>5, FaultTyped DEF NoFault
  <2>2. QED
    BY <1>2, <1>5, <2>1, ControlFails
<1>6. CASE /\ NoFault /\ Connected /\ Advance /\ UNCHANGED <<handle, evidence>>
           /\ device' = [device EXCEPT !.halted = @ \cup {x}]
  <2>1. PICK d \in Device : d = device
    BY <1>3
  <2>2. PICK received : received = device'
    OBVIOUS
  <2>3. received = [d EXCEPT !.halted = @ \cup {x}]
    BY <1>6, <2>1, <2>2
  <2>4. /\ received \in Device /\ received.plug = d.plug /\ received.out = d.out
        /\ received.echo = d.echo
    BY <1>4, <2>3 DEF Device
  <2>5. /\ device' \in Device /\ device'.plug = device.plug /\ device'.out = device.out
        /\ device'.echo = device.echo
    BY <2>1, <2>2, <2>4
  <2>6. QED
    BY <1>2, <1>6, <2>5, ControlMade
<1>7. CASE /\ Fault("deaf") /\ Connected /\ Advance /\ UNCHANGED <<handle, evidence>>
           /\ UNCHANGED device
  <2>1. faults' \subseteq FaultKinds /\ faults' = faults \cup {"deaf"}
    BY <1>3, <1>7, FaultTyped
  <2>2. Seen \cap faults' = {} /\ "stuck" \notin faults' /\ "deaf" \notin faults
    <3>1. "deaf" \notin faults /\ "stuck" \notin faults /\ Seen \cap faults = {}
      BY <1>2, Checked
    <3>2. QED
      BY <2>1, <3>1 DEF Seen
  <2>3. ops' = Tail(ops) /\ pc' = "work"
    BY <1>4, <1>7 DEF Advance
  <2>4. Heard'
    <3>1. Op("status_set", x).op = "status_set" /\ Op("status_set", x).arg = x
      BY DEF Op
    <3>2. Head(ops').op = "status_set" /\ Head(ops').arg = x
      BY <1>4, <2>3, <3>1
    <3>3. x \notin device'.halted
      BY <1>4, <1>7
    <3>4. QED
      BY <2>3, <3>2, <3>3 DEF Heard
  <2>5. Cleared'
    BY <2>2 DEF Cleared
  <2>6. "keeps" \in faults' /\ "unplug" \notin faults' =>
          "keeps" \in faults /\ "unplug" \notin faults
    BY <2>1
  <2>7. sent' = sent
    BY <1>2
  <2>8. Kept'
    <3>1. "keeps" \in faults /\ "unplug" \notin faults =>
            device'.echo # <<>> /\ device'.echo[1] = device.echo[1]
      BY <1>2, <1>7, RunsOn DEF Kept
    <3>2. sent' = IF Head(ops).op = "out" THEN sent + 1 ELSE sent
      BY <1>2, <2>7
    <3>3. Head(ops).op # "in"
      BY <1>2
    <3>4. QED
      BY <1>2, <1>7, <2>6, <3>1, <3>2, <3>3, KeptOn
  <2>9. Noticed'
    BY <2>2, <2>4, <2>5, <2>8 DEF Noticed
  <2>10. device' \in Device /\ Draws' /\ device'.plug = device.plug
    BY <1>3, <1>7, <2>7, DrawsSame
  <2>11. handle' \in Nat /\ handle' <= device'.plug /\ handle' # 0
    BY <1>2, <1>7, <2>10, ControlHandle
  <2>12. UNCHANGED <<args, progress, file, evidence>>
    BY <1>2, <1>7 DEF session
  <2>13. QED
    BY <1>2, <1>7, <2>1, <2>7, <2>9, <2>10, <2>11, <2>12, Made
<1>8. QED
  BY <1>2, <1>5, <1>6, <1>7

LEMMA ClearHaltStep ==
  ASSUME IInv, ClearHalt
  PROVE  IInv'
<1>1. PICK x : x = Head(ops).arg
  OBVIOUS
<1>2. /\ pc = "work" /\ pc \in Working /\ UNCHANGED <<sent, session>> /\ Head(ops).op = "clear"
      /\ \/ /\ NoFault /\ Connected /\ Advance /\ UNCHANGED <<handle, evidence>>
            /\ device' = [device EXCEPT !.halted = @ \ {x}]
         \/ /\ Fault("stuck") /\ Connected /\ Advance /\ UNCHANGED <<handle, evidence>>
            /\ UNCHANGED device /\ x \in device.halted
         \/ (NoFault \/ Fault("stuck")) /\ Raise /\ UNCHANGED device
  BY <1>1 DEF ClearHalt, Control, Doing, Working, Endpoint, Halted
<1>3. /\ sent \in Nat /\ device \in Device /\ Draws /\ faults \subseteq FaultKinds
      /\ handle \in Nat /\ handle <= device.plug
  BY <1>2, RunsOn
<1>4. CASE (NoFault \/ Fault("stuck")) /\ Raise /\ UNCHANGED device
  <2>1. faults' \subseteq FaultKinds
    BY <1>3, <1>4, FaultTyped DEF NoFault
  <2>2. QED
    BY <1>2, <1>4, <2>1, ControlFails
<1>5. CASE /\ NoFault /\ Connected /\ Advance /\ UNCHANGED <<handle, evidence>>
           /\ device' = [device EXCEPT !.halted = @ \ {x}]
  <2>1. PICK d \in Device : d = device
    BY <1>3
  <2>2. PICK received : received = device'
    OBVIOUS
  <2>3. received = [d EXCEPT !.halted = @ \ {x}]
    BY <1>5, <2>1, <2>2
  <2>4. /\ received \in Device /\ received.plug = d.plug /\ received.out = d.out
        /\ received.echo = d.echo /\ received.halted \subseteq d.halted
    BY <2>3 DEF Device
  <2>5. /\ device' \in Device /\ device'.plug = device.plug /\ device'.out = device.out
        /\ device'.echo = device.echo /\ device'.halted \subseteq device.halted
    BY <2>1, <2>2, <2>4
  <2>6. QED
    BY <1>2, <1>5, <2>5, ControlMade
<1>6. CASE /\ Fault("stuck") /\ Connected /\ Advance /\ UNCHANGED <<handle, evidence>>
           /\ UNCHANGED device /\ x \in device.halted
  <2>1. faults' \subseteq FaultKinds /\ faults' = faults \cup {"stuck"}
    BY <1>3, <1>6, FaultTyped
  <2>2. Seen \cap faults' = {} /\ "deaf" \notin faults'
    <3>1. "deaf" \notin faults /\ "stuck" \notin faults /\ Seen \cap faults = {}
      BY <1>2, Checked
    <3>2. QED
      BY <2>1, <3>1 DEF Seen
  <2>3. /\ ops \in Seq(Call) /\ ops # <<>> /\ Shaped(ops) /\ Head(ops) = ops[1]
        /\ 1 \in 1..Len(ops) /\ Settled
    BY <1>2, WorksOn
  <2>4. ~ClearsReset(ops)
    <3>1. ~\E j \in 1..1 - 1 : ops[j].op = "reset"
      OBVIOUS
    <3>2. QED
      BY <1>2, <2>3, <3>1 DEF ClearsReset
  <2>5. ClearsChecked(ops)
    BY <1>6, <2>3, <2>4 DEF Settled
  <2>6. Len(ops) # 1 /\ Head(Tail(ops)) = Op("status_clear", x)
    BY <1>1, <1>2, <2>3, <2>5, NextCall
  <2>7. ops' = Tail(ops) /\ pc' = "work"
    BY <1>6, <2>6 DEF Advance
  <2>8. Cleared'
    <3>1. Op("status_clear", x).op = "status_clear" /\ Op("status_clear", x).arg = x
      BY DEF Op
    <3>2. Head(ops').op = "status_clear" /\ Head(ops').arg = x
      BY <2>6, <2>7, <3>1
    <3>3. x \in device'.halted
      BY <1>6
    <3>4. QED
      BY <2>7, <3>2, <3>3 DEF Cleared
  <2>9. Heard'
    BY <2>2 DEF Heard
  <2>10. sent' = sent
    BY <1>2
  <2>11. Kept'
    <3>1. "keeps" \in faults' /\ "unplug" \notin faults' =>
            "keeps" \in faults /\ "unplug" \notin faults
      BY <2>1
    <3>2. "keeps" \in faults /\ "unplug" \notin faults =>
            device'.echo # <<>> /\ device'.echo[1] = device.echo[1]
      BY <1>2, <1>6, RunsOn DEF Kept
    <3>3. sent' = IF Head(ops).op = "out" THEN sent + 1 ELSE sent
      BY <1>2, <2>10
    <3>4. Head(ops).op # "in"
      BY <1>2
    <3>5. QED
      BY <1>2, <1>6, <3>1, <3>2, <3>3, <3>4, KeptOn
  <2>12. Noticed'
    BY <2>2, <2>8, <2>9, <2>11 DEF Noticed
  <2>13. /\ device' \in Device /\ Draws' /\ device'.plug = device.plug
         /\ device'.halted \subseteq device.halted
    BY <1>3, <1>6, <2>10, DrawsSame
  <2>14. handle' \in Nat /\ handle' <= device'.plug /\ handle' # 0
    BY <1>2, <1>6, <2>13, ControlHandle
  <2>15. UNCHANGED <<args, progress, file, evidence>>
    BY <1>2, <1>6 DEF session
  <2>16. QED
    BY <1>2, <1>6, <2>1, <2>10, <2>12, <2>13, <2>14, <2>15, Made
<1>7. QED
  BY <1>2, <1>4, <1>5, <1>6
-----------------------------------------------------------------------------
(* Between the calls.                                                       *)

(* Outside of a case or an echo nothing is left unseen.                     *)
LEMMA NothingUnseen ==
  ASSUME IInv, Going, pc # "work"
  PROVE  /\ Seen \cap faults = {} /\ "deaf" \notin faults /\ "stuck" \notin faults
         /\ "keeps" \in faults => "unplug" \in faults
BY DEF IInv, Noticed, Heard, Cleared, Kept

(* The runner goes on without a call.                                       *)
LEMMA Turned ==
  ASSUME IInv, pc \in Working \ {"work"}, pc' \in {"create", "record", "unit"},
         UNCHANGED <<args, ops, sent, device, faults, handle>>,
         progress' \in [units: Nat, bytes: Nat, seconds: Nat],
         evidence' \in Document, evidence'.run = 1, evidence'.status = "RUNNING",
         evidence'.verdict = evidence.verdict, file' \in Document, ~Passed', Eligible',
         pc' = "create" => sent = 0,
         pc' = "unit" \/ (pc' = "record" /\ sent > 0) => handle # 0,
         args.program = "matrix" => progress'.units <= Len(Cases),
         args.program = "fs" => progress'.bytes <= args.total
  PROVE  IInv'
<1>1. /\ evidence.status = "RUNNING" /\ evidence.verdict # "GRANTED"
      /\ Seen \cap faults = {} /\ "deaf" \notin faults /\ "stuck" \notin faults
      /\ "keeps" \in faults => "unplug" \in faults
  <2>1. evidence.status = "RUNNING" /\ Going
    BY RunsOn DEF Going
  <2>2. evidence.verdict # "GRANTED"
    BY <2>1 DEF IInv, Types, TypeOK
  <2>3. QED
    BY <2>1, <2>2, NothingUnseen
<1>2. Types'
  <2>1. /\ args' \in Runs /\ ops' \in Seq(Call) /\ handle' \in Nat /\ sent' \in Nat
        /\ device'.out \in Transfers /\ device'.echo \in Seq(Transfers)
        /\ device'.halted \subseteq Endpoints /\ faults' \subseteq FaultKinds /\ device' \in Device
    BY DEF IInv, Types, TypeOK
  <2>2. evidence'.status # "PASS" /\ evidence'.verdict # "GRANTED"
    BY <1>1
  <2>3. QED
    BY <2>1, <2>2 DEF Types, TypeOK
<1>3. Phases'
  <2>1. handle' <= device'.plug /\ sent \in Nat
    BY RunsOn
  <2>2. QED
    BY <2>1 DEF Phases, Working
<1>4. Counts'
  BY DEF Counts
<1>5. Draws'
  <2>1. Draws /\ device'.out = device.out /\ device'.echo = device.echo /\ UNCHANGED sent
    BY DEF IInv
  <2>2. QED
    BY <2>1, DrawsSame
<1>6. Underway'
  BY DEF Underway
<1>7. Noticed'
  BY <1>1 DEF Noticed, Heard, Cleared, Kept
<1>8. QED
  BY <1>2, <1>3, <1>4, <1>5, <1>6, <1>7 DEF IInv

(* It begins with the calls that are due.                                   *)
LEMMA Begun ==
  ASSUME IInv, pc \in {"record", "unit"}, pc' = "work", Scripted(ops'),
         UNCHANGED <<args, sent, device, faults, handle, progress, evidence, file>>,
         handle = 0 => Head(ops').op = "open",
         sent > 0 \/ Calls(ops', "out") => More
  PROVE  IInv'
<1>1. /\ pc \in Working \ {"start"} /\ pc' \in Working \ {"start"} /\ evidence.run = 1
      /\ evidence.status = "RUNNING" /\ ~Passed
      /\ Passed' = Passed /\ Eligible' = Eligible /\ More' = More /\ Eligible
      /\ handle <= device.plug
  BY DEF IInv, Phases, Working, Passed, Eligible, More
<1>2. /\ Seen \cap faults = {} /\ "deaf" \notin faults /\ "stuck" \notin faults
      /\ "keeps" \in faults => "unplug" \in faults
  BY <1>1, NothingUnseen DEF Going
<1>3. /\ ops' \in Seq(Call) /\ ops' # <<>> /\ Shaped(ops') /\ OutFirst(ops')
      /\ ClearsChecked(ops') \/ ClearsReset(ops')
      /\ Head(ops').op # "set_halt"
  BY DEF Scripted
<1>4. Types'
  <2>1. /\ args' \in Runs /\ handle' \in Nat /\ sent' \in Nat
        /\ device'.out \in Transfers /\ device'.echo \in Seq(Transfers)
        /\ device'.halted \subseteq Endpoints /\ faults' \subseteq FaultKinds /\ device' \in Device
        /\ progress' \in [units: Nat, bytes: Nat, seconds: Nat]
        /\ evidence' \in Document /\ file' \in Document
        /\ (evidence'.status = "PASS" <=> evidence'.verdict = "GRANTED")
    BY DEF IInv, Types, TypeOK
  <2>2. QED
    BY <1>3, <2>1 DEF Types, TypeOK
<1>5. Phases'
  BY <1>1, <1>3 DEF Phases
<1>6. Counts'
  BY <1>1 DEF IInv, Counts
<1>7. Draws'
  <2>1. Draws /\ device'.out = device.out /\ device'.echo = device.echo /\ UNCHANGED sent
    BY DEF IInv
  <2>2. QED
    BY <2>1, DrawsSame
<1>8. Underway'
  BY <1>3 DEF Underway, Settled
<1>9. Noticed'
  BY <1>2 DEF Noticed, Heard, Cleared, Kept
<1>10. QED
  BY <1>4, <1>5, <1>6, <1>7, <1>8, <1>9 DEF IInv

LEMMA StartStep ==
  ASSUME IInv, Start
  PROVE  IInv'
<1>1. /\ pc = "start" /\ pc \in Working /\ UNCHANGED <<args, sent, progress, file, device>>
      /\ \/ Eligible /\ pc' = "create" /\ NoFault /\ UNCHANGED <<ops, handle, evidence>>
         \/ (NoFault \/ Fault("metadata")) /\ Raise
  BY DEF Start, Working
<1>2. CASE (NoFault \/ Fault("metadata")) /\ Raise
  <2>1. faults' \subseteq FaultKinds /\ device' \in Device /\ sent' \in Nat /\ UNCHANGED session
    BY <1>1, <1>2, RunsOn, FaultTyped DEF NoFault, session
  <2>2. Draws'
    BY <1>1, RunsOn, DrawsSame
  <2>3. QED
    BY <1>1, <1>2, <2>1, <2>2, Fails
<1>3. CASE Eligible /\ pc' = "create" /\ NoFault /\ UNCHANGED <<ops, handle, evidence>>
  <2>1. /\ progress' \in [units: Nat, bytes: Nat, seconds: Nat]
        /\ evidence' \in Document /\ file' \in Document
        /\ sent = 0 /\ Eligible' /\ ~Passed'
        /\ evidence'.run = 1 /\ evidence'.status = "RUNNING"
    BY <1>1, <1>3 DEF IInv, Types, TypeOK, Phases, Working, Eligible, Passed
  <2>2. /\ args.program = "matrix" => progress'.units <= Len(Cases)
        /\ args.program = "fs" => progress'.bytes <= args.total
    BY <1>1 DEF IInv, Counts
  <2>3. QED
    BY <1>1, <1>3, <2>1, <2>2, Turned DEF NoFault
<1>4. QED
  BY <1>1, <1>2, <1>3

(* The evidence is written, or an OSError is raised.                        *)
LEMMA Written ==
  ASSUME IInv, pc \in {"create", "record"}, UNCHANGED <<args, sent, progress, device>>,
         NEW document \in Document, document.run = 1, document.status = "RUNNING",
         document.verdict = evidence.verdict, NEW next \in {"record", "unit"},
         next = "unit" \/ sent > 0 => handle # 0, WriteEvidence(document, next)
  PROVE  IInv'
<1>1. /\ pc \in Working /\ pc \in Working \ {"work", "start"} /\ Eligible /\ Eligible' /\ ~Passed
      /\ args.program = "matrix" => progress'.units <= Len(Cases)
      /\ args.program = "fs" => progress'.bytes <= args.total
      /\ progress' \in [units: Nat, bytes: Nat, seconds: Nat]
      /\ sent' \in Nat /\ device' \in Device /\ faults \subseteq FaultKinds
  <2>1. pc \in Working /\ pc \in Working \ {"work", "start"} /\ pc \in Working \ {"start"}
    BY DEF Working
  <2>2. Eligible /\ ~Passed
    BY <2>1 DEF IInv, Phases
  <2>3. Eligible'
    BY <2>2 DEF Eligible
  <2>4. QED
    BY <2>1, <2>2, <2>3, RunsOn DEF IInv, Counts, Types, TypeOK
<1>2. \/ /\ file' = document /\ evidence' = document /\ pc' = next
         /\ NoFault /\ UNCHANGED <<ops, handle>>
      \/ Fault("disk") /\ RaiseWith(document) /\ UNCHANGED file
  BY DEF WriteEvidence
<1>3. CASE Fault("disk") /\ RaiseWith(document) /\ UNCHANGED file
  <2>1. faults' \subseteq FaultKinds
    BY <1>1, <1>3, FaultTyped
  <2>2. Draws'
    BY <1>1, RunsOn, DrawsSame
  <2>3. QED
    BY <1>1, <1>3, <2>1, <2>2, Failed
<1>4. CASE /\ file' = document /\ evidence' = document /\ pc' = next
           /\ NoFault /\ UNCHANGED <<ops, handle>>
  <2>1. ~Passed'
    BY <1>4 DEF Passed
  <2>2. QED
    BY <1>1, <1>4, <2>1, Turned DEF NoFault
<1>5. QED
  BY <1>2, <1>3, <1>4

LEMMA CreateStep ==
  ASSUME IInv, Create
  PROVE  IInv'
<1>1. /\ pc = "create" /\ WriteEvidence(evidence, "record")
      /\ UNCHANGED <<args, sent, progress, device>>
  BY DEF Create
<1>2. evidence \in Document /\ evidence.run = 1 /\ evidence.status = "RUNNING" /\ sent = 0
  BY <1>1 DEF IInv, Types, TypeOK, Phases, Working
<1>3. "record" \in {"record", "unit"} /\ "record" # "unit" /\ ~(sent > 0)
  BY <1>2
<1>4. QED
  BY <1>1, <1>2, <1>3, Written

LEMMA RecordStep ==
  ASSUME IInv, Record
  PROVE  IInv'
<1>1. /\ pc = "record" /\ handle # 0 /\ WriteEvidence(Reported, "unit")
      /\ UNCHANGED <<args, sent, progress, device>>
  BY DEF Record
<1>2. PICK e \in Document, u \in Nat, b \in Nat, s \in Nat :
        e = evidence /\ u = progress.units /\ b = progress.bytes /\ s = progress.seconds
  BY DEF IInv, Types, TypeOK
<1>3. e.run = 1 /\ e.status = "RUNNING"
  BY <1>1, <1>2 DEF IInv, Phases, Working
<1>4. PICK r : r = Reported
  OBVIOUS
<1>5. r = [e EXCEPT !.units = u, !.bytes = b, !.seconds = s]
  BY <1>2, <1>4 DEF Reported
<1>6. r \in Document /\ r.run = e.run /\ r.status = e.status /\ r.verdict = e.verdict
  BY <1>5 DEF Document
<1>7. WriteEvidence(r, "unit") /\ "unit" \in {"record", "unit"}
  BY <1>1, <1>4
<1>8. QED
  BY <1>1, <1>2, <1>3, <1>6, <1>7, Written

LEMMA EnterStep ==
  ASSUME IInv, Enter
  PROVE  IInv'
<1>1. /\ pc = "record" /\ handle = 0 /\ pc' = "work"
      /\ ops' = <<Op("open", 0)>> \o IF args.program = "fs" THEN <<Op("descriptors", 0)>> ELSE <<>>
      /\ UNCHANGED <<args, handle, sent, progress, evidence, file, device, faults>>
  BY DEF Enter
<1>2. Scripted(ops') /\ Head(ops').op = "open" /\ ~Calls(ops', "out")
  <2>1. PICK q :
          q = <<Op("open", 0)>> \o IF args.program = "fs" THEN <<Op("descriptors", 0)>> ELSE <<>>
    OBVIOUS
  <2>2. Scripted(q) /\ Head(q).op = "open" /\ ~Calls(q, "out")
    BY <2>1, EnterScripted
  <2>3. ops' = q
    BY <1>1, <2>1
  <2>4. QED
    BY <2>2, <2>3
<1>3. ~(sent > 0)
  BY <1>1 DEF IInv, Phases
<1>4. QED
  BY <1>1, <1>2, <1>3, Begun

LEMMA OpenedStep ==
  ASSUME IInv, Opened
  PROVE  IInv'
<1>1. /\ pc = "unit_done" /\ sent = 0 /\ pc' \in {"record", "unit"}
      /\ UNCHANGED <<args, ops, handle, sent, progress, evidence, file, device, faults>>
  BY DEF Opened
<1>2. /\ progress' \in [units: Nat, bytes: Nat, seconds: Nat]
      /\ evidence' \in Document /\ file' \in Document
      /\ Eligible' /\ ~Passed' /\ handle # 0
      /\ evidence'.run = 1 /\ evidence'.status = "RUNNING"
  BY <1>1 DEF IInv, Types, TypeOK, Phases, Working, Eligible, Passed
<1>3. /\ args.program = "matrix" => progress'.units <= Len(Cases)
      /\ args.program = "fs" => progress'.bytes <= args.total
  BY <1>1 DEF IInv, Counts
<1>4. pc \in Working \ {"work"} /\ pc' \in {"create", "record", "unit"} /\ pc' # "create"
  BY <1>1 DEF Working
<1>5. QED
  BY <1>1, <1>2, <1>3, <1>4, Turned

LEMMA UnitDoneStep ==
  ASSUME IInv, UnitDone
  PROVE  IInv'
<1>1. PICK time \in {1, 2} :
        /\ pc = "unit_done" /\ sent > 0
        /\ progress' = [units   |-> progress.units + 1,
                        bytes   |-> progress.bytes + EchoSize,
                        seconds |-> IF args.program = "loopback"
                                    THEN Smaller(progress.seconds + time, args.seconds) ELSE 0]
        /\ pc' \in {"record", "unit"}
        /\ UNCHANGED <<args, ops, handle, sent, evidence, file, device, faults>>
  BY DEF UnitDone
<1>2. TypeOK /\ More /\ handle # 0 /\ ~Passed /\ ~Passed' /\ Eligible'
  BY <1>1 DEF IInv, Types, Counts, Phases, Working, Eligible, Passed
<1>3. /\ args.program \in {"matrix", "loopback", "fs"}
      /\ args.chunk \in Nat /\ args.total \in Nat /\ args.seconds \in Nat
      /\ progress.units \in Nat /\ progress.bytes \in Nat /\ progress.seconds \in Nat
      /\ Len(Cases) \in Nat
  BY <1>2, ProgramKnown
<1>4. EchoSize \in Nat /\ (args.program = "fs" => progress.bytes + EchoSize <= args.total)
  BY <1>2, EchoSizeBounds DEF IInv, Counts
<1>5. PICK u \in Nat, b \in Nat, s \in Nat :
        /\ u = progress.units + 1 /\ b = progress.bytes + EchoSize
        /\ s = IF args.program = "loopback"
               THEN Smaller(progress.seconds + time, args.seconds) ELSE 0
  <2>1. progress.units + 1 \in Nat /\ progress.bytes + EchoSize \in Nat
    BY <1>3, <1>4
  <2>2. Smaller(progress.seconds + time, args.seconds) \in Nat
    BY <1>3 DEF Smaller
  <2>3. QED
    BY <2>1, <2>2
<1>6. progress' = [units |-> u, bytes |-> b, seconds |-> s]
  BY <1>1, <1>5
<1>7. /\ progress' \in [units: Nat, bytes: Nat, seconds: Nat]
      /\ progress'.units = u /\ progress'.bytes = b
  BY <1>6
<1>8. args.program = "matrix" => progress'.units <= Len(Cases)
  <2>1. args.program = "matrix" => progress.units < Len(Cases)
    BY <1>2 DEF More
  <2>2. QED
    BY <1>3, <1>5, <1>7, <2>1
<1>9. args.program = "fs" => progress'.bytes <= args.total
  BY <1>4, <1>5, <1>7
<1>10. evidence' \in Document /\ file' \in Document /\ evidence'.run = 1
       /\ evidence'.status = "RUNNING" /\ evidence'.verdict = evidence.verdict
  BY <1>1 DEF IInv, Types, TypeOK, Phases, Working
<1>11. pc \in Working \ {"work"} /\ pc' \in {"create", "record", "unit"} /\ pc' # "create"
  BY <1>1 DEF Working
<1>12. QED
  BY <1>1, <1>2, <1>7, <1>8, <1>9, <1>10, <1>11, Turned

(* The verdict: what there was to do is done, and nothing was left unseen.  *)
LEMMA UnitStep ==
  ASSUME IInv, Unit
  PROVE  IInv'
<1>1. /\ pc = "unit" /\ UNCHANGED <<args, sent, progress, file, device, faults>>
      /\ \/ More /\ pc' = "work" /\ ops' = UnitOps /\ UNCHANGED <<handle, evidence>>
         \/ /\ ~More /\ pc' = "conclude" /\ handle' = 0 /\ UNCHANGED ops
            /\ evidence' = [Reported EXCEPT !.status = "PASS", !.verdict = "GRANTED"]
  BY DEF Unit
<1>2. TypeOK /\ Counts /\ handle # 0 /\ ~Passed /\ Eligible
      /\ evidence.run = 1 /\ pc \in Working /\ pc # "work"
  BY <1>1 DEF IInv, Types, Phases, Working
<1>3. CASE More /\ pc' = "work" /\ ops' = UnitOps /\ UNCHANGED <<handle, evidence>>
  <2>1. Scripted(ops')
    <3>1. PICK q : q = UnitOps
      OBVIOUS
    <3>2. Scripted(q)
      BY <1>2, <1>3, <3>1, UnitScripted
    <3>3. QED
      BY <1>3, <3>1, <3>2
  <2>2. QED
    BY <1>1, <1>2, <1>3, <2>1, Begun
<1>4. CASE /\ ~More /\ pc' = "conclude" /\ handle' = 0 /\ UNCHANGED ops
           /\ evidence' = [Reported EXCEPT !.status = "PASS", !.verdict = "GRANTED"]
  <2>1. PICK e \in Document, u \in Nat, b \in Nat, s \in Nat :
          e = evidence /\ u = progress.units /\ b = progress.bytes /\ s = progress.seconds
    BY <1>2 DEF TypeOK
  <2>2. PICK r : r = evidence'
    OBVIOUS
  <2>3. r = [e EXCEPT !.units = u, !.bytes = b, !.seconds = s, !.status = "PASS",
                      !.verdict = "GRANTED"]
    BY <1>4, <2>1, <2>2 DEF Reported
  <2>4. /\ r \in Document /\ r.run = 1 /\ r.status = "PASS" /\ r.verdict = "GRANTED"
        /\ r.units = u /\ r.bytes = b /\ r.seconds = s
    <3>1. "PASS" \in Status /\ "GRANTED" \in Verdict
      BY DEF Status, Verdict
    <3>2. e.run = 1
      BY <1>2, <2>1
    <3>3. QED
      BY <2>3, <3>1, <3>2 DEF Document
  <2>5. Enough(r)
    <3>1. /\ args.program \in {"matrix", "loopback", "fs"}
          /\ args.total \in Nat /\ args.seconds \in Nat /\ Len(Cases) \in Nat
      BY <1>2, ProgramKnown
    <3>2. /\ args.program = "matrix" => u <= Len(Cases)
          /\ args.program = "fs" => b <= args.total
      BY <1>2, <2>1 DEF Counts
    <3>3. /\ args.program = "matrix" => ~(u < Len(Cases))
          /\ args.program = "loopback" => ~(b < args.total) /\ ~(s < args.seconds)
          /\ args.program = "fs" => ~(b < args.total)
      BY <1>4, <2>1 DEF More
    <3>4. args.program = "fs" => args.speed = "fs"
      BY <1>2 DEF Eligible
    <3>5. CASE args.program = "matrix"
      <4>1. u = Len(Cases)
        BY <3>1, <3>2, <3>3, <3>5
      <4>2. QED
        BY <2>4, <3>5, <4>1 DEF Enough
    <3>6. CASE args.program = "loopback"
      <4>1. b >= args.total /\ s >= args.seconds
        BY <3>1, <3>3, <3>6
      <4>2. QED
        BY <2>4, <3>6, <4>1 DEF Enough
    <3>7. CASE args.program = "fs"
      <4>1. b = args.total
        BY <3>1, <3>2, <3>3, <3>7
      <4>2. QED
        BY <2>4, <3>4, <3>7, <4>1 DEF Enough
    <3>8. QED
      BY <3>1, <3>5, <3>6, <3>7
  <2>6. Passed' = Passed /\ pc' \notin Working /\ Eligible'
    BY <1>1, <1>2, <1>4 DEF Passed, Working, Eligible
  <2>7. Types'
    <3>1. /\ args' \in Runs /\ ops' \in Seq(Call) /\ sent' \in Nat /\ handle' \in Nat
          /\ device'.out \in Transfers /\ device'.echo \in Seq(Transfers)
          /\ device'.halted \subseteq Endpoints /\ device' \in Device
          /\ faults' \subseteq FaultKinds
          /\ progress' \in [units: Nat, bytes: Nat, seconds: Nat] /\ file' \in Document
      BY <1>1, <1>4 DEF IInv, Types, TypeOK
    <3>2. QED
      BY <1>4, <2>2, <2>4, <3>1 DEF Types, TypeOK
  <2>8. Phases'
    <3>1. handle' <= device'.plug
      <4>1. device'.plug \in Nat /\ handle' = 0
        BY <1>1, <1>2, <1>4, RunsOn, DeviceFields
      <4>2. QED
        BY <4>1
    <3>2. evidence'.run = 1
      BY <2>2, <2>4
    <3>3. QED
      BY <1>4, <2>6, <3>1, <3>2 DEF Phases
  <2>9. Counts'
    <3>1. Enough(evidence')
      BY <2>2, <2>5
    <3>2. Enough(evidence)'
      BY <1>1, <3>1 DEF Enough
    <3>3. QED
      BY <1>1, <1>2, <1>4, <2>6, <3>2 DEF Counts
  <2>10. Draws'
    BY <1>1, <1>2, RunsOn, DrawsSame
  <2>11. Underway'
    BY <1>4 DEF Underway
  <2>12. Noticed'
    <3>1. /\ Seen \cap faults = {} /\ "deaf" \notin faults /\ "stuck" \notin faults
          /\ "keeps" \in faults => "unplug" \in faults
      BY <1>2, NothingUnseen DEF Going
    <3>2. QED
      BY <1>1, <3>1 DEF Noticed, Heard, Cleared, Kept
  <2>13. QED
    BY <2>7, <2>8, <2>9, <2>10, <2>11, <2>12 DEF IInv
<1>5. QED
  BY <1>1, <1>3, <1>4

LEMMA ConcludeStep ==
  ASSUME IInv, Conclude
  PROVE  IInv'
<1>1. /\ pc = "conclude" /\ UNCHANGED <<args, sent, progress, device>>
      /\ \/ file' = evidence /\ pc' = "exited" /\ NoFault /\ UNCHANGED <<ops, handle, evidence>>
         \/ /\ evidence.status = "PASS"
            /\ Fault("disk") \/ Fault("stdout")
            /\ file' \in {file, evidence} /\ Raise
         \/ /\ evidence.status = "FAIL" /\ Fault("disk")
            /\ pc' = "crashed" /\ UNCHANGED <<ops, handle, evidence, file>>
  BY DEF Conclude
<1>2. /\ pc' \in {"exited", "conclude", "crashed"} /\ file' \in {file, evidence}
      /\ \/ UNCHANGED <<ops, handle, evidence>>
         \/ Raise
      /\ \/ faults' = faults /\ faults' \subseteq FaultKinds
         \/ faults' = faults \cup {"disk"} /\ faults' \subseteq FaultKinds
         \/ faults' = faults \cup {"stdout"} /\ faults' \subseteq FaultKinds
  <2>1. faults \subseteq FaultKinds
    BY DEF IInv, Types, TypeOK
  <2>2. Raise => pc' = "conclude"
    BY DEF Raise, RaiseWith
  <2>3. QED
    BY <1>1, <2>1, <2>2, FaultTyped DEF NoFault
<1>3. /\ evidence \in Document /\ evidence.run = 1 /\ file \in Document
      /\ evidence.status = "PASS" <=> evidence.verdict = "GRANTED"
  BY DEF IInv, Types, TypeOK, Phases
<1>4. /\ evidence' \in Document /\ evidence'.run = 1 /\ handle' \in {0, handle}
      /\ ops' \in {ops, <<>>}
      /\ evidence'.status = "PASS" <=> evidence'.verdict = "GRANTED"
      /\ evidence'.status = "PASS" => evidence' = evidence
  <2>1. CASE UNCHANGED <<ops, handle, evidence>>
    BY <1>3, <2>1
  <2>2. CASE Raise
    <3>1. RaiseWith(evidence)
      BY <2>2 DEF Raise
    <3>2. QED
      BY <1>3, <3>1, Failing
  <2>3. QED
    BY <1>2, <2>1, <2>2
<1>5. /\ Passed' => Passed \/ evidence.status = "PASS"
      /\ Passed' => (file' = file /\ Passed) \/ (file' = evidence /\ evidence.status = "PASS")
  BY <1>2 DEF Passed
<1>6. /\ pc' \notin Working /\ pc' # "work" /\ pc' # "start" /\ pc' # "create" /\ pc' # "unit_done"
      /\ pc' # "unit" /\ pc' # "record"
  BY <1>2 DEF Working
<1>7. Types'
  <2>1. /\ args' \in Runs /\ sent' \in Nat
        /\ device'.out \in Transfers /\ device'.echo \in Seq(Transfers)
        /\ device'.halted \subseteq Endpoints /\ device' \in Device
        /\ progress' \in [units: Nat, bytes: Nat, seconds: Nat]
    BY <1>1 DEF IInv, Types, TypeOK
  <2>2. file' \in Document /\ handle' \in Nat /\ ops' \in Seq(Call)
    <3>1. handle \in Nat /\ ops \in Seq(Call) /\ <<>> \in Seq(Call)
      BY DEF IInv, Types, TypeOK
    <3>2. file' \in Document /\ handle' \in Nat
      BY <1>2, <1>3, <1>4, <3>1
    <3>3. ops' \in Seq(Call)
      BY <1>4, <3>1, Zenon
    <3>4. QED
      BY <3>2, <3>3
  <2>3. faults' \subseteq FaultKinds
    BY <1>2
  <2>4. pc' \in {"start", "create", "work", "unit_done", "record", "unit", "conclude", "exited",
                 "crashed"}
    BY <1>2
  <2>5. QED
    BY <1>4, <2>1, <2>2, <2>3, <2>4 DEF Types, TypeOK
<1>8. Phases'
  <2>1. handle' <= device'.plug
    <3>1. handle \in Nat /\ device \in Device /\ handle <= device.plug /\ device'.plug = device.plug
      BY <1>1 DEF IInv, Types, TypeOK, Phases
    <3>2. 0 <= device.plug
      BY <3>1, DeviceFields
    <3>3. QED
      BY <1>4, <3>1, <3>2
  <2>2. evidence.status = "PASS" \/ Passed => Eligible
    BY DEF IInv, Phases
  <2>3. Eligible' = Eligible
    BY <1>1 DEF Eligible
  <2>4. QED
    BY <1>4, <1>5, <1>6, <2>1, <2>2, <2>3 DEF Phases
<1>9. Counts'
  <2>1. /\ evidence.status = "PASS" => Enough(evidence)
        /\ Passed => Enough(file)
        /\ args.program = "matrix" => progress.units <= Len(Cases)
        /\ args.program = "fs" => progress.bytes <= args.total
    BY DEF IInv, Counts
  <2>2. evidence'.status = "PASS" => Enough(evidence)'
    BY <1>1, <1>4, <2>1 DEF Enough
  <2>3. Passed' => Enough(file)'
    BY <1>1, <1>5, <2>1 DEF Enough
  <2>4. QED
    BY <1>1, <1>6, <2>1, <2>2, <2>3 DEF Counts
<1>10. Draws'
  BY <1>1, DrawsSame DEF IInv
<1>11. Underway'
  BY <1>6 DEF Underway
<1>12. Noticed'
  <2> SUFFICES ASSUME Going' PROVE Seen \cap faults' = {} /\ Heard' /\ Cleared' /\ Kept'
    BY DEF Noticed
  <2>1. Going
    BY <1>4, <1>5, <1>6 DEF Going
  <2>2. /\ Seen \cap faults = {} /\ "deaf" \notin faults /\ "stuck" \notin faults
        /\ "keeps" \in faults => "unplug" \in faults
    BY <1>1, <2>1, NothingUnseen
  <2>3. /\ Seen \cap faults' = {} /\ "deaf" \notin faults' /\ "stuck" \notin faults'
        /\ "keeps" \in faults' => "unplug" \in faults'
    BY <1>2, <2>2 DEF Seen
  <2>4. QED
    BY <2>3 DEF Heard, Cleared, Kept
<1>13. QED
  BY <1>7, <1>8, <1>9, <1>10, <1>11, <1>12 DEF IInv

LEMMA InterruptStep ==
  ASSUME IInv, Interrupt
  PROVE  IInv'
<1>1. /\ Fault("interrupt") /\ pc' = "crashed" /\ ops' = <<>> /\ handle' = 0
      /\ UNCHANGED <<args, sent, progress, evidence, file, device>>
  BY DEF Interrupt
<1>2. faults \subseteq FaultKinds /\ device \in Device /\ Draws
  BY DEF IInv, Types, TypeOK
<1>3. faults' = faults \cup {"interrupt"} /\ faults' \subseteq FaultKinds
  BY <1>1, <1>2, FaultTyped
<1>4. /\ pc' \notin Working /\ pc' # "work" /\ pc' # "start" /\ pc' # "create" /\ pc' # "unit_done"
      /\ pc' # "unit" /\ pc' # "record" /\ Passed' = Passed /\ Eligible' = Eligible
  BY <1>1 DEF Working, Passed, Eligible
<1>5. Types'
  <2>1. /\ args' \in Runs /\ sent' \in Nat
        /\ device'.out \in Transfers /\ device'.echo \in Seq(Transfers)
        /\ device'.halted \subseteq Endpoints /\ device' \in Device
        /\ progress' \in [units: Nat, bytes: Nat, seconds: Nat]
        /\ evidence' \in Document /\ file' \in Document
        /\ (evidence'.status = "PASS" <=> evidence'.verdict = "GRANTED")
    BY <1>1 DEF IInv, Types, TypeOK
  <2>2. ops' \in Seq(Call) /\ handle' \in Nat
    BY <1>1
  <2>3. QED
    BY <1>1, <1>3, <2>1, <2>2 DEF Types, TypeOK
<1>6. Phases'
  <2>1. handle' <= device'.plug
    <3>1. device'.plug \in Nat
      BY <1>1, <1>2, DeviceFields
    <3>2. QED
      BY <1>1, <3>1
  <2>2. QED
    BY <1>1, <1>4, <2>1 DEF IInv, Phases
<1>7. Counts'
  BY <1>1, <1>4 DEF IInv, Counts, Enough
<1>8. Draws'
  BY <1>1, <1>2, DrawsSame
<1>9. Underway'
  BY <1>4 DEF Underway
<1>10. Noticed'
  <2> SUFFICES ASSUME Going' PROVE Seen \cap faults' = {} /\ Heard' /\ Cleared' /\ Kept'
    BY DEF Noticed
  <2>1. evidence.status = "PASS" \/ Passed
    BY <1>1, <1>4 DEF Going
  <2>2. pc # "work" /\ Going
    BY <2>1 DEF Going, IInv, Phases, Working
  <2>3. /\ Seen \cap faults = {} /\ "deaf" \notin faults /\ "stuck" \notin faults
        /\ "keeps" \in faults => "unplug" \in faults
    BY <2>2, NothingUnseen
  <2>4. /\ Seen \cap faults' = {} /\ "deaf" \notin faults' /\ "stuck" \notin faults'
        /\ "keeps" \in faults' => "unplug" \in faults'
    BY <1>3, <2>3 DEF Seen
  <2>5. QED
    BY <2>4 DEF Heard, Cleared, Kept
<1>11. QED
  BY <1>5, <1>6, <1>7, <1>8, <1>9, <1>10 DEF IInv

(* A step of the device: what is left unseen stays to be seen.              *)
LEMMA DeviceStep ==
  ASSUME IInv, UNCHANGED <<args, pc, ops, handle, sent, progress, evidence, file>>,
         device' \in Device, device.plug <= device'.plug, Draws', faults' \subseteq FaultKinds,
         device'.halted = {} \/ device'.halted = device.halted,
         faults' = faults \cup {"unplug"} \/ (faults' = faults /\ device'.echo = device.echo),
         ~Connected' \/ (Connected' = Connected /\ device'.halted = device.halted)
  PROVE  IInv'
<1>1. Types'
  <2>1. /\ device'.out \in Transfers /\ device'.echo \in Seq(Transfers)
        /\ device'.halted \subseteq Endpoints
    BY DeviceFields
  <2>2. QED
    BY <2>1 DEF IInv, Types, TypeOK
<1>2. /\ Passed' = Passed /\ Eligible' = Eligible /\ More' = More
  BY DEF Passed, Eligible, More
<1>3. Phases'
  <2>1. handle' <= device'.plug
    <3>1. handle \in Nat /\ device.plug \in Nat /\ device'.plug \in Nat /\ handle <= device.plug
      BY DeviceFields DEF IInv, Types, TypeOK, Phases
    <3>2. QED
      BY <3>1
  <2>2. QED
    BY <1>2, <2>1 DEF IInv, Phases
<1>4. Counts'
  BY <1>2 DEF IInv, Counts, Enough
<1>5. Underway'
  BY DEF IInv, Underway, Settled
<1>6. Noticed'
  <2> SUFFICES ASSUME Going' PROVE Seen \cap faults' = {} /\ Heard' /\ Cleared' /\ Kept'
    BY DEF Noticed
  <2>1. Seen \cap faults = {} /\ Heard /\ Cleared /\ Kept
    BY <1>2 DEF Going, IInv, Noticed
  <2>2. Seen \cap faults' = {}
    BY <2>1 DEF Seen
  <2>3. Heard'
    BY <2>1 DEF Heard
  <2>4. Cleared'
    BY <2>1 DEF Cleared
  <2>5. Kept'
    BY <2>1 DEF Kept
  <2>6. QED
    BY <2>2, <2>3, <2>4, <2>5
<1>7. QED
  BY <1>1, <1>3, <1>4, <1>5, <1>6 DEF IInv

LEMMA UnplugStep ==
  ASSUME IInv, Unplug
  PROVE  IInv'
<1>1. /\ Fault("unplug")
      /\ device' = [device EXCEPT !.present = FALSE, !.out = NoTransfer, !.echo = <<>>,
                                  !.halted = {}]
      /\ UNCHANGED <<args, pc, ops, handle, sent, progress, evidence, file>>
  BY DEF Unplug
<1>2. device \in Device /\ Draws /\ sent \in Nat /\ faults \subseteq FaultKinds
  BY DEF IInv, Types, TypeOK
<1>3. PICK received : received = device'
  OBVIOUS
<1>4. /\ received \in Device /\ received.plug = device.plug /\ received.halted = {}
      /\ received.out = NoTransfer /\ received.present = FALSE
      /\ received.echo = <<>> \/ received.echo = device.echo
  BY <1>1, <1>2, <1>3, DeviceLeaves
<1>5. /\ device' \in Device /\ device'.plug = device.plug /\ device'.halted = {}
      /\ device'.out = NoTransfer /\ device'.present = FALSE
      /\ device'.echo = <<>> \/ device'.echo = device.echo
  BY <1>3, <1>4
<1>6. device.plug <= device'.plug
  <2>1. device.plug \in Nat
    BY <1>2, DeviceFields
  <2>2. QED
    BY <1>5, <2>1
<1>7. Draws'
  BY <1>1, <1>2, <1>5, DrawsEmptied
<1>8. ~Connected'
  BY <1>5 DEF Connected
<1>9. faults' \subseteq FaultKinds /\ faults' = faults \cup {"unplug"}
  BY <1>1, <1>2, FaultTyped
<1>10. QED
  BY <1>1, <1>5, <1>6, <1>7, <1>8, <1>9, DeviceStep

LEMMA EnumerateStep ==
  ASSUME IInv, Enumerate
  PROVE  IInv'
<1>1. /\ device' = [device EXCEPT !.present = TRUE, !.plug = @ + 1]
      /\ UNCHANGED <<args, pc, ops, handle, sent, progress, evidence, file, faults>>
  BY DEF Enumerate
<1>2. device \in Device /\ Draws /\ sent \in Nat /\ faults \subseteq FaultKinds
      /\ handle \in Nat /\ handle <= device.plug
  BY DEF IInv, Types, TypeOK, Phases
<1>3. PICK d \in Device, p \in Nat \ {0} :
        d = device /\ p = d.plug + 1 /\ handle <= d.plug /\ d.plug \in Nat
  <2>1. PICK d \in Device : d = device
    BY <1>2
  <2>2. d.plug \in Nat
    BY DeviceFields
  <2>3. PICK p \in Nat \ {0} : p = d.plug + 1
    BY <2>2
  <2>4. handle <= d.plug
    BY <1>2, <2>1
  <2>5. QED
    BY <2>1, <2>2, <2>3, <2>4
<1>4. PICK received : received = device'
  OBVIOUS
<1>5. received = [d EXCEPT !.present = TRUE, !.plug = p]
  BY <1>1, <1>3, <1>4
<1>6. /\ received \in Device /\ received.plug = p /\ received.halted = d.halted
      /\ received.out = d.out /\ received.echo = d.echo
  BY <1>3, <1>5 DEF Device
<1>7. /\ device' \in Device /\ device'.plug = p /\ device'.halted = device.halted
      /\ device'.out = device.out /\ device'.echo = device.echo
  BY <1>3, <1>6, <1>4
<1>8. device.plug <= device'.plug /\ handle # p
  <2>1. d.plug <= p /\ handle # p
    BY <1>2, <1>3
  <2>2. QED
    BY <1>3, <1>7, <2>1
<1>9. Draws'
  BY <1>1, <1>2, <1>7, DrawsSame
<1>10. ~Connected'
  BY <1>1, <1>7, <1>8 DEF Connected
<1>11. QED
  BY <1>1, <1>2, <1>7, <1>8, <1>9, <1>10, DeviceStep
-----------------------------------------------------------------------------
LEMMA Initially ==
  ASSUME Init
  PROVE  IInv
<1>1. /\ args \in Runs
      /\ pc = "start" /\ ops = <<>> /\ handle = 0 /\ sent = 0
      /\ progress = [units |-> 0, bytes |-> 0, seconds |-> 0]
      /\ evidence = [run |-> 1, status |-> "RUNNING", verdict |-> "PENDING",
                     units |-> 0, bytes |-> 0, seconds |-> 0]
      /\ file \in [run: {0}, status: {"PASS", "FAIL"}, verdict: {"NOT_QUALIFIED"},
                   units: {0}, bytes: {0}, seconds: {0}]
      /\ faults = {}
  BY DEF Init
<1>2. PICK none, d : none \in Transfers /\ none = NoTransfer /\ d = device
  BY NoTransferTyped
<1>3. d = [present |-> TRUE, plug |-> 1, out |-> none, echo |-> <<>>, halted |-> {}]
  BY <1>2 DEF Init
<1>4. /\ d \in Device /\ d.plug = 1 /\ d.out = none /\ d.echo = <<>> /\ d.halted = {}
  <2>1. <<>> \in Seq(Transfers) /\ {} \in SUBSET Endpoints /\ 1 \in Nat \ {0} /\ TRUE \in BOOLEAN
    OBVIOUS
  <2>2. none \in Transfers
    BY <1>2
  <2>3. QED
    BY <1>3, <2>1, <2>2 DEF Device
<1>5. device \in Device /\ device.plug = 1 /\ device.out = NoTransfer /\ device.echo = <<>>
  BY <1>2, <1>4
<1>6. /\ evidence \in Document /\ evidence.run = 1 /\ evidence.status = "RUNNING"
      /\ evidence.verdict = "PENDING"
  BY <1>1 DEF Document, Status, Verdict
<1>7. file \in Document /\ file.run = 0
  BY <1>1 DEF Document, Status, Verdict
<1>8. progress \in [units: Nat, bytes: Nat, seconds: Nat]
      /\ progress.units = 0 /\ progress.bytes = 0
  BY <1>1
<1>9. Types
  <2>1. /\ device.out \in Transfers /\ device.echo \in Seq(Transfers)
        /\ device.halted \subseteq Endpoints
    BY <1>5, DeviceFields
  <2>2. ops \in Seq(Call) /\ handle \in Nat /\ sent \in Nat /\ faults \subseteq FaultKinds
    BY <1>1
  <2>3. QED
    BY <1>1, <1>5, <1>6, <1>7, <1>8, <2>1, <2>2 DEF Types, TypeOK
<1>10. ~Passed
  BY <1>7 DEF Passed
<1>11. Phases
  BY <1>1, <1>5, <1>6, <1>10 DEF Phases, Working
<1>12. Counts
  <2>1. Len(Cases) \in Nat /\ args.total \in Nat
    BY <1>9, ProgramKnown DEF Types
  <2>2. progress.units <= Len(Cases) /\ progress.bytes <= args.total
    BY <1>8, <2>1
  <2>3. QED
    BY <1>1, <1>6, <1>10, <2>2 DEF Counts
<1>13. Draws
  <2>1. Drawn(device.out, sent)
    BY <1>1, <1>5, NoTransferTyped
  <2>2. Len(<<>>) = 0 /\ \A i \in 1..0 : FALSE
    OBVIOUS
  <2>3. Len(device.echo) = 0
    BY <1>5, <2>2
  <2>4. QED
    BY <2>1, <2>2, <2>3 DEF Draws
<1>14. Underway /\ Noticed
  BY <1>1 DEF Underway, Noticed, Heard, Cleared, Kept
<1>15. QED
  BY <1>9, <1>11, <1>12, <1>13, <1>14 DEF IInv

LEMMA NextStep ==
  ASSUME IInv, [Next]_vars
  PROVE  IInv'
<1>1. CASE UNCHANGED vars
  <2>1. /\ args' = args /\ pc' = pc /\ ops' = ops /\ handle' = handle /\ sent' = sent
        /\ progress' = progress /\ evidence' = evidence /\ file' = file /\ device' = device
        /\ faults' = faults
    BY <1>1 DEF vars
  <2>2. Types'
    BY <2>1 DEF IInv, Types, TypeOK
  <2>3. device' \in Device /\ faults' \subseteq FaultKinds
    BY <2>2 DEF Types, TypeOK
  <2>4. device.plug <= device'.plug
    <3>1. device.plug \in Nat
      BY DeviceFields DEF IInv, Types
    <3>2. QED
      BY <2>1, <3>1
  <2>5. Draws'
    BY <2>1, DrawsSame DEF IInv
  <2>6. device'.halted = device.halted /\ device'.echo = device.echo /\ Connected' = Connected
    BY <2>1 DEF Connected
  <2>7. QED
    BY <2>1, <2>3, <2>4, <2>5, <2>6, DeviceStep
<1>2. CASE Runner
  <2>1. CASE Libusb
    BY <2>1, TransferOutStep, TerminateOutStep, TransferInStep, ResetDeviceStep, OpenStep,
       DescriptorsStep, EndpointHaltedStep, SetEndpointHaltStep, ExpectStallStep, ClearHaltStep
       DEF Libusb
  <2>2. QED
    BY <1>2, <2>1, StartStep, CreateStep, EnterStep, OpenedStep, UnitDoneStep, RecordStep, UnitStep,
       ConcludeStep DEF Runner
<1>3. CASE Interrupt \/ Unplug \/ Enumerate
  BY <1>3, InterruptStep, UnplugStep, EnumerateStep
<1>4. QED
  BY <1>1, <1>2, <1>3 DEF Next

LEMMA Invariant == Spec => []IInv
BY Initially, NextStep, PTL DEF Spec

(* The types of UsbHil hold in every run of run_usb_hil.py, and the verdict *)
(* GRANTED is there exactly with the status PASS.                           *)
THEOREM TypeCorrect == Spec => []TypeOK
<1>1. IInv => TypeOK
  BY DEF IInv, Types
<1>2. QED
  BY <1>1, Invariant, PTL

LEMMA Verified ==
  ASSUME IInv
  PROVE  PassMeansVerified
<1> SUFFICES ASSUME Passed
             PROVE  /\ Enough(file)
                    /\ faults \cap {"metadata", "timeout", "corrupt", "descriptors", "deaf",
                                    "stuck"} = {}
                    /\ "keeps" \in faults => "unplug" \in faults
  BY DEF PassMeansVerified, Enough
<1>1. Enough(file)
  BY DEF IInv, Counts
<1>2. pc # "work" /\ Going
  BY DEF IInv, Phases, Going, Working
<1>3. QED
  BY <1>1, <1>2, NothingUnseen DEF Seen

(* A PASS in the file stands on work that was done: every case, both        *)
(* thresholds or every byte; and on a device that did it: whatever the      *)
(* device may do between any two libusb calls, an echo that is corrupt or   *)
(* was kept over a reset is never taken for the payload, and an endpoint    *)
(* that ignored SET_FEATURE or CLEAR_FEATURE never goes unnoticed.          *)
THEOREM PassVerified == Spec => []PassMeansVerified
BY Verified, Invariant, PTL
=============================================================================
