--------------------------- MODULE DirectChatProofs ---------------------------
(***************************************************************************)
(* What DirectChat promises, for any number of messages, failed calls and  *)
(* retries.                                                                *)
(*                                                                         *)
(* The proofs share one account of the steps.  Step says, user by user,    *)
(* what a step may do to a copy and to what is on its way; each action is  *)
(* shown once to be such a step (NextSteps), and what follows is proved of *)
(* Step alone.  Four invariants are built on each other:                   *)
(*   - LossInv: a message that is not confirmed is cared for, and one that *)
(*     no longer is has arrived;                                           *)
(*   - OrderInv: the messages of a batch follow those sent before it,      *)
(*     unless these have arrived;                                          *)
(*   - ReadInv: batches, unread messages and read receipts name messages   *)
(*     by indexes that are right in the other copy;                        *)
(*   - QuietInv: what a user edited, deleted, undeleted or read, the other *)
(*     user knows, or there is a call that will tell it - or it is         *)
(*     missed.  For deletes that is a matter of the order of the calls: a  *)
(*     delete that was rejected is repeated behind the undelete that was   *)
(*     made after it, which then finds nothing to undelete (Hopeless).     *)
(*     This one needs to know more of a step (Tells): which call it makes, *)
(*     handles, rejects or repeats, and what it changes with it.           *)
(* The functions with which the model takes in a batch and confirms one    *)
(* are defined from their previous value; that such a function exists is   *)
(* proved first (RecursionExists).                                         *)
(***************************************************************************)
EXTENDS DirectChat, WellFoundedInduction, FiniteSetTheorems, SequenceTheorems, TLAPS

-----------------------------------------------------------------------------
(* Recursion over the numbers up to n *)

\* Induction, for a set of numbers.
LEMMA Induction ==
    ASSUME NEW n \in Nat, NEW S, 0 \in S, \A k \in 0 .. n - 1 : k \in S => k + 1 \in S
    PROVE  0 .. n \subseteq S
<1> DEFINE R == {ss \in Nat \X Nat : ss[1] < ss[2]}
           T == (0 .. n) \ S
<1> SUFFICES ASSUME T # {} PROVE FALSE
  OBVIOUS
<1>1. R = OpToRel(<, Nat)
  BY Zenon DEF OpToRel
<1>2. IsWellFoundedOn(R, Nat)
  BY <1>1, NatLessThanWellFounded
<1>3. PICK m \in T : \A k \in T : ~(<<k, m>> \in R)
  <2>1. T \subseteq Nat
    OBVIOUS
  <2> HIDE DEF R, T
  <2> QED BY <1>2, <2>1, WFMin
<1>4. m # 0 /\ m - 1 \in 0 .. n - 1
  BY <1>3
<1>5. m - 1 \in S
  <2>1. <<m - 1, m>> \in Nat \X Nat /\ m - 1 < m
    BY <1>4
  <2> QED BY <1>3, <1>4, <2>1
<1> QED BY <1>3, <1>4, <1>5

\* A function that is defined from the previous value is there.
Follows(f, n, base, step) ==
    f[0] = base /\ \A k \in 1 .. n : f[k] = step[<<f[k - 1], k>>]
LEMMA RecursionExists ==
    ASSUME NEW n \in Nat, NEW S, NEW base \in S, NEW step \in [S \X (1 .. n) -> S]
    PROVE  \E f \in [0 .. n -> S] : Follows(f, n, base, step)
<1> DEFINE Upto(k, f) == f[0] = base /\ \A i \in 1 .. k : f[i] = step[<<f[i - 1], i>>]
           D == {k \in 0 .. n : \E f \in [0 .. k -> S] : Upto(k, f)}
<1>1. 0 \in D
  <2> DEFINE f == [i \in 0 .. 0 |-> base]
  <2>1. f \in [0 .. 0 -> S] /\ Upto(0, f)
    OBVIOUS
  <2> HIDE DEF f, Upto
  <2> QED BY <2>1
<1>2. ASSUME NEW k \in 0 .. n - 1, k \in D PROVE k + 1 \in D
  <2>1. PICK f \in [0 .. k -> S] : Upto(k, f)
    BY <1>2
  <2> DEFINE g == [i \in 0 .. k + 1 |-> IF i = k + 1 THEN step[<<f[k], k + 1>>] ELSE f[i]]
  <2>2. f[k] \in S /\ k + 1 \in 1 .. n /\ step[<<f[k], k + 1>>] \in S
    OBVIOUS
  <2>3. g \in [0 .. k + 1 -> S]
    BY <2>2
  <2>4. g[0] = base
    BY <2>1
  <2>5. ASSUME NEW i \in 1 .. k + 1 PROVE g[i] = step[<<g[i - 1], i>>]
    <3>1. CASE i = k + 1
      <4>1. i - 1 = k /\ k \in 0 .. k + 1 /\ k # k + 1 /\ i \in 0 .. k + 1
        BY <3>1
      <4>2. g[i] = step[<<f[k], k + 1>>] /\ g[i - 1] = f[k]
        BY <3>1, <4>1
      <4> QED BY <3>1, <4>1, <4>2
    <3>2. CASE i # k + 1
      <4>1. i \in 1 .. k /\ i - 1 \in 0 .. k /\ g[i] = f[i] /\ g[i - 1] = f[i - 1]
        BY <3>2
      <4> QED BY <2>1, <4>1
    <3> QED BY <3>1, <3>2
  <2>6. Upto(k + 1, g)
    BY <2>4, <2>5
  <2> HIDE DEF Upto, g
  <2> QED BY <2>3, <2>6
<1>3. n \in D
  <2> HIDE DEF D
  <2> QED BY <1>1, <1>2, Induction
<1> QED BY <1>3 DEF Follows

-----------------------------------------------------------------------------
(* Copies of a chat *)

\* What a copy is made of.
Messages == Users \X (Nat \ {0})
Args == [message : Messages, index : Nat]
Contents == [version : Nat, deleted_by : SUBSET Users, destroyed : BOOLEAN]
Tables == UNION {[D -> Contents] : D \in SUBSET Messages}
Copies == [log : Seq(Messages), content : Tables,
           unread : SUBSET [ours : Nat, theirs : Nat], unconfirmed : Seq(Args),
           read_by_me : Nat, read_by_them : Nat]

\* No message is there twice.
Distinct(log) == \A i, j \in DOMAIN log : log[i] = log[j] => i = j

\* What is always so of a copy.
Sound(chat) ==
    /\ chat \in Copies /\ Distinct(chat.log)
    /\ DOMAIN chat.content = ToSet(chat.log)
    /\ IsFiniteSet(chat.unread)
    /\ chat.read_by_me <= Len(chat.log) /\ chat.read_by_them <= Len(chat.log)

\* Nothing of a copy's log is lost.
Extends(old, new) ==
    /\ Len(old.log) <= Len(new.log)
    /\ \A i \in 1 .. Len(old.log) : new.log[i] = old.log[i]

\* The fields of a copy.
LEMMA CopyIs ==
    ASSUME NEW chat \in Copies
    PROVE  /\ chat.log \in Seq(Messages) /\ Len(chat.log) \in Nat
           /\ DOMAIN chat.log = 1 .. Len(chat.log)
           /\ \A i \in 1 .. Len(chat.log) : chat.log[i] \in Messages
           /\ chat.unconfirmed \in Seq(Args)
           /\ chat.content \in [DOMAIN chat.content -> Contents]
           /\ DOMAIN chat.content \subseteq Messages
           /\ chat.unread \subseteq [ours : Nat, theirs : Nat]
           /\ chat.read_by_me \in Nat /\ chat.read_by_them \in Nat
<1>1. /\ chat.log \in Seq(Messages) /\ chat.unconfirmed \in Seq(Args)
      /\ chat.content \in UNION {[D -> Contents] : D \in SUBSET Messages}
      /\ chat.unread \subseteq [ours : Nat, theirs : Nat]
      /\ chat.read_by_me \in Nat /\ chat.read_by_them \in Nat
  BY DEF Copies, Tables
<1>2. PICK D \in SUBSET Messages : chat.content \in [D -> Contents]
  BY <1>1
<1> QED BY <1>1, <1>2

\* Reading up to a message.
LEMMA ReadUpToIs ==
    ASSUME NEW current \in Nat, NEW index \in Nat, NEW latest \in Nat
    PROVE  /\ ReadUpTo(current, index, latest) \in Nat
           /\ ReadUpTo(current, index, latest) >= current
           /\ index <= latest => ReadUpTo(current, index, latest) >= index
           /\ index <= current => ReadUpTo(current, index, latest) = current
           /\ ReadUpTo(current, index, latest) \in {current, index, latest}
           /\ current <= latest => ReadUpTo(current, index, latest) <= latest
           /\ current < index /\ index <= latest => ReadUpTo(current, index, latest) = index
           /\ \A i \in Nat : i <= index /\ i <= latest => ReadUpTo(current, index, latest) >= i
<1> DEFINE S == {index, latest}
           n == Min(S)
           T == {current, n}
<1>1. n \in S /\ n <= index /\ n <= latest
  <2>1. \E x \in S : \A y \in S : x <= y
    <3>1. CASE index <= latest
      BY <3>1
    <3>2. CASE latest <= index
      BY <3>2
    <3> QED BY <3>1, <3>2
  <2> QED BY <2>1 DEF Min
<1> HIDE DEF n
<1>2. n \in Nat
  BY <1>1
<1>3. Max(T) \in T /\ Max(T) >= current /\ Max(T) >= n
  <2>1. \E x \in T : \A y \in T : x >= y
    <3>1. CASE current >= n
      BY <1>2, <3>1
    <3>2. CASE n >= current
      BY <1>2, <3>2
    <3> QED BY <1>2, <3>1, <3>2
  <2> QED BY <2>1 DEF Max
<1>4. ReadUpTo(current, index, latest) = Max(T)
  BY DEF ReadUpTo, n
<1> HIDE DEF T
<1>5. Max(T) \in {current, n}
  BY <1>3 DEF T
<1> QED BY <1>1, <1>2, <1>3, <1>4, <1>5

\* A message is pushed.
LEMMA PushedIs ==
    ASSUME NEW chat, Sound(chat), NEW m \in Messages, ~Has(chat, m)
    PROVE  /\ Pushed(chat, m) \in Copies
           /\ Pushed(chat, m).log = Append(chat.log, m)
           /\ Pushed(chat, m).unconfirmed = chat.unconfirmed
           /\ Pushed(chat, m).unread = chat.unread
           /\ Pushed(chat, m).read_by_me = chat.read_by_me
           /\ Pushed(chat, m).read_by_them = chat.read_by_them
           /\ Distinct(Pushed(chat, m).log)
           /\ DOMAIN Pushed(chat, m).content = ToSet(chat.log) \cup {m}
           /\ ToSet(Pushed(chat, m).log) = ToSet(chat.log) \cup {m}
           /\ Pushed(chat, m).content[m] = Original
           /\ \A x \in ToSet(chat.log) : Pushed(chat, m).content[x] = chat.content[x]
<1> DEFINE d == Pushed(chat, m)
           n == Len(chat.log)
           content == [x \in DOMAIN chat.content \cup {m} |->
                          IF x = m THEN Original ELSE chat.content[x]]
<1>1. chat \in Copies /\ chat.log \in Seq(Messages) /\ n \in Nat /\ DOMAIN chat.log = 1 .. n
  BY CopyIs DEF Sound
<1>2. content \in [DOMAIN chat.content \cup {m} -> Contents]
  BY <1>1, CopyIs DEF Original, Contents
<1>3. content \in Tables
  <2>1. DOMAIN chat.content \cup {m} \in SUBSET Messages
    BY <1>1, CopyIs
  <2> HIDE DEF content
  <2> QED BY <1>2, <2>1 DEF Tables
<1>4. d = [chat EXCEPT !.log = Append(@, m), !.content = content]
  BY DEF Pushed
<1>5. d.content = content /\ d.log = Append(chat.log, m)
      /\ d.unconfirmed = chat.unconfirmed /\ d.unread = chat.unread
      /\ d.read_by_me = chat.read_by_me /\ d.read_by_them = chat.read_by_them
  BY <1>1, <1>4 DEF Copies
<1>6. d \in Copies
  <2>1. Append(chat.log, m) \in Seq(Messages)
    BY <1>1
  <2> HIDE DEF content
  <2> QED BY <1>1, <1>3, <1>4, <2>1 DEF Copies
<1>7. m \notin ToSet(chat.log) /\ DOMAIN chat.content = ToSet(chat.log)
  BY DEF Has, Sound
<1> HIDE DEF d
<1>8. /\ Len(d.log) = n + 1 /\ DOMAIN d.log = 1 .. n + 1 /\ d.log[n + 1] = m
      /\ \A i \in 1 .. n : d.log[i] = chat.log[i]
  BY <1>1, <1>5
<1>9. Distinct(d.log)
  <2> SUFFICES ASSUME NEW i \in 1 .. n + 1, NEW j \in 1 .. n + 1, d.log[i] = d.log[j]
               PROVE  i = j
    BY <1>8 DEF Distinct
  <2>1. \A p \in 1 .. n + 1 : p # n + 1 => p \in 1 .. n
    BY <1>1
  <2>2. \A p \in 1 .. n : d.log[p] = chat.log[p] /\ d.log[p] # m
    BY <1>1, <1>7, <1>8 DEF ToSet
  <2>3. CASE i = n + 1 \/ j = n + 1
    BY <1>8, <2>1, <2>2, <2>3
  <2>4. CASE i # n + 1 /\ j # n + 1
    <3>1. /\ i \in DOMAIN chat.log /\ j \in DOMAIN chat.log
          /\ chat.log[i] = chat.log[j]
      BY <1>1, <2>1, <2>2, <2>4
    <3> QED BY <3>1 DEF Sound, Distinct
  <2> QED BY <2>3, <2>4
<1>10. ToSet(d.log) = ToSet(chat.log) \cup {m}
  <2>1. ToSet(chat.log) \cup {m} \subseteq ToSet(d.log)
    BY <1>1, <1>8 DEF ToSet
  <2>2. ToSet(d.log) \subseteq ToSet(chat.log) \cup {m}
    <3> SUFFICES ASSUME NEW i \in 1 .. n + 1 PROVE d.log[i] \in ToSet(chat.log) \cup {m}
      BY <1>8 DEF ToSet
    <3>1. CASE i = n + 1
      BY <1>8, <3>1
    <3>2. CASE i # n + 1
      <4>1. i \in 1 .. n
        BY <1>1, <3>2
      <4>2. d.log[i] = chat.log[i] /\ i \in DOMAIN chat.log
        BY <1>1, <1>8, <4>1
      <4> QED BY <4>2 DEF ToSet
    <3> QED BY <3>1, <3>2
  <2> QED BY <2>1, <2>2
<1>11. d.content[m] = Original /\ \A x \in ToSet(chat.log) : d.content[x] = chat.content[x]
  BY <1>5, <1>7
<1>12. DOMAIN d.content = ToSet(chat.log) \cup {m}
  BY <1>5, <1>7
<1> QED BY <1>5, <1>6, <1>9, <1>10, <1>11, <1>12 DEF d

\* A message from the other user is pushed.
LEMMA PushedByThemIs ==
    ASSUME NEW chat, Sound(chat), NEW arg \in Args, ~Has(chat, arg.message)
    PROVE  /\ Sound(PushedByThem(chat, arg))
           /\ PushedByThem(chat, arg).log = Append(chat.log, arg.message)
           /\ PushedByThem(chat, arg).unconfirmed = chat.unconfirmed
           /\ PushedByThem(chat, arg).read_by_me = chat.read_by_me
           /\ PushedByThem(chat, arg).read_by_them = Len(chat.log) + 1
           /\ PushedByThem(chat, arg).unread
                = chat.unread \cup {[ours |-> Len(chat.log) + 1, theirs |-> arg.index]}
           /\ PushedByThem(chat, arg).content[arg.message] = Original
           /\ \A x \in ToSet(chat.log) :
                 PushedByThem(chat, arg).content[x] = chat.content[x]
<1> DEFINE m == arg.message
           n == Len(chat.log)
           c == Pushed(chat, m)
           r == ReadByThem(c, n + 1)
           e == [ours |-> n + 1, theirs |-> arg.index]
           d == PushedByThem(chat, arg)
<1>1. m \in Messages /\ arg.index \in Nat
  BY DEF Args
<1>2. /\ chat \in Copies /\ chat.log \in Seq(Messages) /\ n \in Nat
      /\ chat.read_by_me <= n /\ chat.read_by_them <= n
      /\ chat.read_by_me \in Nat /\ chat.read_by_them \in Nat
      /\ chat.unread \subseteq [ours : Nat, theirs : Nat]
      /\ IsFiniteSet(chat.unread)
  BY CopyIs DEF Sound
<1>0. ~Has(chat, m)
  OBVIOUS
<1> HIDE DEF m
<1>3. /\ c \in Copies /\ c.log = Append(chat.log, m)
      /\ c.unconfirmed = chat.unconfirmed /\ c.unread = chat.unread
      /\ c.read_by_me = chat.read_by_me /\ c.read_by_them = chat.read_by_them
      /\ Distinct(c.log) /\ DOMAIN c.content = ToSet(c.log)
      /\ c.content[m] = Original
      /\ \A x \in ToSet(chat.log) : c.content[x] = chat.content[x]
  <2>1. /\ c \in Copies /\ c.log = Append(chat.log, m)
        /\ c.unconfirmed = chat.unconfirmed /\ c.unread = chat.unread
        /\ c.read_by_me = chat.read_by_me /\ c.read_by_them = chat.read_by_them
    BY <1>0, <1>1, PushedIs
  <2>2. Distinct(c.log) /\ DOMAIN c.content = ToSet(chat.log) \cup {m}
    BY <1>0, <1>1, PushedIs
  <2>3. ToSet(c.log) = ToSet(chat.log) \cup {m} /\ c.content[m] = Original
    BY <1>0, <1>1, PushedIs
  <2>4. \A x \in ToSet(chat.log) : c.content[x] = chat.content[x]
    BY <1>0, <1>1, PushedIs
  <2> QED BY <2>1, <2>2, <2>3, <2>4
<1> HIDE DEF c
<1>4. Len(c.log) = n + 1
  BY <1>2, <1>3
<1>5. ReadUpTo(c.read_by_them, n + 1, Len(c.log)) = n + 1
  <2> DEFINE b == chat.read_by_them
             k == n + 1
  <2>1. b \in Nat /\ k \in Nat /\ b <= k
    BY <1>2
  <2> HIDE DEF b, k
  <2>2. ReadUpTo(b, k, k) >= k /\ ReadUpTo(b, k, k) \in {b, k}
    BY <2>1, ReadUpToIs
  <2>3. ReadUpTo(b, k, k) = k
    BY <2>1, <2>2
  <2> QED BY <1>3, <1>4, <2>3 DEF b, k
<1>6. r = [c EXCEPT !.read_by_them = n + 1]
  BY <1>5 DEF ReadByThem
<1>7. /\ r \in Copies /\ r.log = c.log /\ r.unconfirmed = c.unconfirmed /\ r.unread = c.unread
      /\ r.read_by_me = c.read_by_me /\ r.read_by_them = n + 1 /\ r.content = c.content
  <2>1. n + 1 \in Nat
    BY <1>2
  <2>2. c \in Copies
    BY <1>3
  <2>3. r \in Copies
    BY <1>6, <2>1, <2>2 DEF Copies
  <2> QED BY <1>6, <2>2, <2>3 DEF Copies
<1>8. d = [r EXCEPT !.unread = @ \cup {e}]
  BY DEF PushedByThem, c, m
<1> HIDE DEF r
<1>9. e \in [ours : Nat, theirs : Nat]
  BY <1>1, <1>2
<1> HIDE DEF e, d
<1>10. /\ d \in Copies /\ d.log = c.log /\ d.unconfirmed = c.unconfirmed
       /\ d.unread = c.unread \cup {e}
       /\ d.read_by_me = c.read_by_me /\ d.read_by_them = n + 1 /\ d.content = c.content
  <2>1. r.unread \cup {e} \in SUBSET [ours : Nat, theirs : Nat]
    BY <1>2, <1>3, <1>7, <1>9
  <2> QED BY <1>7, <1>8, <2>1 DEF Copies
<1>11. Sound(d)
  <2>1. d.read_by_me <= Len(d.log) /\ d.read_by_them <= Len(d.log)
    BY <1>2, <1>3, <1>4, <1>10
  <2>2. IsFiniteSet(chat.unread \cup {e})
    BY <1>2, FS_AddElement
  <2>3. IsFiniteSet(d.unread)
    BY <1>3, <1>10, <2>2
  <2> QED BY <1>3, <1>10, <2>1, <2>3 DEF Sound
<1> QED BY <1>3, <1>10, <1>11 DEF d, e, m

\* Each value of Receiving comes from the one before.
LEMMA ReceivingIs ==
    ASSUME NEW chat, Sound(chat), NEW args \in Seq(Args)
    PROVE  /\ Receiving(chat, args)[0] = chat
           /\ \A k \in 1 .. Len(args) :
                 Receiving(chat, args)[k] = Received(Receiving(chat, args)[k - 1], args[k])
<1> DEFINE n == Len(args)
           S == {c \in Copies : Sound(c)}
           step == [z \in S \X (1 .. n) |-> Received(z[1], args[z[2]])]
           Next_(g) == [k \in 0 .. n |-> IF k = 0 THEN chat ELSE Received(g[k - 1], args[k])]
<1>1. n \in Nat /\ \A k \in 1 .. n : args[k] \in Args
  OBVIOUS
<1>2. chat \in S
  BY DEF Sound
<1>3. step \in [S \X (1 .. n) -> S]
  <2> SUFFICES ASSUME NEW c \in S, NEW k \in 1 .. n PROVE Received(c, args[k]) \in S
    OBVIOUS
  <2>1. CASE Has(c, args[k].message)
    BY <2>1 DEF Received
  <2>2. CASE ~Has(c, args[k].message)
    <3>1. Sound(PushedByThem(c, args[k]))
      BY <1>1, <2>2, PushedByThemIs
    <3> QED BY <2>2, <3>1 DEF Received, Sound
  <2> QED BY <2>1, <2>2
<1> HIDE DEF S
<1>4. PICK f \in [0 .. n -> S] : Follows(f, n, chat, step)
  <2> HIDE DEF step, n
  <2> QED BY <1>1, <1>2, <1>3, RecursionExists
<1>5. f = Next_(f)
  <2>1. ASSUME NEW k \in 1 .. n PROVE f[k] = Received(f[k - 1], args[k])
    <3>1. <<f[k - 1], k>> \in S \X (1 .. n)
      BY <1>1
    <3> QED BY <1>4, <3>1 DEF Follows
  <2> HIDE DEF step
  <2> QED BY <1>1, <1>4, <2>1 DEF Follows
<1>6. Receiving(chat, args) = CHOOSE g : g = Next_(g)
  BY DEF Receiving
<1>7. Receiving(chat, args) = Next_(Receiving(chat, args))
  <2> HIDE DEF Next_
  <2> QED BY <1>5, <1>6
<1> HIDE DEF step
<1> QED BY <1>1, <1>7

\* The p-th message of copy d came with the first k of args: those before it in
\* args are before it in the copy.
CameWith(args, k, d, p) ==
    \E j \in 1 .. k :
        /\ d.log[p] = args[j].message
        /\ \A i \in 1 .. j - 1 : \E q \in 1 .. p - 1 : d.log[q] = args[i].message
        /\ [ours |-> p, theirs |-> args[j].index] \in d.unread
        /\ d.content[d.log[p]] = Original

\* What copy chat has become with the first k of args.
Taken(chat, args, k, d) ==
    /\ Sound(d) /\ Extends(chat, d)
    /\ d.unconfirmed = chat.unconfirmed /\ d.read_by_me = chat.read_by_me
    /\ \A i \in 1 .. k : Has(d, args[i].message)
    /\ \A p \in Len(chat.log) + 1 .. Len(d.log) : CameWith(args, k, d, p)
    /\ chat.unread \subseteq d.unread
    /\ \A e \in d.unread \ chat.unread :
          \E j \in 1 .. k : /\ e.theirs = args[j].index
                            /\ e.ours \in 1 .. Len(d.log) /\ d.log[e.ours] = args[j].message
    /\ d.read_by_them = IF Len(d.log) = Len(chat.log) THEN chat.read_by_them ELSE Len(d.log)
    /\ \A x \in ToSet(chat.log) : d.content[x] = chat.content[x]

\* One more message is taken.
LEMMA TakenOneMore ==
    ASSUME NEW chat, Sound(chat), NEW args \in Seq(Args), NEW k \in 1 .. Len(args),
           NEW c, Taken(chat, args, k - 1, c)
    PROVE  Taken(chat, args, k, Received(c, args[k]))
<1> DEFINE arg == args[k]
           m == arg.message
           d == PushedByThem(c, arg)
           n == Len(c.log)
<1>1. k \in Nat \ {0} /\ \A j \in 1 .. k - 1 : j \in 1 .. k
  OBVIOUS
<1>2. arg \in Args
  OBVIOUS
<1>3. CASE Has(c, m)
  <2>1. \A i \in 1 .. k : Has(c, args[i].message)
    <3> SUFFICES ASSUME NEW i \in 1 .. k PROVE Has(c, args[i].message)
      OBVIOUS
    <3>1. i = k \/ i \in 1 .. k - 1
      BY <1>1
    <3> QED BY <1>3, <3>1 DEF Taken
  <2>2. \A p \in Len(chat.log) + 1 .. Len(c.log) : CameWith(args, k, c, p)
    BY <1>1 DEF Taken, CameWith
  <2>3. \A e \in c.unread \ chat.unread :
          \E j \in 1 .. k : /\ e.theirs = args[j].index
                            /\ e.ours \in 1 .. Len(c.log) /\ c.log[e.ours] = args[j].message
    BY <1>1 DEF Taken
  <2>4. Taken(chat, args, k, c)
    BY <2>1, <2>2, <2>3 DEF Taken
  <2> QED BY <1>3, <2>4 DEF Received
<1>4. CASE ~Has(c, m)
  <2>1. Sound(c) /\ chat \in Copies /\ c \in Copies
    BY DEF Taken, Sound
  <2>2. /\ Sound(d) /\ d.log = Append(c.log, m)
        /\ d.unconfirmed = c.unconfirmed /\ d.read_by_me = c.read_by_me
        /\ d.read_by_them = n + 1
        /\ d.unread = c.unread \cup {[ours |-> n + 1, theirs |-> arg.index]}
        /\ d.content[m] = Original
        /\ \A x \in ToSet(c.log) : d.content[x] = c.content[x]
    BY <1>2, <1>4, <2>1, PushedByThemIs
  <2>3. /\ c.log \in Seq(Messages) /\ n \in Nat /\ DOMAIN c.log = 1 .. n
        /\ Len(chat.log) \in Nat
        /\ chat.log \in Seq(Messages) /\ DOMAIN chat.log = 1 .. Len(chat.log)
    BY <2>1, CopyIs
  <2> HIDE DEF d
  <2>4. /\ Len(d.log) = n + 1 /\ DOMAIN d.log = 1 .. n + 1 /\ d.log[n + 1] = m
        /\ \A i \in 1 .. n : d.log[i] = c.log[i]
    BY <1>2, <2>2, <2>3 DEF Args
  <2> HIDE DEF n
  <2>5. Len(chat.log) <= n /\ \A i \in 1 .. Len(chat.log) : c.log[i] = chat.log[i]
    BY <2>3 DEF Taken, Extends, n
  <2>6. Extends(chat, d)
    <3>1. Len(chat.log) <= Len(d.log)
      BY <2>3, <2>4, <2>5
    <3>2. \A i \in 1 .. Len(chat.log) : i \in 1 .. n
      BY <2>3, <2>5
    <3> QED BY <2>4, <2>5, <3>1, <3>2 DEF Extends
  <2>7. \A x : Has(c, x) => \E q \in 1 .. n : d.log[q] = x
    BY <2>3, <2>4 DEF Has, ToSet
  <2>8. \A i \in 1 .. k : Has(d, args[i].message)
    <3> SUFFICES ASSUME NEW i \in 1 .. k PROVE Has(d, args[i].message)
      OBVIOUS
    <3>1. CASE i = k
      <4>1. d.log[n + 1] = args[i].message /\ n + 1 \in DOMAIN d.log
        BY <2>3, <2>4, <3>1
      <4> QED BY <4>1 DEF Has, ToSet
    <3>2. CASE i # k
      <4>1. i \in 1 .. k - 1
        BY <1>1, <3>2
      <4>2. \E q \in 1 .. n : d.log[q] = args[i].message
        BY <2>7, <4>1 DEF Taken
      <4>3. \A q \in 1 .. n : q \in DOMAIN d.log
        BY <2>3, <2>4
      <4> QED BY <4>2, <4>3 DEF Has, ToSet
    <3> QED BY <3>1, <3>2
  <2>9. ASSUME NEW p \in Len(chat.log) + 1 .. Len(d.log)
        PROVE  CameWith(args, k, d, p)
    <3>1. CASE p = n + 1
      <4>1. ASSUME NEW i \in 1 .. k - 1 PROVE \E q \in 1 .. p - 1 : d.log[q] = args[i].message
        <5>1. Has(c, args[i].message)
          BY DEF Taken
        <5>2. p - 1 = n
          BY <2>3, <3>1
        <5> QED BY <2>7, <5>1, <5>2
      <4>2. /\ d.log[p] = args[k].message
            /\ [ours |-> p, theirs |-> args[k].index] \in d.unread
            /\ d.content[d.log[p]] = Original
        BY <2>2, <2>4, <3>1 DEF n
      <4> QED BY <1>1, <4>1, <4>2 DEF CameWith
    <3>2. CASE p # n + 1
      <4>1. p \in Len(chat.log) + 1 .. n /\ p \in 1 .. n /\ \A q \in 1 .. p - 1 : q \in 1 .. n
        BY <2>3, <2>4, <3>2
      <4>2. CameWith(args, k - 1, c, p)
        BY <4>1 DEF Taken, n
      <4>3. PICK j \in 1 .. k - 1 :
                /\ c.log[p] = args[j].message
                /\ \A i \in 1 .. j - 1 : \E q \in 1 .. p - 1 : c.log[q] = args[i].message
                /\ [ours |-> p, theirs |-> args[j].index] \in c.unread
                /\ c.content[c.log[p]] = Original
        BY <4>2 DEF CameWith
      <4>4. d.log[p] = c.log[p] /\ c.log[p] \in ToSet(c.log)
        BY <2>3, <2>4, <4>1 DEF ToSet
      <4>5. d.content[d.log[p]] = Original
        BY <2>2, <4>3, <4>4
      <4>6. \A i \in 1 .. j - 1 : \E q \in 1 .. p - 1 : d.log[q] = args[i].message
        BY <2>4, <4>1, <4>3
      <4> QED BY <1>1, <2>2, <4>3, <4>4, <4>5, <4>6 DEF CameWith
    <3> QED BY <3>1, <3>2
  <2>10. ASSUME NEW e \in d.unread \ chat.unread
         PROVE  \E j \in 1 .. k : /\ e.theirs = args[j].index
                                  /\ e.ours \in 1 .. Len(d.log) /\ d.log[e.ours] = args[j].message
    <3>1. CASE e \in c.unread
      <4>1. PICK j \in 1 .. k - 1 : /\ e.theirs = args[j].index
                                    /\ e.ours \in 1 .. n /\ c.log[e.ours] = args[j].message
        BY <3>1 DEF Taken, n
      <4>2. e.ours \in 1 .. Len(d.log) /\ d.log[e.ours] = args[j].message
        BY <2>3, <2>4, <4>1
      <4> QED BY <1>1, <4>1, <4>2
    <3>2. CASE e \notin c.unread
      <4>1. e = [ours |-> n + 1, theirs |-> arg.index]
        BY <2>2, <3>2 DEF n
      <4>2. e.theirs = args[k].index /\ e.ours = n + 1 /\ n + 1 \in 1 .. Len(d.log)
        BY <2>3, <2>4, <4>1
      <4> QED BY <1>1, <2>4, <4>2
    <3> QED BY <3>1, <3>2
  <2>11. d.read_by_them = IF Len(d.log) = Len(chat.log) THEN chat.read_by_them ELSE Len(d.log)
    BY <2>2, <2>3, <2>4, <2>5 DEF n
  <2>12. \A x \in ToSet(chat.log) : d.content[x] = chat.content[x]
    <3> SUFFICES ASSUME NEW x \in ToSet(chat.log) PROVE d.content[x] = chat.content[x]
      OBVIOUS
    <3>1. PICK i \in 1 .. Len(chat.log) : chat.log[i] = x
      BY <2>3 DEF ToSet
    <3>2. i \in 1 .. n /\ c.log[i] = x
      BY <2>3, <2>5, <3>1
    <3>3. x \in ToSet(c.log)
      BY <2>3, <3>2 DEF ToSet
    <3> QED BY <2>2, <3>3 DEF Taken
  <2>13. d.unconfirmed = chat.unconfirmed /\ d.read_by_me = chat.read_by_me
         /\ chat.unread \subseteq d.unread
    BY <2>2 DEF Taken
  <2>14. Taken(chat, args, k, d)
    BY <2>2, <2>6, <2>8, <2>9, <2>10, <2>11, <2>12, <2>13 DEF Taken
  <2> QED BY <1>4, <2>14 DEF Received, d
<1> QED BY <1>3, <1>4

\* What a copy becomes with all messages of a call.
LEMMA ReceivedAllIs ==
    ASSUME NEW chat, Sound(chat), NEW args \in Seq(Args)
    PROVE  Taken(chat, args, Len(args), ReceivedAll(chat, args))
<1> DEFINE n == Len(args)
           f == Receiving(chat, args)
           S == {k \in 0 .. n : Taken(chat, args, k, f[k])}
<1>1. n \in Nat
  OBVIOUS
<1>2. f[0] = chat /\ \A k \in 1 .. n : f[k] = Received(f[k - 1], args[k])
  BY ReceivingIs
<1> HIDE DEF f
<1>3. 0 \in S
  <2>1. chat \in Copies /\ Len(chat.log) \in Nat
    BY CopyIs DEF Sound
  <2>2. Taken(chat, args, 0, chat)
    BY <2>1 DEF Taken, Extends
  <2> QED BY <1>1, <1>2, <2>2
<1>4. ASSUME NEW k \in 0 .. n - 1, k \in S PROVE k + 1 \in S
  <2>1. k + 1 \in 1 .. n /\ (k + 1) - 1 = k
    BY <1>1
  <2>2. Taken(chat, args, k + 1, Received(f[k], args[k + 1]))
    BY <1>4, <2>1, TakenOneMore
  <2> QED BY <1>1, <1>2, <2>1, <2>2
<1>5. 0 .. n \subseteq S
  <2> HIDE DEF S, n
  <2> QED BY <1>1, <1>3, <1>4, Induction
<1> QED BY <1>1, <1>5 DEF ReceivedAll, f

-----------------------------------------------------------------------------
(* What is kept of the unconfirmed messages *)

\* r has those of the first k of s that are not in ids, in the same order.
KeptOf(s, ids, k, r) ==
    /\ r \in Seq(Args)
    /\ \A i \in 1 .. k : s[i].message \notin ids => \E j \in 1 .. Len(r) : r[j] = s[i]
    /\ \A j \in 1 .. Len(r) : \E i \in 1 .. k :
          /\ r[j] = s[i] /\ s[i].message \notin ids
          /\ \A b \in 1 .. i - 1 :
                s[b].message \notin ids => \E a \in 1 .. j - 1 : r[a] = s[b]

\* One more message is looked at.
LEMMA KeptOneMore ==
    ASSUME NEW s \in Seq(Args), NEW ids, NEW k \in 1 .. Len(s), NEW r,
           KeptOf(s, ids, k - 1, r)
    PROVE  KeptOf(s, ids, k, IF s[k].message \in ids THEN r ELSE Append(r, s[k]))
<1>1. k \in Nat \ {0} /\ (\A j \in 1 .. k - 1 : j \in 1 .. k) /\ s[k] \in Args
      /\ \A j \in 1 .. k : j = k \/ j \in 1 .. k - 1
  OBVIOUS
<1>2. CASE s[k].message \in ids
  <2>1. \A i \in 1 .. k : s[i].message \notin ids => \E j \in 1 .. Len(r) : r[j] = s[i]
    BY <1>1, <1>2 DEF KeptOf
  <2>2. KeptOf(s, ids, k, r)
    BY <1>1, <2>1 DEF KeptOf
  <2> QED BY <1>2, <2>2
<1>3. CASE s[k].message \notin ids
  <2> DEFINE n == Len(r)
             q == Append(r, s[k])
  <2>1. r \in Seq(Args) /\ n \in Nat
    BY DEF KeptOf
  <2>2. q \in Seq(Args) /\ Len(q) = n + 1 /\ q[n + 1] = s[k] /\ \A j \in 1 .. n : q[j] = r[j]
    BY <1>1, <2>1
  <2> HIDE DEF n, q
  <2>3. ASSUME NEW i \in 1 .. k, s[i].message \notin ids PROVE \E j \in 1 .. Len(q) : q[j] = s[i]
    <3>1. CASE i = k
      BY <2>1, <2>2, <3>1
    <3>2. CASE i \in 1 .. k - 1
      <4>1. PICK j \in 1 .. n : r[j] = s[i]
        BY <2>3, <3>2 DEF KeptOf, n
      <4> QED BY <2>1, <2>2, <4>1
    <3> QED BY <1>1, <3>1, <3>2
  <2>4. ASSUME NEW j \in 1 .. Len(q)
        PROVE  \E i \in 1 .. k :
                  /\ q[j] = s[i] /\ s[i].message \notin ids
                  /\ \A b \in 1 .. i - 1 :
                        s[b].message \notin ids => \E a \in 1 .. j - 1 : q[a] = s[b]
    <3>1. CASE j = n + 1
      <4>1. ASSUME NEW b \in 1 .. k - 1, s[b].message \notin ids
            PROVE  \E a \in 1 .. j - 1 : q[a] = s[b]
        <5>1. PICK a \in 1 .. n : r[a] = s[b]
          BY <4>1 DEF KeptOf, n
        <5>2. j - 1 = n /\ q[a] = r[a]
          BY <2>1, <2>2, <3>1
        <5> QED BY <5>1, <5>2
      <4> QED BY <1>1, <1>3, <2>2, <3>1, <4>1
    <3>2. CASE j # n + 1
      <4>1. j \in 1 .. n /\ q[j] = r[j] /\ \A a \in 1 .. j - 1 : q[a] = r[a]
        BY <2>1, <2>2, <3>2
      <4>2. PICK i \in 1 .. k - 1 :
              /\ r[j] = s[i] /\ s[i].message \notin ids
              /\ \A b \in 1 .. i - 1 :
                    s[b].message \notin ids => \E a \in 1 .. j - 1 : r[a] = s[b]
        BY <4>1 DEF KeptOf, n
      <4> QED BY <1>1, <4>1, <4>2
    <3> QED BY <3>1, <3>2
  <2>5. KeptOf(s, ids, k, q)
    BY <2>2, <2>3, <2>4 DEF KeptOf
  <2> QED BY <1>3, <2>5 DEF q
<1> QED BY <1>2, <1>3

\* Keeping keeps them.
LEMMA KeepingIs ==
    ASSUME NEW s \in Seq(Args), NEW ids
    PROVE  KeptOf(s, ids, Len(s), Keeping(s, ids)[Len(s)])
<1> DEFINE n == Len(s)
           S == Seq(Args)
           More(r, k) == IF s[k].message \in ids THEN r ELSE Append(r, s[k])
           step == [z \in S \X (1 .. n) |-> More(z[1], z[2])]
           Next_(g) == [k \in 0 .. n |->
                           IF k = 0 THEN <<>>
                           ELSE IF s[k].message \in ids THEN g[k - 1]
                           ELSE Append(g[k - 1], s[k])]
           f == Keeping(s, ids)
           D == {k \in 0 .. n : KeptOf(s, ids, k, f[k])}
<1>1. n \in Nat /\ \A k \in 1 .. n : s[k] \in Args
  OBVIOUS
<1>2. step \in [S \X (1 .. n) -> S]
  <2> SUFFICES ASSUME NEW r \in S, NEW k \in 1 .. n PROVE More(r, k) \in S
    OBVIOUS
  <2> QED BY <1>1
<1>11. <<>> \in S
  OBVIOUS
<1> HIDE DEF S
<1>3. PICK g \in [0 .. n -> S] : Follows(g, n, <<>>, step)
  <2> HIDE DEF step, n
  <2> QED BY <1>1, <1>2, <1>11, RecursionExists
<1>4. g = Next_(g)
  <2>1. ASSUME NEW k \in 1 .. n PROVE g[k] = More(g[k - 1], k)
    <3>1. <<g[k - 1], k>> \in S \X (1 .. n)
      BY <1>1
    <3> QED BY <1>3, <3>1 DEF Follows
  <2>2. \A k \in 0 .. n : g[k] = IF k = 0 THEN <<>> ELSE More(g[k - 1], k)
    <3>1. g[0] = <<>> /\ \A k \in 0 .. n : k = 0 \/ k \in 1 .. n
      BY <1>1, <1>3 DEF Follows
    <3> HIDE DEF More, n
    <3> QED BY <2>1, <3>1
  <2> QED BY <1>3, <2>2
<1>5. f = CHOOSE h : h = Next_(h)
  BY DEF Keeping
<1> HIDE DEF f, step
<1>6. f = Next_(f)
  <2> HIDE DEF Next_
  <2> QED BY <1>4, <1>5
<1>7. f[0] = <<>> /\ \A k \in 1 .. n : f[k] = More(f[k - 1], k)
  <2>1. \A k \in 0 .. n : f[k] = IF k = 0 THEN <<>> ELSE More(f[k - 1], k)
    BY <1>6
  <2>2. 0 \in 0 .. n /\ \A k \in 1 .. n : k \in 0 .. n /\ k # 0
    BY <1>1
  <2> HIDE DEF More, n
  <2> QED BY <2>1, <2>2
<1>8. 0 \in D
  <2>1. KeptOf(s, ids, 0, <<>>)
    BY DEF KeptOf
  <2> QED BY <1>1, <1>7, <2>1
<1>9. ASSUME NEW k \in 0 .. n - 1, k \in D PROVE k + 1 \in D
  <2>1. k + 1 \in 1 .. n /\ (k + 1) - 1 = k /\ k + 1 \in 0 .. n
    BY <1>1
  <2>2. KeptOf(s, ids, k + 1, More(f[k], k + 1))
    BY <1>9, <2>1, KeptOneMore
  <2> QED BY <1>7, <2>1, <2>2
<1>10. 0 .. n \subseteq D
  <2> HIDE DEF D, n
  <2> QED BY <1>1, <1>8, <1>9, Induction
<1> QED BY <1>1, <1>10 DEF f

-----------------------------------------------------------------------------
(* The operations on a copy *)

\* What most operations leave alone.
SameMessages(old, new) == new.log = old.log /\ new.unconfirmed = old.unconfirmed

\* Reading changes nothing but how far has been read,
LEMMA ReadByMeIs ==
    ASSUME NEW chat, Sound(chat), NEW index \in Nat
    PROVE  /\ Sound(ReadByMe(chat, index)) /\ SameMessages(chat, ReadByMe(chat, index))
           /\ ReadByMe(chat, index).unread = chat.unread
           /\ ReadByMe(chat, index).content = chat.content
           /\ ReadByMe(chat, index).read_by_them = chat.read_by_them
           /\ ReadByMe(chat, index).read_by_me >= chat.read_by_me
           /\ index <= Len(chat.log) => ReadByMe(chat, index).read_by_me >= index
           /\ ReadByMe(chat, index).read_by_me
                = ReadUpTo(chat.read_by_me, index, Len(chat.log))
<1> DEFINE n == ReadUpTo(chat.read_by_me, index, Len(chat.log))
           d == ReadByMe(chat, index)
<1>1. chat \in Copies /\ Len(chat.log) \in Nat /\ chat.read_by_me \in Nat
      /\ chat.read_by_me <= Len(chat.log)
  BY CopyIs DEF Sound
<1>2. n \in Nat /\ n >= chat.read_by_me /\ n <= Len(chat.log)
      /\ (index <= Len(chat.log) => n >= index)
  BY <1>1, ReadUpToIs
<1>3. d = [chat EXCEPT !.read_by_me = n]
  BY DEF ReadByMe
<1> HIDE DEF n, d
<1>4. /\ d \in Copies /\ d.log = chat.log /\ d.unconfirmed = chat.unconfirmed
      /\ d.unread = chat.unread /\ d.content = chat.content
      /\ d.read_by_them = chat.read_by_them /\ d.read_by_me = n
  BY <1>1, <1>2, <1>3 DEF Copies
<1> QED BY <1>1, <1>2, <1>4 DEF Sound, SameMessages, d, n

\* whoever reads.
LEMMA ReadByThemIs ==
    ASSUME NEW chat, Sound(chat), NEW index \in Nat
    PROVE  /\ Sound(ReadByThem(chat, index)) /\ SameMessages(chat, ReadByThem(chat, index))
           /\ ReadByThem(chat, index).unread = chat.unread
           /\ ReadByThem(chat, index).content = chat.content
           /\ ReadByThem(chat, index).read_by_me = chat.read_by_me
           /\ \/ ReadByThem(chat, index).read_by_them = chat.read_by_them
              \/ ReadByThem(chat, index).read_by_them <= index
           /\ ReadByThem(chat, index).read_by_them
                = ReadUpTo(chat.read_by_them, index, Len(chat.log))
<1> DEFINE n == ReadUpTo(chat.read_by_them, index, Len(chat.log))
           d == ReadByThem(chat, index)
<1>1. chat \in Copies /\ Len(chat.log) \in Nat /\ chat.read_by_them \in Nat
      /\ chat.read_by_them <= Len(chat.log)
  BY CopyIs DEF Sound
<1>2. n \in Nat /\ n <= Len(chat.log) /\ (n = chat.read_by_them \/ n <= index)
  <2>1. n \in Nat /\ n <= Len(chat.log) /\ n \in {chat.read_by_them, index, Len(chat.log)}
        /\ (index <= chat.read_by_them => n = chat.read_by_them)
    BY <1>1, ReadUpToIs
  <2>2. ReadUpTo(chat.read_by_them, index, Len(chat.log)) \in {chat.read_by_them, index}
        \/ Len(chat.log) <= index
    <3> DEFINE S == {index, Len(chat.log)}
    <3>1. CASE Len(chat.log) <= index
      BY <3>1
    <3>2. CASE ~(Len(chat.log) <= index)
      <4>1. Min(S) = index
        BY <1>1, <3>2 DEF Min
      <4>2. Max({chat.read_by_them, index}) \in {chat.read_by_them, index}
        <5>1. \E x \in {chat.read_by_them, index} : \A y \in {chat.read_by_them, index} : x >= y
          <6>1. CASE chat.read_by_them >= index
            BY <1>1, <6>1
          <6>2. CASE index >= chat.read_by_them
            BY <1>1, <6>2
          <6> QED BY <1>1, <6>1, <6>2
        <5> QED BY <5>1 DEF Max
      <4> QED BY <4>1, <4>2 DEF ReadUpTo
    <3> QED BY <3>1, <3>2
  <2> HIDE DEF n
  <2>3. n \in {chat.read_by_them, index} \/ Len(chat.log) <= index
    BY <2>2 DEF n
  <2> QED BY <1>1, <2>1, <2>3
<1>3. d = [chat EXCEPT !.read_by_them = n]
  BY DEF ReadByThem
<1> HIDE DEF n, d
<1>4. /\ d \in Copies /\ d.log = chat.log /\ d.unconfirmed = chat.unconfirmed
      /\ d.unread = chat.unread /\ d.content = chat.content
      /\ d.read_by_me = chat.read_by_me /\ d.read_by_them = n
  BY <1>1, <1>2, <1>3 DEF Copies
<1> QED BY <1>1, <1>2, <1>4 DEF Sound, SameMessages, d, n

\* Entries of the index map are dropped.
LEMMA RemoveUpToIs ==
    ASSUME NEW chat, Sound(chat), NEW theirs
    PROVE  /\ Sound(RemoveUpTo(chat, theirs)) /\ SameMessages(chat, RemoveUpTo(chat, theirs))
           /\ RemoveUpTo(chat, theirs).unread = {e \in chat.unread : e.theirs > theirs}
           /\ RemoveUpTo(chat, theirs).content = chat.content
           /\ RemoveUpTo(chat, theirs).read_by_me = chat.read_by_me
           /\ RemoveUpTo(chat, theirs).read_by_them = chat.read_by_them
<1> DEFINE S == {e \in chat.unread : e.theirs > theirs}
           d == RemoveUpTo(chat, theirs)
<1>1. chat \in Copies /\ chat.unread \subseteq [ours : Nat, theirs : Nat]
      /\ IsFiniteSet(chat.unread)
  BY CopyIs DEF Sound
<1>2. S \subseteq chat.unread /\ IsFiniteSet(S)
  BY <1>1, FS_Subset
<1>3. d = [chat EXCEPT !.unread = S]
  BY DEF RemoveUpTo
<1> HIDE DEF S, d
<1>4. S \in SUBSET [ours : Nat, theirs : Nat]
  BY <1>1, <1>2
<1>5. /\ d \in Copies /\ d.log = chat.log /\ d.unconfirmed = chat.unconfirmed
      /\ d.unread = S /\ d.content = chat.content
      /\ d.read_by_me = chat.read_by_me /\ d.read_by_them = chat.read_by_them
  BY <1>1, <1>3, <1>4 DEF Copies
<1> QED BY <1>2, <1>5 DEF Sound, SameMessages, d, S

\* The content of a message changes.
WithContent(chat, m, c) == [chat EXCEPT !.content[m] = c]
LEMMA WithContentIs ==
    ASSUME NEW chat, Sound(chat), NEW m, Has(chat, m), NEW c \in Contents
    PROVE  /\ Sound(WithContent(chat, m, c)) /\ SameMessages(chat, WithContent(chat, m, c))
           /\ WithContent(chat, m, c).unread = chat.unread
           /\ WithContent(chat, m, c).read_by_me = chat.read_by_me
           /\ WithContent(chat, m, c).read_by_them = chat.read_by_them
<1> DEFINE content == [chat.content EXCEPT ![m] = c]
           d == WithContent(chat, m, c)
<1>1. chat \in Copies /\ chat.content \in [DOMAIN chat.content -> Contents]
      /\ DOMAIN chat.content \subseteq Messages
  BY CopyIs DEF Sound
<1>2. content \in [DOMAIN chat.content -> Contents] /\ DOMAIN content = DOMAIN chat.content
  BY <1>1
<1>3. content \in Tables
  <2> HIDE DEF content
  <2> QED BY <1>1, <1>2 DEF Tables
<1>4. d = [chat EXCEPT !.content = content]
  BY DEF WithContent
<1> HIDE DEF content, d
<1>5. /\ d \in Copies /\ d.log = chat.log /\ d.unconfirmed = chat.unconfirmed
      /\ d.unread = chat.unread /\ d.content = content
      /\ d.read_by_me = chat.read_by_me /\ d.read_by_them = chat.read_by_them
  BY <1>1, <1>3, <1>4 DEF Copies
<1> QED BY <1>2, <1>5 DEF Sound, SameMessages, d

\* Operations on the content only.
Touched(chat, d) ==
    /\ Sound(d) /\ SameMessages(chat, d) /\ d.unread = chat.unread
    /\ d.read_by_me = chat.read_by_me /\ d.read_by_them = chat.read_by_them

\* A message that is there has a content.
LEMMA ContentOf ==
    ASSUME NEW chat, Sound(chat), NEW m, Has(chat, m)
    PROVE  chat.content[m] \in Contents /\ m \in Messages
<1>1. m \in DOMAIN chat.content
  BY DEF Sound, Has
<1> QED BY <1>1, CopyIs DEF Sound

\* Edits, deletes, undeletes and hard deletes are such operations.
LEMMA EditedIs ==
    ASSUME NEW chat, Sound(chat), NEW m, Has(chat, m), NEW version \in Nat
    PROVE  Touched(chat, Edited(chat, m, version))
<1> DEFINE c == [chat.content[m] EXCEPT !.version = version]
<1>1. c \in Contents
  BY ContentOf DEF Contents
<1>2. Edited(chat, m, version) = WithContent(chat, m, c)
  BY DEF Edited, WithContent
<1> HIDE DEF c
<1> QED BY <1>1, <1>2, WithContentIs DEF Touched

LEMMA DeletedIs ==
    ASSUME NEW chat, Sound(chat), NEW m, Has(chat, m), NEW user \in Users
    PROVE  Touched(chat, Deleted(chat, user, m))
<1> DEFINE c == [chat.content[m] EXCEPT !.deleted_by = {user}]
<1>1. c \in Contents
  BY ContentOf DEF Contents
<1>2. Deleted(chat, user, m) = WithContent(chat, m, c)
  BY DEF Deleted, WithContent
<1> HIDE DEF c
<1> QED BY <1>1, <1>2, WithContentIs DEF Touched

LEMMA UndeletedIs ==
    ASSUME NEW chat, Sound(chat), NEW m, Has(chat, m)
    PROVE  Touched(chat, Undeleted(chat, m))
<1> DEFINE c == [chat.content[m] EXCEPT !.deleted_by = {}]
<1>1. c \in Contents
  BY ContentOf DEF Contents
<1>2. Undeleted(chat, m) = WithContent(chat, m, c)
  BY DEF Undeleted, WithContent
<1> HIDE DEF c
<1> QED BY <1>1, <1>2, WithContentIs DEF Touched

LEMMA DestroyedIs ==
    ASSUME NEW chat, Sound(chat), NEW m
    PROVE  Touched(chat, Destroyed(chat, m))
<1> DEFINE c == [chat.content[m] EXCEPT !.destroyed = TRUE]
<1>1. CASE Has(chat, m) /\ chat.content[m].deleted_by # {}
  <2>1. c \in Contents
    BY <1>1, ContentOf DEF Contents
  <2>2. Destroyed(chat, m) = WithContent(chat, m, c)
    BY <1>1 DEF Destroyed, WithContent
  <2> HIDE DEF c
  <2> QED BY <1>1, <2>1, <2>2, WithContentIs DEF Touched
<1>2. CASE ~(Has(chat, m) /\ chat.content[m].deleted_by # {})
  BY <1>2 DEF Destroyed, Touched, SameMessages
<1> QED BY <1>1, <1>2

\* A copy that is new or was deleted.
LEMMA NewChatIs == Sound(NewChat)
<1>1. <<>> \in Seq(Messages) /\ <<>> \in Seq(Args)
  OBVIOUS
<1>2. <<>> \in Tables
  <2>1. <<>> \in [{} -> Contents]
    OBVIOUS
  <2> QED BY <2>1 DEF Tables
<1>3. NewChat \in Copies
  BY <1>1, <1>2 DEF NewChat, Copies
<1>4. NewChat.log = <<>> /\ NewChat.content = <<>> /\ NewChat.unread = {}
      /\ NewChat.read_by_me = 0 /\ NewChat.read_by_them = 0
  BY DEF NewChat
<1>5. ToSet(<<>>) = {} /\ DOMAIN <<>> = {} /\ Len(<<>>) = 0
  BY DEF ToSet
<1> QED BY <1>3, <1>4, <1>5, FS_EmptySet DEF Sound, Distinct

\* A message is at its index.
LEMMA IndexIs ==
    ASSUME NEW chat, Sound(chat), NEW i \in 1 .. Len(chat.log)
    PROVE  Index(chat, chat.log[i]) = i
<1> DEFINE n == Len(chat.log)
           I == {j \in 1 .. n : chat.log[j] = chat.log[i]}
<1>1. n \in Nat /\ DOMAIN chat.log = 1 .. n
  BY CopyIs DEF Sound
<1>2. I = {i}
  BY <1>1 DEF Sound, Distinct
<1>3. Index(chat, chat.log[i]) = IF I # {} THEN Min(I) ELSE 0
  BY DEF Index, SelectInSeq
<1> HIDE DEF I
<1>4. Min({i}) = i
  BY DEF Min
<1> QED BY <1>2, <1>3, <1>4

\* A message is sent.
SentMessage(chat, m) == Pending(PushedByMe(chat, m), m)
LEMMA SentMessageIs ==
    ASSUME NEW chat, Sound(chat), NEW m \in Messages, ~Has(chat, m)
    PROVE  /\ Sound(SentMessage(chat, m))
           /\ SentMessage(chat, m).log = Append(chat.log, m)
           /\ SentMessage(chat, m).unconfirmed
                = Append(chat.unconfirmed, [message |-> m, index |-> Len(chat.log) + 1])
           /\ SentMessage(chat, m).unread = chat.unread
           /\ SentMessage(chat, m).read_by_me >= chat.read_by_me
           /\ SentMessage(chat, m).read_by_them = chat.read_by_them
           /\ SentMessage(chat, m).content[m] = Original
           /\ \A x \in ToSet(chat.log) : SentMessage(chat, m).content[x] = chat.content[x]
<1> DEFINE n == Len(chat.log)
           c == Pushed(chat, m)
           r == PushedByMe(chat, m)
           d == SentMessage(chat, m)
<1>1. /\ chat \in Copies /\ chat.log \in Seq(Messages) /\ n \in Nat
      /\ chat.read_by_me <= n /\ chat.read_by_them <= n
      /\ chat.read_by_me \in Nat /\ chat.read_by_them \in Nat
      /\ chat.unconfirmed \in Seq(Args)
  BY CopyIs DEF Sound
<1>2. /\ c \in Copies /\ c.log = Append(chat.log, m)
      /\ c.unconfirmed = chat.unconfirmed /\ c.unread = chat.unread
      /\ c.read_by_me = chat.read_by_me /\ c.read_by_them = chat.read_by_them
  BY PushedIs
<1>3. Distinct(c.log) /\ DOMAIN c.content = ToSet(c.log)
  <2>1. DOMAIN c.content = ToSet(chat.log) \cup {m}
    BY PushedIs
  <2>2. ToSet(c.log) = ToSet(chat.log) \cup {m} /\ Distinct(c.log)
    BY PushedIs
  <2> QED BY <2>1, <2>2
<1>4. c.content[m] = Original /\ \A x \in ToSet(chat.log) : c.content[x] = chat.content[x]
  BY PushedIs
<1> HIDE DEF c
<1>5. Len(c.log) = n + 1 /\ c.log[n + 1] = m
  BY <1>1, <1>2
<1>6. Sound(c)
  <2>1. IsFiniteSet(c.unread)
    BY <1>2 DEF Sound
  <2>2. c.read_by_me <= Len(c.log) /\ c.read_by_them <= Len(c.log)
    BY <1>1, <1>2, <1>5
  <2> QED BY <1>2, <1>3, <2>1, <2>2 DEF Sound
<1>7. r = ReadByMe(c, n + 1)
  BY DEF PushedByMe, c
<1>8. /\ Sound(r) /\ SameMessages(c, r) /\ r.unread = c.unread /\ r.content = c.content
      /\ r.read_by_them = c.read_by_them /\ r.read_by_me >= c.read_by_me
  <2>1. n + 1 \in Nat
    BY <1>1
  <2> HIDE DEF n, r
  <2> QED BY <1>6, <1>7, <2>1, ReadByMeIs
<1>9. r.log = Append(chat.log, m) /\ r.unconfirmed = chat.unconfirmed
  BY <1>2, <1>8 DEF SameMessages
<1> HIDE DEF r
<1>10. Index(r, m) = n + 1
  <2>1. n + 1 \in 1 .. Len(r.log) /\ r.log[n + 1] = m
    BY <1>1, <1>2, <1>5, <1>9
  <2> QED BY <1>8, <2>1, IndexIs
<1> DEFINE arg == [message |-> m, index |-> n + 1]
<1>11. d = [r EXCEPT !.unconfirmed = Append(@, arg)]
  BY <1>10 DEF SentMessage, Pending, SendMessageArgs, r
<1>12. arg \in Args
  BY <1>1 DEF Args
<1> HIDE DEF arg, d
<1>13. Append(r.unconfirmed, arg) \in Seq(Args)
  BY <1>1, <1>9, <1>12
<1>14. /\ d \in Copies /\ d.log = r.log /\ d.unconfirmed = Append(r.unconfirmed, arg)
       /\ d.unread = r.unread /\ d.content = r.content
       /\ d.read_by_me = r.read_by_me /\ d.read_by_them = r.read_by_them
  BY <1>8, <1>11, <1>13 DEF Sound, Copies
<1>15. Sound(d)
  BY <1>8, <1>14 DEF Sound
<1>16. d.read_by_me >= chat.read_by_me /\ d.read_by_them = chat.read_by_them
  BY <1>2, <1>8, <1>14
<1> QED BY <1>2, <1>4, <1>8, <1>9, <1>14, <1>15, <1>16 DEF d, arg

\* Messages are confirmed.
LEMMA ConfirmedIs ==
    ASSUME NEW chat, Sound(chat), NEW args
    PROVE  /\ Sound(Confirmed(chat, args))
           /\ Confirmed(chat, args).log = chat.log
           /\ KeptOf(chat.unconfirmed, Ids(args), Len(chat.unconfirmed),
                     Confirmed(chat, args).unconfirmed)
           /\ Confirmed(chat, args).unread = chat.unread
           /\ Confirmed(chat, args).content = chat.content
           /\ Confirmed(chat, args).read_by_me = chat.read_by_me
           /\ Confirmed(chat, args).read_by_them = chat.read_by_them
<1> DEFINE s == chat.unconfirmed
           r == Keeping(s, Ids(args))[Len(s)]
           d == Confirmed(chat, args)
<1>1. chat \in Copies /\ s \in Seq(Args)
  BY CopyIs DEF Sound
<1>2. KeptOf(s, Ids(args), Len(s), r)
  BY <1>1, KeepingIs
<1>3. d = [chat EXCEPT !.unconfirmed = r]
  BY DEF Confirmed
<1> HIDE DEF r, d
<1>4. r \in Seq(Args)
  BY <1>2 DEF KeptOf
<1>5. /\ d \in Copies /\ d.log = chat.log /\ d.unconfirmed = r
      /\ d.unread = chat.unread /\ d.content = chat.content
      /\ d.read_by_me = chat.read_by_me /\ d.read_by_them = chat.read_by_them
  BY <1>1, <1>3, <1>4 DEF Copies
<1> QED BY <1>2, <1>5 DEF Sound, d

\* A finite set of numbers has a greatest one.
LEMMA FiniteNatsHaveMax ==
    ASSUME NEW S, IsFiniteSet(S), S # {}, S \subseteq Nat
    PROVE  \E x \in S : \A y \in S : x >= y
<1>1. PICK s \in Seq(S) : \A x \in S : \E i \in 1 .. Len(s) : s[i] = x
  BY DEF IsFiniteSet
<1> DEFINE n == Len(s)
           D == {k \in 0 .. n : \/ k = 0
                                \/ \E x \in S : \A i \in 1 .. k : x >= s[i]}
<1>2. n \in Nat /\ \A i \in 1 .. n : s[i] \in S /\ s[i] \in Nat
  <2>1. n \in Nat
    BY <1>1, LenProperties
  <2>2. \A i \in 1 .. n : s[i] \in S
    BY <1>1, ElementOfSeq
  <2> QED BY <2>1, <2>2
<1>3. 0 \in D
  BY <1>2
<1>4. ASSUME NEW k \in 0 .. n - 1, k \in D PROVE k + 1 \in D
  <2>1. PICK x \in S : \A i \in 1 .. k : x >= s[i]
    <3>1. CASE k = 0
      <4>1. 1 .. k = {}
        BY <3>1
      <4> QED BY <4>1
    <3>2. CASE k # 0
      BY <1>4, <3>2
    <3> QED BY <3>1, <3>2
  <2>2. k + 1 \in 1 .. n /\ k + 1 \in 0 .. n /\ \A i \in 1 .. k + 1 : i = k + 1 \/ i \in 1 .. k
    BY <1>2
  <2>3. CASE x >= s[k + 1]
    BY <2>1, <2>2, <2>3
  <2>4. CASE ~(x >= s[k + 1])
    <3>1. x \in Nat /\ s[k + 1] \in Nat /\ s[k + 1] \in S
      BY <1>2, <2>2
    <3>2. \A i \in 1 .. k : s[i] \in Nat
      BY <1>2
    <3>3. \A i \in 1 .. k + 1 : s[k + 1] >= s[i]
      BY <2>1, <2>2, <2>4, <3>1, <3>2
    <3> QED BY <2>2, <3>1, <3>3
  <2> QED BY <2>3, <2>4
<1>5. 0 .. n \subseteq D
  <2> HIDE DEF D, n
  <2> QED BY <1>2, <1>3, <1>4, Induction
<1>6. n # 0
  <2>1. PICK x : x \in S
    OBVIOUS
  <2>2. \E i \in 1 .. n : s[i] = x
    BY <1>1, <2>1
  <2> QED BY <1>2, <2>2
<1>7. PICK x \in S : \A i \in 1 .. n : x >= s[i]
  BY <1>2, <1>5, <1>6
<1> QED BY <1>1, <1>7

\* Whom mark_read tells up to which message.
LEMMA MaxReadUpToOfTheirsIs ==
    ASSUME NEW chat, Sound(chat), NEW index
    PROVE  /\ MaxReadUpToOfTheirs(chat, index) \in Nat
           /\ \/ MaxReadUpToOfTheirs(chat, index) = 0
              \/ \E e \in chat.unread :
                    e.ours <= index /\ MaxReadUpToOfTheirs(chat, index) = e.theirs
           /\ \A e \in chat.unread :
                 e.ours <= index => e.theirs <= MaxReadUpToOfTheirs(chat, index)
<1> DEFINE E == {x \in chat.unread : x.ours <= index}
           T == {e.theirs : e \in E}
           S == {0} \cup T
<1>1. chat.unread \subseteq [ours : Nat, theirs : Nat] /\ IsFiniteSet(chat.unread)
  BY CopyIs DEF Sound
<1>2. IsFiniteSet(E)
  BY <1>1, FS_Subset
<1>3. IsFiniteSet(T)
  <2> DEFINE f == [e \in E |-> e.theirs]
  <2>1. f \in Surjection(E, T)
    <3>1. f \in [E -> T] /\ \A t \in T : \E e \in E : f[e] = t
      OBVIOUS
    <3> QED BY <3>1 DEF Surjection
  <2> HIDE DEF f, T, E
  <2> QED BY <1>2, <2>1, FS_Surjection
<1>4. IsFiniteSet(S) /\ S # {} /\ S \subseteq Nat
  <2>1. T \subseteq Nat
    BY <1>1
  <2>2. S = T \cup {0}
    OBVIOUS
  <2> HIDE DEF T, S
  <2>3. IsFiniteSet(S)
    BY <1>3, <2>2, FS_AddElement
  <2> QED BY <2>1, <2>2, <2>3
<1>5. \E x \in S : \A y \in S : x >= y
  <2> HIDE DEF S
  <2> QED BY <1>4, FiniteNatsHaveMax
<1>6. Max(S) \in S /\ \A y \in S : Max(S) >= y
  BY <1>5 DEF Max
<1>7. MaxReadUpToOfTheirs(chat, index) = Max(S)
  BY DEF MaxReadUpToOfTheirs
<1>8. Max(S) \in Nat
  BY <1>4, <1>6
<1>9. Max(S) = 0 \/ \E e \in chat.unread : e.ours <= index /\ Max(S) = e.theirs
  BY <1>6
<1>10. \A e \in chat.unread : e.ours <= index => e.theirs <= Max(S)
  <2> SUFFICES ASSUME NEW e \in chat.unread, e.ours <= index PROVE e.theirs <= Max(S)
    OBVIOUS
  <2>1. e.theirs \in S /\ e.theirs \in Nat
    BY <1>1
  <2> HIDE DEF S
  <2> QED BY <1>6, <1>8, <2>1
<1> HIDE DEF S
<1> QED BY <1>7, <1>8, <1>9, <1>10

-----------------------------------------------------------------------------
(* Sequences and bags of calls *)

\* What is in a queue to which a call is added.
LEMMA AppendedIs ==
    ASSUME NEW S, NEW s \in Seq(S), NEW e \in S
    PROVE  Append(s, e) \in Seq(S) /\ ToSet(Append(s, e)) = ToSet(s) \cup {e}
<1> DEFINE t == Append(s, e)
           n == Len(s)
<1>1. /\ t \in Seq(S) /\ n \in Nat /\ DOMAIN s = 1 .. n /\ DOMAIN t = 1 .. n + 1
      /\ t[n + 1] = e /\ \A i \in 1 .. n : t[i] = s[i]
  OBVIOUS
<1> HIDE DEF t, n
<1>2. ToSet(s) \cup {e} \subseteq ToSet(t)
  BY <1>1 DEF ToSet
<1>3. ASSUME NEW i \in 1 .. n + 1 PROVE t[i] \in ToSet(s) \cup {e}
  <2>1. CASE i = n + 1
    BY <1>1, <2>1
  <2>2. CASE i # n + 1
    BY <1>1, <2>2 DEF ToSet
  <2> QED BY <2>1, <2>2
<1>4. ToSet(t) \subseteq ToSet(s) \cup {e}
  BY <1>1, <1>3 DEF ToSet
<1> QED BY <1>1, <1>2, <1>4 DEF t

\* What is gone is one element, at most.
LEMMA TailIs ==
    ASSUME NEW S, NEW s \in Seq(S), s # <<>>
    PROVE  /\ Head(s) \in S /\ Head(s) \in ToSet(s) /\ Tail(s) \in Seq(S)
           /\ ToSet(Tail(s)) \subseteq ToSet(s) /\ ToSet(s) \subseteq ToSet(Tail(s)) \cup {Head(s)}
<1> DEFINE t == Tail(s)
           n == Len(s)
<1>1. /\ t \in Seq(S) /\ n \in Nat \ {0} /\ DOMAIN s = 1 .. n /\ DOMAIN t = 1 .. n - 1
      /\ Head(s) = s[1] /\ s[1] \in S /\ \A i \in 1 .. n - 1 : t[i] = s[i + 1]
  OBVIOUS
<1> HIDE DEF t, n
<1>2. ToSet(t) \subseteq ToSet(s)
  BY <1>1 DEF ToSet
<1>3. ASSUME NEW i \in 1 .. n PROVE s[i] \in ToSet(t) \cup {s[1]}
  <2>1. CASE i # 1
    <3>1. i - 1 \in 1 .. n - 1 /\ (i - 1) + 1 = i
      BY <1>1, <2>1
    <3>2. t[i - 1] = s[i]
      BY <1>1, <3>1
    <3> QED BY <1>1, <3>1, <3>2 DEF ToSet
  <2>2. CASE i = 1
    BY <2>2
  <2> QED BY <2>1, <2>2
<1>4. ToSet(s) \subseteq ToSet(t) \cup {s[1]}
  BY <1>1, <1>3 DEF ToSet
<1>5. s[1] \in ToSet(s)
  BY <1>1 DEF ToSet
<1> QED BY <1>1, <1>2, <1>4, <1>5 DEF t

\* The same for a call that is rejected, wherever it is in the queue.
LEMMA RemoveAtIs ==
    ASSUME NEW S, NEW s \in Seq(S), NEW k \in DOMAIN s
    PROVE  /\ RemoveAt(s, k) \in Seq(S) /\ s[k] \in S /\ s[k] \in ToSet(s)
           /\ ToSet(RemoveAt(s, k)) \subseteq ToSet(s)
           /\ ToSet(s) \subseteq ToSet(RemoveAt(s, k)) \cup {s[k]}
<1> DEFINE n == Len(s)
           a == SubSeq(s, 1, k - 1)
           b == SubSeq(s, k + 1, n)
           t == RemoveAt(s, k)
<1>1. n \in Nat /\ DOMAIN s = 1 .. n /\ k \in 1 .. n /\ \A i \in 1 .. n : s[i] \in S
  OBVIOUS
<1>2. a \in Seq(S) /\ Len(a) = k - 1 /\ \A i \in 1 .. k - 1 : a[i] = s[i]
  BY <1>1
<1>3. b \in Seq(S) /\ Len(b) = n - k /\ \A i \in 1 .. n - k : b[i] = s[i + k]
  BY <1>1
<1>4. t = a \o b
  BY DEF RemoveAt
<1> HIDE DEF a, b, t
<1>5. /\ t \in Seq(S) /\ Len(t) = n - 1 /\ DOMAIN t = 1 .. n - 1
      /\ \A i \in 1 .. n - 1 : t[i] = IF i < k THEN a[i] ELSE b[i - (k - 1)]
  <2>1. t \in Seq(S) /\ Len(t) = Len(a) + Len(b)
        /\ \A i \in 1 .. Len(a) + Len(b) : t[i] = IF i <= Len(a) THEN a[i] ELSE b[i - Len(a)]
    BY <1>2, <1>3, <1>4, ConcatProperties
  <2>2. Len(a) + Len(b) = n - 1 /\ n - 1 \in Nat
    BY <1>1, <1>2, <1>3
  <2>3. \A i \in 1 .. n - 1 : (i <= k - 1) = (i < k)
    BY <1>1
  <2>4. DOMAIN t = 1 .. n - 1
    BY <2>1, <2>2
  <2> QED BY <1>2, <2>1, <2>2, <2>3, <2>4
<1> HIDE DEF n
<1>6. ASSUME NEW i \in 1 .. n - 1 PROVE t[i] = IF i < k THEN s[i] ELSE s[i + 1]
  <2>1. CASE i < k
    <3>1. i \in 1 .. k - 1
      BY <1>1, <2>1
    <3> QED BY <1>2, <1>5, <2>1, <3>1
  <2>2. CASE ~(i < k)
    <3>1. i - (k - 1) \in 1 .. n - k /\ (i - (k - 1)) + k = i + 1
      BY <1>1, <2>2
    <3>2. b[i - (k - 1)] = s[i + 1]
      BY <1>3, <3>1
    <3> QED BY <1>5, <2>2, <3>2
  <2> QED BY <2>1, <2>2
<1>7. ToSet(t) \subseteq ToSet(s)
  <2> SUFFICES ASSUME NEW i \in 1 .. n - 1 PROVE \E j \in 1 .. n : t[i] = s[j]
    BY <1>1, <1>5 DEF ToSet
  <2>1. i \in 1 .. n /\ i + 1 \in 1 .. n
    BY <1>1
  <2> QED BY <1>6, <2>1
<1>8. ASSUME NEW j \in 1 .. n, j # k PROVE s[j] \in ToSet(t)
  <2>1. CASE j < k
    <3>1. j \in 1 .. n - 1
      BY <1>1, <2>1
    <3> QED BY <1>5, <1>6, <2>1, <3>1 DEF ToSet
  <2>2. CASE j > k
    <3>1. j - 1 \in 1 .. n - 1 /\ ~(j - 1 < k) /\ (j - 1) + 1 = j
      BY <1>1, <2>2
    <3>2. t[j - 1] = s[j]
      BY <1>6, <3>1
    <3> QED BY <1>5, <3>1, <3>2 DEF ToSet
  <2> QED BY <1>1, <1>8, <2>1, <2>2
<1>9. ToSet(s) \subseteq ToSet(t) \cup {s[k]} /\ s[k] \in ToSet(s)
  BY <1>1, <1>8 DEF ToSet
<1> QED BY <1>1, <1>5, <1>7, <1>9 DEF t

\* What is in a bag to which one element is added,
LEMMA AddToIs ==
    ASSUME NEW bag, IsABag(bag), NEW e
    PROVE  /\ IsABag(AddTo(bag, e)) /\ DOMAIN AddTo(bag, e) = DOMAIN bag \cup {e}
<1> DEFINE b == SetToBag({e})
           d == AddTo(bag, e)
           P == {n \in Nat : n > 0}
<1>1. DOMAIN b = {e} /\ b[e] = 1 /\ DOMAIN d = DOMAIN bag \cup {e}
  BY DEF AddTo, SetToBag, (+)
<1>2. bag \in [DOMAIN bag -> P]
  BY DEF IsABag
<1>3. d = [x \in DOMAIN bag \cup {e} |->
             (IF x \in DOMAIN bag THEN bag[x] ELSE 0) + (IF x = e THEN 1 ELSE 0)]
  BY DEF AddTo, SetToBag, (+)
<1> HIDE DEF d
<1>4. ASSUME NEW x \in DOMAIN d PROVE d[x] \in P
  <2>1. d[x] = (IF x \in DOMAIN bag THEN bag[x] ELSE 0) + (IF x = e THEN 1 ELSE 0)
    BY <1>1, <1>3
  <2>2. CASE x \in DOMAIN bag
    <3>1. bag[x] \in P
      BY <1>2, <2>2
    <3> QED BY <2>1, <2>2, <3>1
  <2>3. CASE x \notin DOMAIN bag
    <3>1. x = e
      BY <1>1, <2>3
    <3> QED BY <2>1, <2>3, <3>1
  <2> QED BY <2>2, <2>3
<1>5. d \in [DOMAIN d -> P]
  <2> HIDE DEF P
  <2> QED BY <1>1, <1>3, <1>4
<1> QED BY <1>1, <1>5 DEF IsABag, d

\* or from which one is taken.
LEMMA TakeFromIs ==
    ASSUME NEW bag, IsABag(bag), NEW e
    PROVE  /\ IsABag(TakeFrom(bag, e)) /\ DOMAIN TakeFrom(bag, e) \subseteq DOMAIN bag
           /\ DOMAIN bag \subseteq DOMAIN TakeFrom(bag, e) \cup {e}
<1> DEFINE P == {n \in Nat : n > 0}
           B == [x \in DOMAIN bag |-> IF x \in {e} THEN bag[x] - 1 ELSE bag[x]]
           d == TakeFrom(bag, e)
<1>1. bag \in [DOMAIN bag -> P]
  BY DEF IsABag
<1>2. d = [x \in {y \in DOMAIN B : B[y] > 0} |-> B[x]]
  <2>1. DOMAIN SetToBag({e}) = {e} /\ SetToBag({e})[e] = 1
    BY DEF SetToBag
  <2>2. B = [x \in DOMAIN bag |-> IF x \in DOMAIN SetToBag({e})
                                  THEN bag[x] - SetToBag({e})[x] ELSE bag[x]]
    BY <2>1
  <2> QED BY <2>2 DEF TakeFrom, (-)
<1>3. \A x \in DOMAIN bag : /\ x # e => B[x] \in P
                            /\ B[x] > 0 => B[x] \in P
  <2> SUFFICES ASSUME NEW x \in DOMAIN bag
               PROVE (x # e => B[x] \in P) /\ (B[x] > 0 => B[x] \in P)
    OBVIOUS
  <2>1. bag[x] \in P
    BY <1>1
  <2> QED BY <2>1
<1>4. DOMAIN B = DOMAIN bag
  OBVIOUS
<1> HIDE DEF B, d
<1>5. DOMAIN d = {y \in DOMAIN bag : B[y] > 0} /\ \A x \in DOMAIN d : d[x] = B[x]
  BY <1>2, <1>4
<1>6. \A x \in DOMAIN bag : x # e => B[x] > 0
  BY <1>3
<1>7. d \in [DOMAIN d -> P]
  <2>1. \A x \in DOMAIN d : d[x] \in P
    BY <1>3, <1>5
  <2> HIDE DEF P
  <2> QED BY <1>2, <1>5, <2>1
<1> QED BY <1>5, <1>6, <1>7 DEF IsABag, d

\* The empty bag.
LEMMA EmptyBagIs == IsABag(EmptyBag) /\ DOMAIN EmptyBag = {}
BY DEF IsABag, EmptyBag, SetToBag

-----------------------------------------------------------------------------
(* The state and its steps *)

\* There are two users.
LEMMA OtherIs ==
    ASSUME NEW u \in Users
    PROVE  /\ Other(u) \in Users /\ Other(u) # u /\ Other(Other(u)) = u
           /\ \A w \in Users : w = u \/ w = Other(u)
<1>1. PICK a, b \in Users : a # b /\ Users = {a, b}
  BY ConstantsAssumption
<1>2. \A x \in Users : Other(x) \in Users /\ Other(x) # x
  <2> SUFFICES ASSUME NEW x \in Users PROVE Other(x) \in Users /\ Other(x) # x
    OBVIOUS
  <2>1. \E v \in Users : v # x
    BY <1>1
  <2> QED BY <2>1 DEF Other
<1> QED BY <1>1, <1>2

\* Messages of a call that u made.
Mine(u, args) == args \in Seq(Args) /\ \A j \in 1 .. Len(args) : args[j].message[1] = u

\* What calls and answers are made of.
Kinds == {"send", "read", "edit", "delete", "undelete"}
Calls == [kind : Kinds, args : Seq(Args), attempt : Nat, message : Messages \cup {<<>>}, n : Nat]
CallOf(u, c) == c \in Calls /\ Mine(u, c.args) /\ (c.kind # "send" => c.args = <<>>)
Answers == [args : Seq(Args), attempt : Nat, ok : BOOLEAN]

\* Whose messages are where, and that the bags are bags.
CopiesTyped ==
    /\ DOMAIN chats = Users /\ DOMAIN sent = Users
    /\ \A u \in Users :
          /\ Sound(chats[u]) /\ Mine(u, chats[u].unconfirmed) /\ sent[u] \in Nat
          /\ \A i \in 1 .. Len(chats[u].log) :
                chats[u].log[i][1] = u => chats[u].log[i][2] <= sent[u]
CallsTyped ==
    /\ DOMAIN calls = Users
    /\ \A u \in Users : calls[u] \in Seq(Calls) /\ \A c \in ToSet(calls[u]) : CallOf(u, c)
VerifyingTyped ==
    /\ DOMAIN verifying = Users
    /\ \A u \in Users : /\ IsABag(verifying[u])
                        /\ \A c \in DOMAIN verifying[u] : CallOf(Other(u), c) /\ c.kind = "send"
AnswersTyped ==
    /\ DOMAIN answers = Users
    /\ \A u \in Users : /\ IsABag(answers[u])
                        /\ \A a \in DOMAIN answers[u] : a \in Answers /\ Mine(u, a.args)
RetriesTyped ==
    /\ DOMAIN retries = Users
    /\ \A u \in Users : IsABag(retries[u]) /\ DOMAIN retries[u] \subseteq Nat
ResendsTyped ==
    /\ DOMAIN resends = Users
    /\ \A u \in Users : /\ IsABag(resends[u])
                        /\ \A c \in DOMAIN resends[u] : CallOf(u, c) /\ c.kind # "send"
QueuesTyped == CallsTyped /\ VerifyingTyped /\ AnswersTyped /\ RetriesTyped /\ ResendsTyped
Typed == CopiesTyped /\ QueuesTyped

\* The messages u has on their way in calls, and in calls and their answers.
Waiting(u) == {c.args : c \in ToSet(calls[u]) \cup DOMAIN verifying[Other(u)]}
Carrying(u) == Waiting(u) \cup {a.args : a \in DOMAIN answers[u]}
\* The read receipts of u that are on their way.
Receipts(u) == {c.n : c \in {d \in ToSet(calls[u]) \cup DOMAIN resends[u] : d.kind = "read"}}

\* There is nothing to do any more for message m of u to arrive.
Delivered(u, m) == m \in refused \/ Other(u) \in cleared \/ Has(chats[Other(u)], m)

\* Somebody will see to it that m of u is sent again, or has sent it.
Cared(u, m) == DOMAIN retries[u] # {} \/ \E args \in Carrying(u) : m \in Ids(args)

\* What a step may do to a copy.
CopyIsRead(u) ==
    /\ SameMessages(chats[u], chats'[u]) /\ sent'[u] = sent[u]
    /\ chats'[u].unread \subseteq chats[u].unread
    /\ chats'[u].read_by_me >= chats[u].read_by_me
    /\ \/ chats'[u].read_by_them = chats[u].read_by_them
       \/ \E n \in Receipts(Other(u)) : chats'[u].read_by_them <= n
CopySends(u) ==
    LET m == <<u, sent[u] + 1>> IN
    /\ sent'[u] = sent[u] + 1
    /\ chats'[u].log = Append(chats[u].log, m)
    /\ chats'[u].unconfirmed
         = Append(chats[u].unconfirmed, [message |-> m, index |-> Len(chats[u].log) + 1])
    /\ chats'[u].unread = chats[u].unread
    /\ chats'[u].read_by_me >= chats[u].read_by_me
    /\ chats'[u].read_by_them = chats[u].read_by_them
CopyIsConfirmed(u) ==
    /\ sent'[u] = sent[u] /\ chats'[u].log = chats[u].log
    /\ \E a \in DOMAIN answers[u] :
          a.ok /\ KeptOf(chats[u].unconfirmed, Ids(a.args), Len(chats[u].unconfirmed),
                         chats'[u].unconfirmed)
    /\ chats'[u].unread = chats[u].unread
    /\ chats'[u].read_by_me = chats[u].read_by_me
    /\ chats'[u].read_by_them = chats[u].read_by_them
CopyReceives(u) ==
    /\ sent'[u] = sent[u]
    /\ \E args \in Waiting(Other(u)) : Taken(chats[u], args, Len(args), chats'[u])
CopyIsDeleted(u) == sent'[u] = sent[u] /\ u \in cleared' /\ chats'[u] = NewChat

CopyStep(u) ==
    /\ Sound(chats'[u])
    /\ CopyIsRead(u) \/ CopySends(u) \/ CopyIsConfirmed(u) \/ CopyReceives(u) \/ CopyIsDeleted(u)

\* ... to what is on its way,
AnswersStep(u) ==
    \A a \in DOMAIN answers'[u] :
        \/ a \in DOMAIN answers[u]
        \/ a.args \in Waiting(u) /\ (a.ok => \A m \in Ids(a.args) : Delivered(u, m)')
ReceiptsStep(u) ==
    \A n \in Receipts(u)' :
        \/ n \in Receipts(u)
        \/ \E e \in chats[u].unread : e.theirs = n /\ e.ours <= chats'[u].read_by_me
NothingDropped(u) ==
    \A m \in Ids(chats'[u].unconfirmed) :
        \/ Cared(u, m)' \/ m \in abandoned'
        \/ m \in Ids(chats[u].unconfirmed) /\ ~Cared(u, m)

\* ... and all that a step may do.
Step ==
    /\ DOMAIN chats' = Users /\ DOMAIN sent' = Users
    /\ refused \subseteq refused' /\ cleared \subseteq cleared' /\ abandoned \subseteq abandoned'
    /\ \A u \in Users :
          /\ CopyStep(u) /\ AnswersStep(u) /\ ReceiptsStep(u) /\ NothingDropped(u)
          /\ Waiting(u)' \subseteq Waiting(u) \cup {<<>>, chats'[u].unconfirmed}

-----------------------------------------------------------------------------
(* What the parts of a step do *)

\* A call is made.
LEMMA CallingIs ==
    ASSUME CallsTyped, NEW u \in Users, NEW c, CallOf(u, c), Calling(u, c)
    PROVE  /\ CallsTyped' /\ ToSet(calls'[u]) = ToSet(calls[u]) \cup {c}
           /\ \A w \in Users : w # u => calls'[w] = calls[w]
<1>1. /\ DOMAIN calls' = Users /\ calls'[u] = Append(calls[u], c)
      /\ \A w \in Users : w # u => calls'[w] = calls[w]
  BY DEF Calling, CallsTyped
<1>2. c \in Calls /\ calls[u] \in Seq(Calls) /\ \A x \in ToSet(calls[u]) : CallOf(u, x)
  BY DEF CallOf, CallsTyped
<1>3. calls'[u] \in Seq(Calls) /\ ToSet(calls'[u]) = ToSet(calls[u]) \cup {c}
  <2> HIDE DEF Calls
  <2> QED BY <1>1, <1>2, AppendedIs
<1> QED BY <1>1, <1>2, <1>3 DEF CallsTyped

\* A call is answered.
LEMMA AnswerIs ==
    ASSUME AnswersTyped, NEW u \in Users, NEW call, CallOf(u, call), NEW ok \in BOOLEAN,
           Answer(u, call, ok)
    PROVE  /\ AnswersTyped'
           /\ DOMAIN answers'[u] = DOMAIN answers[u]
                \cup {[args |-> call.args, attempt |-> call.attempt, ok |-> ok]}
           /\ \A w \in Users : w # u => answers'[w] = answers[w]
<1> DEFINE a == [args |-> call.args, attempt |-> call.attempt, ok |-> ok]
<1>1. /\ DOMAIN answers' = Users /\ answers'[u] = AddTo(answers[u], a)
      /\ \A w \in Users : w # u => answers'[w] = answers[w]
  BY DEF Answer, AnswersTyped
<1>2. a \in Answers /\ Mine(u, a.args)
  BY DEF CallOf, Calls, Answers
<1> HIDE DEF a
<1>3. IsABag(answers'[u]) /\ DOMAIN answers'[u] = DOMAIN answers[u] \cup {a}
  <2>1. IsABag(answers[u])
    BY DEF AnswersTyped
  <2> QED BY <1>1, <2>1, AddToIs
<1>4. AnswersTyped'
  BY <1>1, <1>2, <1>3 DEF AnswersTyped
<1> QED BY <1>1, <1>3, <1>4 DEF a

\* A copy, and the rest, that nothing happens to.
LEMMA CopyIsLeft ==
    ASSUME CopiesTyped, NEW u \in Users, chats'[u] = chats[u], sent'[u] = sent[u]
    PROVE  CopyStep(u)
<1>1. Sound(chats[u]) /\ chats[u].read_by_me \in Nat
  BY CopyIs DEF CopiesTyped, Sound
<1> QED BY <1>1 DEF CopyStep, CopyIsRead, SameMessages

\* What is unconfirmed stays cared for, as long as no call or retry is taken away.
LEMMA NothingIsDropped ==
    ASSUME NEW u \in Users, Ids(chats'[u].unconfirmed) \subseteq Ids(chats[u].unconfirmed),
           Carrying(u) \subseteq Carrying(u)' \cup {<<>>},
           DOMAIN retries[u] \subseteq DOMAIN retries'[u]
    PROVE  NothingDropped(u)
<1>1. Ids(<<>>) = {}
  BY DEF Ids
<1>2. \A m : Cared(u, m) => Cared(u, m)'
  BY <1>1 DEF Cared
<1> QED BY <1>2 DEF NothingDropped

\* No answer, or no receipt, is new.
LEMMA SameAnswers ==
    ASSUME NEW u \in Users, answers'[u] = answers[u]
    PROVE  AnswersStep(u)
BY DEF AnswersStep

LEMMA SameReceipts ==
    ASSUME NEW u \in Users, Receipts(u)' \subseteq Receipts(u)
    PROVE  ReceiptsStep(u)
BY DEF ReceiptsStep

\* No messages are sent, nor handled.
QuietQueues ==
    /\ QueuesTyped' /\ answers' = answers /\ retries' = retries
    /\ \A w \in Users : /\ Waiting(w)' \subseteq Waiting(w) \cup {<<>>}
                        /\ Waiting(w) \subseteq Waiting(w)' \cup {<<>>}

\* Nothing that is on its way moves,
LEMMA QueuesLeft ==
    ASSUME QueuesTyped, UNCHANGED <<calls, verifying, answers, retries, resends>>
    PROVE  QuietQueues /\ \A w \in Users : Receipts(w)' = Receipts(w)
<1>1. QueuesTyped'
  BY DEF QueuesTyped, CallsTyped, VerifyingTyped, AnswersTyped, RetriesTyped, ResendsTyped
<1>2. \A w \in Users : Waiting(w)' = Waiting(w) /\ Receipts(w)' = Receipts(w)
  BY DEF Waiting, Receipts
<1> QED BY <1>1, <1>2 DEF QuietQueues

\* The calls of u change, by a call without messages that comes or goes.
LEMMA OneCallMore ==
    ASSUME QueuesTyped, NEW u \in Users, NEW c, CallOf(u, c), c.kind # "send",
           CallsTyped', ToSet(calls'[u]) \subseteq ToSet(calls[u]) \cup {c},
           ToSet(calls[u]) \subseteq ToSet(calls'[u]) \cup {c},
           \A w \in Users : w # u => calls'[w] = calls[w],
           UNCHANGED <<verifying, answers, retries>>, ResendsTyped'
    PROVE  QuietQueues
<1>1. QueuesTyped'
  BY DEF QueuesTyped, VerifyingTyped, AnswersTyped, RetriesTyped
<1>2. c.args = <<>>
  BY DEF CallOf
<1>3. \A w \in Users : /\ Waiting(w)' \subseteq Waiting(w) \cup {<<>>}
                       /\ Waiting(w) \subseteq Waiting(w)' \cup {<<>>}
  BY <1>2 DEF Waiting
<1> QED BY <1>1, <1>3 DEF QuietQueues

\* or only a call without messages, which is made
LEMMA SmallCallMade ==
    ASSUME QueuesTyped, NEW u \in Users, NEW c, CallOf(u, c), c.kind # "send", Calling(u, c),
           UNCHANGED <<verifying, answers, retries, resends>>
    PROVE  /\ QuietQueues
           /\ \A w \in Users : w # u => Receipts(w)' = Receipts(w)
           /\ c.kind # "read" => Receipts(u)' = Receipts(u)
           /\ Receipts(u)' \subseteq Receipts(u) \cup {c.n}
<1>1. /\ CallsTyped' /\ ToSet(calls'[u]) = ToSet(calls[u]) \cup {c}
      /\ \A w \in Users : w # u => calls'[w] = calls[w]
  BY CallingIs DEF QueuesTyped
<1>2. ResendsTyped'
  BY DEF QueuesTyped, ResendsTyped
<1>3. QuietQueues
  BY <1>1, <1>2, OneCallMore
<1>4. \A w \in Users : w # u => Receipts(w)' = Receipts(w)
  BY <1>1 DEF Receipts
<1>5. c.kind # "read" => Receipts(u)' = Receipts(u)
  BY <1>1 DEF Receipts
<1>6. Receipts(u)' \subseteq Receipts(u) \cup {c.n}
  BY <1>1 DEF Receipts
<1> QED BY <1>3, <1>4, <1>5, <1>6

\* The oldest call is taken out.
LEMMA CallTaken ==
    ASSUME CallsTyped, NEW u \in Users, calls[u] # <<>>, calls' = [calls EXCEPT ![u] = Tail(@)]
    PROVE  /\ CallsTyped' /\ CallOf(u, Head(calls[u])) /\ Head(calls[u]) \in ToSet(calls[u])
           /\ ToSet(calls'[u]) \subseteq ToSet(calls[u])
           /\ ToSet(calls[u]) \subseteq ToSet(calls'[u]) \cup {Head(calls[u])}
           /\ \A w \in Users : w # u => calls'[w] = calls[w]
<1>1. /\ DOMAIN calls' = Users /\ calls'[u] = Tail(calls[u])
      /\ \A w \in Users : w # u => calls'[w] = calls[w]
  BY DEF CallsTyped
<1>2. calls[u] \in Seq(Calls) /\ \A x \in ToSet(calls[u]) : CallOf(u, x)
  BY DEF CallsTyped
<1>3. /\ Head(calls[u]) \in ToSet(calls[u]) /\ calls'[u] \in Seq(Calls)
      /\ ToSet(calls'[u]) \subseteq ToSet(calls[u])
      /\ ToSet(calls[u]) \subseteq ToSet(calls'[u]) \cup {Head(calls[u])}
  <2> HIDE DEF Calls
  <2> QED BY <1>1, <1>2, TailIs
<1> QED BY <1>1, <1>2, <1>3 DEF CallsTyped

\* and handled.
LEMMA SmallCallHandled ==
    ASSUME QueuesTyped, NEW u \in Users, calls[u] # <<>>, Head(calls[u]).kind # "send",
           calls' = [calls EXCEPT ![u] = Tail(@)],
           UNCHANGED <<verifying, answers, retries, resends>>
    PROVE  QuietQueues /\ \A w \in Users : Receipts(w)' \subseteq Receipts(w)
<1> DEFINE c == Head(calls[u])
<1>1. /\ CallsTyped' /\ CallOf(u, c) /\ ToSet(calls'[u]) \subseteq ToSet(calls[u])
      /\ ToSet(calls[u]) \subseteq ToSet(calls'[u]) \cup {c}
      /\ \A w \in Users : w # u => calls'[w] = calls[w]
  BY CallTaken DEF QueuesTyped
<1>2. ResendsTyped'
  BY DEF QueuesTyped, ResendsTyped
<1>3. \A w \in Users : Receipts(w)' \subseteq Receipts(w)
  BY <1>1 DEF Receipts
<1> HIDE DEF c
<1>4. QuietQueues
  <2>1. c.kind # "send"
    BY DEF c
  <2>2. ToSet(calls'[u]) \subseteq ToSet(calls[u]) \cup {c}
    BY <1>1
  <2> QED BY <1>1, <1>2, <2>1, <2>2, OneCallMore
<1> QED BY <1>3, <1>4

\* A copy is read, or its contents change.
LEMMA CopyChanged ==
    ASSUME CopiesTyped, NEW u \in Users, NEW d, chats' = [chats EXCEPT ![u] = d], sent' = sent,
           Sound(d), SameMessages(chats[u], d), d.unread \subseteq chats[u].unread,
           d.read_by_me >= chats[u].read_by_me,
           \/ d.read_by_them = chats[u].read_by_them
           \/ \E n \in Receipts(Other(u)) : d.read_by_them <= n
    PROVE  /\ DOMAIN chats' = Users
           /\ \A w \in Users : Sound(chats'[w]) /\ CopyIsRead(w)
<1>1. /\ DOMAIN chats' = Users /\ chats'[u] = d
      /\ \A w \in Users : w # u => chats'[w] = chats[w]
  BY DEF CopiesTyped
<1>2. Sound(chats'[u]) /\ CopyIsRead(u)
  BY <1>1 DEF CopyIsRead
<1>3. ASSUME NEW w \in Users, w # u PROVE Sound(chats'[w]) /\ CopyIsRead(w)
  <2>1. Sound(chats[w]) /\ chats[w].read_by_me \in Nat /\ chats'[w] = chats[w]
    BY <1>1, <1>3, CopyIs DEF CopiesTyped, Sound
  <2> QED BY <2>1 DEF CopyIsRead, SameMessages
<1> QED BY <1>1, <1>2, <1>3

\* The copies are left alone.
LEMMA CopiesLeft ==
    ASSUME CopiesTyped, UNCHANGED <<chats, sent>>
    PROVE  /\ DOMAIN chats' = Users
           /\ \A w \in Users : Sound(chats'[w]) /\ CopyIsRead(w)
<1>1. ASSUME NEW w \in Users PROVE Sound(chats'[w]) /\ CopyIsRead(w)
  <2>1. Sound(chats[w]) /\ chats[w].read_by_me \in Nat
    BY CopyIs DEF CopiesTyped, Sound
  <2> QED BY <2>1 DEF CopyIsRead, SameMessages
<1> QED BY <1>1 DEF CopiesTyped

\* A step in which no messages move.
LEMMA QuietStep ==
    ASSUME Typed, DOMAIN chats' = Users, sent' = sent,
           refused \subseteq refused', cleared \subseteq cleared', abandoned \subseteq abandoned',
           \A w \in Users : Sound(chats'[w]) /\ CopyIsRead(w),
           QuietQueues, \A w \in Users : ReceiptsStep(w)
    PROVE  Step
<1> SUFFICES ASSUME NEW w \in Users
             PROVE  /\ CopyStep(w) /\ AnswersStep(w) /\ ReceiptsStep(w) /\ NothingDropped(w)
                    /\ Waiting(w)' \subseteq Waiting(w) \cup {<<>>, chats'[w].unconfirmed}
  BY DEF Step, Typed, CopiesTyped
<1>1. CopyStep(w)
  BY DEF CopyStep
<1>2. AnswersStep(w)
  BY SameAnswers DEF QuietQueues
<1>3. NothingDropped(w)
  <2>1. chats'[w].unconfirmed = chats[w].unconfirmed
    BY DEF CopyIsRead, SameMessages
  <2>2. Carrying(w) \subseteq Carrying(w)' \cup {<<>>}
    BY DEF Carrying, QuietQueues
  <2>3. Ids(chats'[w].unconfirmed) \subseteq Ids(chats[w].unconfirmed)
    BY <2>1
  <2>4. DOMAIN retries[w] \subseteq DOMAIN retries'[w]
    BY DEF QuietQueues
  <2> QED BY <2>2, <2>3, <2>4, NothingIsDropped
<1> QED BY <1>1, <1>2, <1>3 DEF QuietQueues

-----------------------------------------------------------------------------
(* The actions that send and receive nothing *)

Good == QueuesTyped' /\ Step

\* The actions, one after the other: those that touch neither copies nor calls,
LEMMA LeftAloneSteps ==
    ASSUME Typed, UNCHANGED <<chats, calls, verifying, answers, retries, resends, sent>>,
           refused \subseteq refused', cleared \subseteq cleared', abandoned \subseteq abandoned'
    PROVE  Good
<1>1. QuietQueues /\ \A w \in Users : Receipts(w)' = Receipts(w)
  BY QueuesLeft DEF Typed
<1>2. \A w \in Users : ReceiptsStep(w)
  BY <1>1, SameReceipts
<1>3. DOMAIN chats' = Users /\ \A w \in Users : Sound(chats'[w]) /\ CopyIsRead(w)
  BY CopiesLeft DEF Typed
<1> QED BY <1>1, <1>2, <1>3, QuietStep DEF Good, QuietQueues

\* a repeated call,
LEMMA ResendSteps ==
    ASSUME Typed, NEW u \in Users, NEW call \in BagToSet(resends[u]), Resend(u, call)
    PROVE  Good
<1>1. /\ call \in DOMAIN resends[u] /\ resends' = [resends EXCEPT ![u] = TakeFrom(@, call)]
      /\ Calling(u, call)
      /\ UNCHANGED <<chats, verifying, answers, retries, sent, refused, cleared, abandoned>>
  BY DEF Resend, BagToSet, history
<1>2. CallOf(u, call) /\ call.kind # "send" /\ IsABag(resends[u]) /\ DOMAIN resends = Users
  BY <1>1 DEF Typed, QueuesTyped, ResendsTyped
<1>3. /\ CallsTyped' /\ ToSet(calls'[u]) = ToSet(calls[u]) \cup {call}
      /\ \A w \in Users : w # u => calls'[w] = calls[w]
  BY <1>1, <1>2, CallingIs DEF Typed, QueuesTyped
<1>4. /\ IsABag(resends'[u]) /\ DOMAIN resends'[u] \subseteq DOMAIN resends[u]
      /\ \A w \in Users : w # u => resends'[w] = resends[w]
  BY <1>1, <1>2, TakeFromIs
<1>5. ResendsTyped'
  BY <1>1, <1>4 DEF Typed, QueuesTyped, ResendsTyped
<1>6. QuietQueues
  BY <1>1, <1>2, <1>3, <1>5, OneCallMore DEF Typed
<1>7. \A w \in Users : Receipts(w)' \subseteq Receipts(w)
  BY <1>1, <1>3, <1>4 DEF Receipts
<1>8. \A w \in Users : ReceiptsStep(w)
  BY <1>7, SameReceipts
<1>9. DOMAIN chats' = Users /\ \A w \in Users : Sound(chats'[w]) /\ CopyIsRead(w)
  BY <1>1, CopiesLeft DEF Typed
<1> QED BY <1>1, <1>6, <1>8, <1>9, QuietStep DEF Good, QuietQueues

\* The calls without messages.
LEMMA SmallCallIs ==
    ASSUME NEW u, NEW kind \in Kinds, kind # "send", NEW m \in Messages \cup {<<>>}, NEW n \in Nat,
           NEW c, c = [kind |-> kind, args |-> <<>>, attempt |-> 0, message |-> m, n |-> n]
    PROVE  CallOf(u, c) /\ c.kind = kind /\ c.n = n
<1>1. <<>> \in Seq(Args) /\ Len(<<>>) = 0
  OBVIOUS
<1>2. c.kind = kind /\ c.args = <<>> /\ c.n = n
  OBVIOUS
<1>3. c \in Calls
  <2> DEFINE S == Seq(Args)
             T == Messages \cup {<<>>}
             empty == <<>>
  <2>1. empty \in S
    BY <1>1
  <2>2. m \in T
    OBVIOUS
  <2>3. c = [kind |-> kind, args |-> empty, attempt |-> 0, message |-> m, n |-> n]
    OBVIOUS
  <2>4. Calls = [kind : Kinds, args : S, attempt : Nat, message : T, n : Nat]
    BY DEF Calls
  <2> HIDE DEF S, T, empty
  <2> QED BY <2>1, <2>2, <2>3, <2>4
<1>4. Mine(u, c.args)
  BY <1>1, <1>2 DEF Mine
<1> QED BY <1>2, <1>3, <1>4 DEF CallOf

\* mark_read,
LEMMA MarkReadSteps ==
    ASSUME Typed, NEW u \in Users, NEW index \in 1 .. Len(chats[u].log), MarkRead(u, index)
    PROVE  Good
<1> DEFINE theirs == MaxReadUpToOfTheirs(chats[u], index)
           chat == ReadByMe(chats[u], index)
           d == chats'[u]
<1>1. /\ Sound(chats[u]) /\ index \in Nat /\ index <= Len(chats[u].log)
      /\ UNCHANGED <<verifying, answers, retries, resends, sent, refused, abandoned, cleared>>
      /\ DOMAIN chats = Users
  BY CopyIs DEF Typed, CopiesTyped, MarkRead, Sound
<1>2. /\ Sound(chat) /\ SameMessages(chats[u], chat) /\ chat.unread = chats[u].unread
      /\ chat.read_by_them = chats[u].read_by_them
      /\ chat.read_by_me >= chats[u].read_by_me /\ chat.read_by_me >= index
  BY <1>1, ReadByMeIs
<1>3. theirs \in Nat
      /\ (theirs = 0 \/ \E e \in chats[u].unread : e.ours <= index /\ theirs = e.theirs)
  BY <1>1, MaxReadUpToOfTheirsIs
<1>4. chat.read_by_me \in Nat /\ \A e \in chats[u].unread : e.ours \in Nat
  BY <1>1, <1>2, CopyIs DEF Sound
<1>5. CASE theirs > 0
  <2>1. /\ chats' = [chats EXCEPT ![u] = RemoveUpTo(chat, theirs)]
        /\ Calling(u, ReadCall(theirs))
    BY <1>5 DEF MarkRead
  <2> HIDE DEF theirs, chat
  <2>2. CallOf(u, ReadCall(theirs)) /\ ReadCall(theirs).kind # "send"
        /\ ReadCall(theirs).n = theirs
    <3> DEFINE c == ReadCall(theirs)
    <3>1. c = [kind |-> "read", args |-> <<>>, attempt |-> 0, message |-> <<>>, n |-> theirs]
      BY DEF ReadCall, Call
    <3>2. "read" \in Kinds /\ <<>> \in Messages \cup {<<>>}
      BY DEF Kinds
    <3> HIDE DEF c
    <3>3. CallOf(u, c) /\ c.kind = "read" /\ c.n = theirs
      BY <1>3, <3>1, <3>2, SmallCallIs
    <3> QED BY <3>3 DEF c
  <2>3. /\ QuietQueues /\ \A w \in Users : w # u => Receipts(w)' = Receipts(w)
        /\ Receipts(u)' \subseteq Receipts(u) \cup {theirs}
    BY <1>1, <2>1, <2>2, SmallCallMade DEF Typed
  <2> DEFINE r == RemoveUpTo(chat, theirs)
  <2>4. /\ Sound(r) /\ SameMessages(chat, r) /\ r.unread \subseteq chat.unread
        /\ r.read_by_me = chat.read_by_me /\ r.read_by_them = chat.read_by_them
    BY <1>2, RemoveUpToIs
  <2>5. /\ chats' = [chats EXCEPT ![u] = r] /\ SameMessages(chats[u], r)
        /\ r.unread \subseteq chats[u].unread /\ r.read_by_me >= chats[u].read_by_me
        /\ r.read_by_them = chats[u].read_by_them
    BY <1>2, <2>1, <2>4 DEF SameMessages
  <2>6. chats'[u] = r
    BY <1>1, <2>5
  <2> HIDE DEF r
  <2>7. DOMAIN chats' = Users /\ \A w \in Users : Sound(chats'[w]) /\ CopyIsRead(w)
    BY <1>1, <2>4, <2>5, CopyChanged DEF Typed
  <2>8. ReceiptsStep(u)
    <3>1. PICK e \in chats[u].unread : e.ours <= index /\ theirs = e.theirs
      BY <1>3, <1>5 DEF theirs
    <3>2. e.ours <= chats'[u].read_by_me
      BY <1>1, <1>2, <1>4, <2>4, <2>6, <3>1
    <3> QED BY <2>3, <3>1, <3>2 DEF ReceiptsStep
  <2>9. \A w \in Users : ReceiptsStep(w)
    BY <2>3, <2>8, SameReceipts
  <2> QED BY <1>1, <2>3, <2>7, <2>9, QuietStep DEF Good, QuietQueues
<1>6. CASE ~(theirs > 0)
  <2>1. chats' = [chats EXCEPT ![u] = chat] /\ UNCHANGED calls
    BY <1>6 DEF MarkRead
  <2>2. QuietQueues /\ \A w \in Users : Receipts(w)' = Receipts(w)
    BY <1>1, <2>1, QueuesLeft DEF Typed
  <2>3. \A w \in Users : ReceiptsStep(w)
    BY <2>2, SameReceipts
  <2>4. DOMAIN chats' = Users /\ \A w \in Users : Sound(chats'[w]) /\ CopyIsRead(w)
    BY <1>1, <1>2, <2>1, CopyChanged DEF Typed
  <2> QED BY <1>1, <2>2, <2>3, <2>4, QuietStep DEF Good, QuietQueues
<1> QED BY <1>5, <1>6

\* The content of a copy changes, and a call may be made about it.
LEMMA ContentSteps ==
    ASSUME Typed, NEW u \in Users, NEW d, Touched(chats[u], d),
           chats' = [chats EXCEPT ![u] = d],
           \/ UNCHANGED calls
           \/ \E c : CallOf(u, c) /\ c.kind \notin {"send", "read"} /\ Calling(u, c),
           UNCHANGED <<verifying, answers, retries, resends, sent, refused, abandoned, cleared>>
    PROVE  Good
<1>1. DOMAIN chats' = Users /\ \A w \in Users : Sound(chats'[w]) /\ CopyIsRead(w)
  <2>1. Sound(chats[u]) /\ chats[u].read_by_me \in Nat
    BY CopyIs DEF Typed, CopiesTyped, Sound
  <2>2. /\ Sound(d) /\ SameMessages(chats[u], d) /\ d.unread \subseteq chats[u].unread
        /\ d.read_by_me >= chats[u].read_by_me
        /\ d.read_by_them = chats[u].read_by_them
    BY <2>1 DEF Touched
  <2> QED BY <2>2, CopyChanged DEF Typed
<1>2. QuietQueues /\ \A w \in Users : Receipts(w)' = Receipts(w)
  <2>1. CASE UNCHANGED calls
    BY <2>1, QueuesLeft DEF Typed
  <2>2. ASSUME NEW c, CallOf(u, c), c.kind \notin {"send", "read"}, Calling(u, c)
        PROVE  QuietQueues /\ \A w \in Users : Receipts(w)' = Receipts(w)
    BY <2>2, SmallCallMade DEF Typed
  <2> QED BY <2>1, <2>2
<1>3. \A w \in Users : ReceiptsStep(w)
  BY <1>2, SameReceipts
<1> QED BY <1>1, <1>2, <1>3, QuietStep DEF Good, QuietQueues

\* edit_message_v2,
LEMMA EditSteps ==
    ASSUME Typed, NEW u \in Users, NEW m, EditMessage(u, m)
    PROVE  Good
<1> DEFINE version == chats[u].content[m].version + 1
           d == Edited(chats[u], m, version)
           c == EditCall(m, version)
<1>1. /\ Has(chats[u], m) /\ chats' = [chats EXCEPT ![u] = d] /\ Calling(u, c)
      /\ UNCHANGED <<verifying, answers, retries, resends, sent, refused, abandoned, cleared>>
  BY DEF EditMessage, CanEdit
<1>2. Sound(chats[u]) /\ chats[u].content[m] \in Contents /\ m \in Messages
  BY <1>1, ContentOf DEF Typed, CopiesTyped
<1>3. version \in Nat
  BY <1>2 DEF Contents
<1> HIDE DEF version
<1>4. Touched(chats[u], d)
  BY <1>1, <1>2, <1>3, EditedIs
<1>5. CallOf(u, c) /\ c.kind \notin {"send", "read"}
  <2>1. c = [kind |-> "edit", args |-> <<>>, attempt |-> 0, message |-> m, n |-> version]
    <3> DEFINE r == Call("edit")
               s == [r EXCEPT !.message = m]
    <3>1. r = [kind |-> "edit", args |-> <<>>, attempt |-> 0, message |-> <<>>, n |-> 0]
      BY DEF Call
    <3>2. s = [kind |-> "edit", args |-> <<>>, attempt |-> 0, message |-> m, n |-> 0]
      BY <3>1
    <3>3. c = [s EXCEPT !.n = version]
      BY DEF EditCall
    <3> HIDE DEF s, c
    <3> QED BY <3>2, <3>3
  <2>2. "edit" \in Kinds /\ m \in Messages \cup {<<>>}
    BY <1>2 DEF Kinds
  <2> HIDE DEF c
  <2> QED BY <1>3, <2>1, <2>2, SmallCallIs
<1> HIDE DEF d, c
<1> QED BY <1>1, <1>4, <1>5, ContentSteps

\* delete_messages,
LEMMA DeleteSteps ==
    ASSUME Typed, NEW u \in Users, NEW m, DeleteMessage(u, m)
    PROVE  Good
<1> DEFINE d == Deleted(chats[u], u, m)
           c == DeleteCall(m)
<1>1. /\ Has(chats[u], m) /\ chats' = [chats EXCEPT ![u] = d]
      /\ UNCHANGED calls \/ Calling(u, c)
      /\ UNCHANGED <<verifying, answers, retries, resends, sent, refused, abandoned, cleared>>
  BY DEF DeleteMessage, CanDelete
<1>2. Sound(chats[u]) /\ m \in Messages
  BY <1>1, ContentOf DEF Typed, CopiesTyped
<1>4. Touched(chats[u], d)
  BY <1>1, <1>2, DeletedIs
<1>5. CallOf(u, c) /\ c.kind \notin {"send", "read"}
  <2>1. c = [kind |-> "delete", args |-> <<>>, attempt |-> 0, message |-> m, n |-> 0]
    BY DEF DeleteCall, Call
  <2>2. "delete" \in Kinds /\ m \in Messages \cup {<<>>}
    BY <1>2 DEF Kinds
  <2> HIDE DEF c
  <2> QED BY <2>1, <2>2, SmallCallIs
<1> HIDE DEF d, c
<1> QED BY <1>1, <1>4, <1>5, ContentSteps

\* undelete_messages,
LEMMA UndeleteSteps ==
    ASSUME Typed, NEW u \in Users, NEW m, UndeleteMessage(u, m)
    PROVE  Good
<1> DEFINE d == Undeleted(chats[u], m)
           c == UndeleteCall(m)
<1>1. /\ Has(chats[u], m) /\ chats' = [chats EXCEPT ![u] = d] /\ Calling(u, c)
      /\ UNCHANGED <<verifying, answers, retries, resends, sent, refused, abandoned, cleared>>
  BY DEF UndeleteMessage, CanUndelete, history
<1>2. Sound(chats[u]) /\ m \in Messages
  BY <1>1, ContentOf DEF Typed, CopiesTyped
<1>4. Touched(chats[u], d)
  BY <1>1, <1>2, UndeletedIs
<1>5. CallOf(u, c) /\ c.kind \notin {"send", "read"}
  <2>1. c = [kind |-> "undelete", args |-> <<>>, attempt |-> 0, message |-> m, n |-> 0]
    BY DEF UndeleteCall, Call
  <2>2. "undelete" \in Kinds /\ m \in Messages \cup {<<>>}
    BY <1>2 DEF Kinds
  <2> HIDE DEF c
  <2> QED BY <2>1, <2>2, SmallCallIs
<1> HIDE DEF d, c
<1> QED BY <1>1, <1>4, <1>5, ContentSteps

\* HardDeleteMessageContentJob.
LEMMA HardDeleteSteps ==
    ASSUME Typed, NEW u \in Users, NEW m, HardDelete(u, m)
    PROVE  Good
<1> DEFINE d == Destroyed(chats[u], m)
<1>1. chats' = [chats EXCEPT ![u] = d] /\ UNCHANGED calls
      /\ UNCHANGED <<verifying, answers, retries, resends, sent, refused, abandoned, cleared>>
  BY DEF HardDelete, history
<1>2. Touched(chats[u], d)
  BY DestroyedIs DEF Typed, CopiesTyped
<1> HIDE DEF d
<1> QED BY <1>1, <1>2, ContentSteps

-----------------------------------------------------------------------------
(* Sending *)

\* A call with messages is well formed.
LEMMA SendCallIs ==
    ASSUME NEW u, NEW args, Mine(u, args), NEW attempt \in Nat
    PROVE  /\ CallOf(u, SendCall(args, attempt)) /\ SendCall(args, attempt).args = args
           /\ SendCall(args, attempt).kind = "send"
<1> DEFINE r == Call("send")
           s == [r EXCEPT !.args = args]
           c == SendCall(args, attempt)
           S == Seq(Args)
           T == Messages \cup {<<>>}
           empty == <<>>
<1>1. r = [kind |-> "send", args |-> empty, attempt |-> 0, message |-> empty, n |-> 0]
  BY DEF Call
<1>2. c = [s EXCEPT !.attempt = attempt]
  BY DEF SendCall
<1>3. args \in S /\ empty \in T /\ "send" \in Kinds
  BY DEF Mine, Kinds
<1>4. Calls = [kind : Kinds, args : S, attempt : Nat, message : T, n : Nat]
  BY DEF Calls
<1> HIDE DEF c, r, S, T, empty
<1>5. s = [kind |-> "send", args |-> args, attempt |-> 0, message |-> empty, n |-> 0]
  BY <1>1
<1> HIDE DEF s
<1>6. c = [kind |-> "send", args |-> args, attempt |-> attempt, message |-> empty, n |-> 0]
  BY <1>2, <1>5
<1>7. c \in Calls /\ c.args = args /\ c.kind = "send"
  BY <1>3, <1>4, <1>6
<1> QED BY <1>7 DEF CallOf, c

\* An empty batch carries nothing.
LEMMA IdsOf == \A args : Ids(<<>>) = {}
BY DEF Ids

\* Nothing is unconfirmed, or all of it is on its way.
LEMMA NothingToDrop ==
    ASSUME NEW u, Ids(chats'[u].unconfirmed) = {}
    PROVE  NothingDropped(u)
BY DEF NothingDropped

LEMMA AllAreCarried ==
    ASSUME NEW u, chats'[u].unconfirmed \in Waiting(u)'
    PROVE  NothingDropped(u)
BY DEF NothingDropped, Cared, Carrying

\* u calls with all that is unconfirmed.
LEMMA AllAreSent ==
    ASSUME Typed, NEW u \in Users, NEW attempt \in Nat, Mine(u, chats'[u].unconfirmed),
           Calling(u, SendCall(chats'[u].unconfirmed, attempt)),
           UNCHANGED <<verifying, answers, resends>>, RetriesTyped',
           DOMAIN chats' = Users, DOMAIN sent' = Users,
           \A w \in Users : CopyStep(w),
           \A w \in Users : w # u => chats'[w] = chats[w] /\ retries'[w] = retries[w],
           refused \subseteq refused', cleared \subseteq cleared', abandoned \subseteq abandoned'
    PROVE  Good
<1> DEFINE args == chats'[u].unconfirmed
           c == SendCall(args, attempt)
<1>1. CallOf(u, c) /\ c.args = args /\ c.kind = "send"
  BY SendCallIs
<1> HIDE DEF args, c
<1>2. /\ CallsTyped' /\ ToSet(calls'[u]) = ToSet(calls[u]) \cup {c}
      /\ \A w \in Users : w # u => calls'[w] = calls[w]
  BY <1>1, CallingIs DEF Typed, QueuesTyped, args, c
<1>3. QueuesTyped'
  BY <1>2 DEF Typed, QueuesTyped, VerifyingTyped, AnswersTyped, ResendsTyped
<1>4. Waiting(u)' = Waiting(u) \cup {args}
  BY <1>1, <1>2 DEF Waiting
<1>5. \A w \in Users : w # u => Waiting(w)' = Waiting(w) /\ Carrying(w)' = Carrying(w)
  BY <1>2 DEF Waiting, Carrying
<1>6. \A w \in Users : Receipts(w)' = Receipts(w)
  BY <1>1, <1>2 DEF Receipts
<1> SUFFICES ASSUME NEW w \in Users
             PROVE  /\ AnswersStep(w) /\ ReceiptsStep(w) /\ NothingDropped(w)
                    /\ Waiting(w)' \subseteq Waiting(w) \cup {<<>>, chats'[w].unconfirmed}
  BY <1>3 DEF Step, Good
<1>7. AnswersStep(w) /\ ReceiptsStep(w)
  BY <1>6, SameAnswers, SameReceipts
<1>8. NothingDropped(w)
  <2>1. CASE w = u
    BY <1>4, <2>1, AllAreCarried DEF args
  <2>2. CASE w # u
    <3>1. chats'[w] = chats[w] /\ retries'[w] = retries[w] /\ Carrying(w)' = Carrying(w)
      BY <1>5, <2>2
    <3>2. /\ Ids(chats'[w].unconfirmed) \subseteq Ids(chats[w].unconfirmed)
          /\ Carrying(w) \subseteq Carrying(w)' \cup {<<>>}
          /\ DOMAIN retries[w] \subseteq DOMAIN retries'[w]
      BY <3>1
    <3> QED BY <3>2, NothingIsDropped
  <2> QED BY <2>1, <2>2
<1>9. Waiting(w)' \subseteq Waiting(w) \cup {<<>>, chats'[w].unconfirmed}
  BY <1>4, <1>5 DEF args
<1> QED BY <1>7, <1>8, <1>9

\* send_message_impl,
LEMMA SendImplSteps ==
    ASSUME Typed, NEW u \in Users, SendImpl(u),
           UNCHANGED <<verifying, answers, retries, resends, refused, abandoned, cleared>>
    PROVE  Good
<1> DEFINE m == <<u, sent[u] + 1>>
           d == SentMessage(chats[u], m)
<1>1. /\ chats' = [chats EXCEPT ![u] = d] /\ sent' = [sent EXCEPT ![u] = @ + 1]
      /\ Calling(u, SendCall(d.unconfirmed, 0))
  BY DEF SendImpl, SentMessage, PendingMessages
<1>2. /\ Sound(chats[u]) /\ DOMAIN sent = Users /\ sent[u] \in Nat /\ Mine(u, chats[u].unconfirmed)
      /\ DOMAIN chats = Users
  BY DEF Typed, CopiesTyped
<1>3. m \in Messages /\ m[1] = u /\ m[2] = sent[u] + 1 /\ ~(m[2] <= sent[u])
  BY <1>2 DEF Messages
<1>4. ~Has(chats[u], m)
  <2>1. DOMAIN chats[u].log = 1 .. Len(chats[u].log)
    BY <1>2, CopyIs DEF Sound
  <2> HIDE DEF m
  <2>2. \A i \in 1 .. Len(chats[u].log) : chats[u].log[i] # m
    BY <1>3 DEF Typed, CopiesTyped
  <2> QED BY <2>1, <2>2 DEF Has, ToSet
<1> HIDE DEF d
<1>5. /\ Sound(d) /\ d.log = Append(chats[u].log, m)
      /\ d.unconfirmed = Append(chats[u].unconfirmed,
                                [message |-> m, index |-> Len(chats[u].log) + 1])
      /\ d.unread = chats[u].unread /\ d.read_by_me >= chats[u].read_by_me
      /\ d.read_by_them = chats[u].read_by_them
  <2> HIDE DEF m
  <2> QED BY <1>2, <1>3, <1>4, SentMessageIs DEF d
<1>6. /\ chats'[u] = d /\ sent'[u] = sent[u] + 1 /\ DOMAIN chats' = Users /\ DOMAIN sent' = Users
      /\ \A w \in Users : w # u => chats'[w] = chats[w] /\ sent'[w] = sent[w]
  BY <1>1, <1>2
<1>7. CopySends(u)
  BY <1>5, <1>6 DEF CopySends
<1>8. \A w \in Users : CopyStep(w)
  BY <1>5, <1>6, <1>7, CopyIsLeft DEF Typed, CopyStep
<1>9. Mine(u, d.unconfirmed)
  <2> DEFINE a == [message |-> m, index |-> Len(chats[u].log) + 1]
             s == chats[u].unconfirmed
  <2>1. Len(chats[u].log) + 1 \in Nat
    BY <1>2, CopyIs DEF Sound
  <2>2. a \in Args /\ a.message[1] = u
    BY <1>3, <2>1 DEF Args
  <2> HIDE DEF a
  <2>3. s \in Seq(Args) /\ \A j \in 1 .. Len(s) : s[j].message[1] = u
    BY <1>2 DEF Mine
  <2>4. /\ Append(s, a) \in Seq(Args) /\ Len(Append(s, a)) = Len(s) + 1
        /\ Append(s, a)[Len(s) + 1] = a /\ \A j \in 1 .. Len(s) : Append(s, a)[j] = s[j]
    BY <2>2, <2>3
  <2>5. \A j \in 1 .. Len(s) + 1 : j = Len(s) + 1 \/ j \in 1 .. Len(s)
    BY <2>3
  <2>6. d.unconfirmed = Append(s, a)
    BY <1>5 DEF a
  <2> HIDE DEF s
  <2> QED BY <2>2, <2>3, <2>4, <2>5, <2>6 DEF Mine
<1>10. RetriesTyped' /\ UNCHANGED <<verifying, answers, resends>>
       /\ refused \subseteq refused' /\ cleared \subseteq cleared' /\ abandoned \subseteq abandoned'
  BY DEF Typed, QueuesTyped, RetriesTyped
<1>11. 0 \in Nat /\ Mine(u, chats'[u].unconfirmed)
       /\ Calling(u, SendCall(chats'[u].unconfirmed, 0))
  BY <1>1, <1>6, <1>9
<1>12. \A w \in Users : w # u => chats'[w] = chats[w] /\ retries'[w] = retries[w]
  BY <1>6
<1> HIDE DEF m
<1> QED BY <1>6, <1>8, <1>10, <1>11, <1>12, AllAreSent

\* RetrySendingFailedMessagesJob,
LEMMA RetrySteps ==
    ASSUME Typed, NEW u \in Users, NEW attempt \in BagToSet(retries[u]), Retry(u, attempt)
    PROVE  Good
<1>1. /\ attempt \in DOMAIN retries[u] /\ retries' = [retries EXCEPT ![u] = TakeFrom(@, attempt)]
      /\ UNCHANGED <<chats, verifying, answers, resends, sent, refused, abandoned, cleared>>
  BY DEF Retry, BagToSet, history
<1>2. /\ attempt \in Nat /\ IsABag(retries[u]) /\ DOMAIN retries = Users
      /\ DOMAIN chats = Users /\ DOMAIN sent = Users
      /\ Mine(u, chats[u].unconfirmed)
  BY <1>1 DEF Typed, QueuesTyped, RetriesTyped, CopiesTyped
<1>3. /\ IsABag(retries'[u]) /\ DOMAIN retries'[u] \subseteq DOMAIN retries[u]
      /\ \A w \in Users : w # u => retries'[w] = retries[w]
  BY <1>1, <1>2, TakeFromIs
<1>4. RetriesTyped'
  BY <1>1, <1>3 DEF Typed, QueuesTyped, RetriesTyped
<1>5. \A w \in Users : CopyStep(w)
  BY <1>1, CopyIsLeft DEF Typed
<1>6. CASE chats[u].unconfirmed # <<>>
  <2>1. Calling(u, SendCall(chats'[u].unconfirmed, attempt))
    BY <1>1, <1>6 DEF Retry
  <2> QED BY <1>1, <1>2, <1>3, <1>4, <1>5, <2>1, AllAreSent
<1>7. CASE chats[u].unconfirmed = <<>>
  <2>1. UNCHANGED calls
    BY <1>7 DEF Retry
  <2>2. \A w \in Users : Waiting(w)' = Waiting(w) /\ Carrying(w)' = Carrying(w)
                         /\ Receipts(w)' = Receipts(w)
    BY <1>1, <2>1 DEF Waiting, Carrying, Receipts
  <2>3. QueuesTyped'
    BY <1>1, <1>4, <2>1 DEF Typed, QueuesTyped, CallsTyped, VerifyingTyped, AnswersTyped,
                            ResendsTyped
  <2> SUFFICES ASSUME NEW w \in Users
               PROVE  /\ AnswersStep(w) /\ ReceiptsStep(w) /\ NothingDropped(w)
                      /\ Waiting(w)' \subseteq Waiting(w) \cup {<<>>, chats'[w].unconfirmed}
    BY <1>1, <1>2, <1>5, <2>3 DEF Step, Good
  <2>4. AnswersStep(w) /\ ReceiptsStep(w)
    BY <1>1, <2>2, SameAnswers, SameReceipts
  <2>5. NothingDropped(w)
    <3>1. CASE w = u
      BY <1>1, <1>7, <3>1, IdsOf, NothingToDrop
    <3>2. CASE w # u
      <4>1. /\ Ids(chats'[w].unconfirmed) \subseteq Ids(chats[w].unconfirmed)
            /\ Carrying(w) \subseteq Carrying(w)' \cup {<<>>}
            /\ DOMAIN retries[w] \subseteq DOMAIN retries'[w]
        BY <1>1, <1>3, <2>2, <3>2
      <4> QED BY <4>1, NothingIsDropped
    <3> QED BY <3>1, <3>2
  <2> QED BY <2>2, <2>4, <2>5
<1> QED BY <1>6, <1>7

\* delete_direct_chat,
LEMMA DeleteChatSteps ==
    ASSUME Typed, NEW u \in Users, NEW block, DeleteChat(u, block)
    PROVE  Good
<1>1. /\ chats' = [chats EXCEPT ![u] = NewChat] /\ cleared' = cleared \cup {u}
      /\ UNCHANGED <<calls, verifying, answers, retries, resends, sent, refused, abandoned>>
  BY DEF DeleteChat
<1>2. /\ DOMAIN chats' = Users /\ chats'[u] = NewChat /\ DOMAIN sent' = Users
      /\ \A w \in Users : w # u => chats'[w] = chats[w]
  BY <1>1 DEF Typed, CopiesTyped
<1>3. CopyStep(u)
  BY <1>1, <1>2, NewChatIs DEF CopyStep, CopyIsDeleted
<1>4. \A w \in Users : CopyStep(w)
  BY <1>1, <1>2, <1>3, CopyIsLeft DEF Typed
<1>5. /\ QueuesTyped'
      /\ \A w \in Users : Waiting(w)' = Waiting(w) /\ Carrying(w)' = Carrying(w)
                          /\ Receipts(w)' = Receipts(w)
  <2>1. QueuesTyped'
    BY <1>1, QueuesLeft DEF Typed, QuietQueues
  <2> QED BY <1>1, <2>1 DEF Waiting, Carrying, Receipts
<1> SUFFICES ASSUME NEW w \in Users
             PROVE  /\ AnswersStep(w) /\ ReceiptsStep(w) /\ NothingDropped(w)
                    /\ Waiting(w)' \subseteq Waiting(w) \cup {<<>>, chats'[w].unconfirmed}
  BY <1>1, <1>2, <1>4, <1>5 DEF Step, Good
<1>6. AnswersStep(w) /\ ReceiptsStep(w)
  BY <1>1, <1>5, SameAnswers, SameReceipts
<1>7. NothingDropped(w)
  <2>1. CASE w = u
    <3>1. chats'[w].unconfirmed = <<>>
      BY <1>2, <2>1 DEF NewChat
    <3> QED BY <3>1, IdsOf, NothingToDrop
  <2>2. CASE w # u
    <3>1. /\ Ids(chats'[w].unconfirmed) \subseteq Ids(chats[w].unconfirmed)
          /\ Carrying(w) \subseteq Carrying(w)' \cup {<<>>}
          /\ DOMAIN retries[w] \subseteq DOMAIN retries'[w]
      BY <1>1, <1>2, <1>5, <2>2
    <3> QED BY <3>1, NothingIsDropped
  <2> QED BY <2>1, <2>2
<1> QED BY <1>5, <1>6, <1>7

\* send_to_recipients_canister after its await.
LEMMA AnswerArrivesSteps ==
    ASSUME Typed, NEW u \in Users, NEW a \in BagToSet(answers[u]), AnswerArrives(u, a)
    PROVE  Good
<1>1. /\ a \in DOMAIN answers[u] /\ answers' = [answers EXCEPT ![u] = TakeFrom(@, a)]
      /\ UNCHANGED <<calls, verifying, resends, sent, refused, cleared>>
  BY DEF AnswerArrives, BagToSet
<1>2. /\ a \in Answers /\ Mine(u, a.args) /\ IsABag(answers[u]) /\ DOMAIN answers = Users
      /\ DOMAIN chats = Users /\ DOMAIN sent = Users /\ DOMAIN retries = Users
      /\ IsABag(retries[u]) /\ DOMAIN retries[u] \subseteq Nat
      /\ Sound(chats[u])
  BY <1>1 DEF Typed, QueuesTyped, AnswersTyped, CopiesTyped, RetriesTyped
<1>3. /\ IsABag(answers'[u]) /\ DOMAIN answers'[u] \subseteq DOMAIN answers[u]
      /\ DOMAIN answers[u] \subseteq DOMAIN answers'[u] \cup {a}
      /\ \A w \in Users : w # u => answers'[w] = answers[w]
  BY <1>1, <1>2, TakeFromIs
<1>4. AnswersTyped'
  BY <1>1, <1>3 DEF Typed, QueuesTyped, AnswersTyped
<1>5. \A w \in Users : Waiting(w)' = Waiting(w) /\ Receipts(w)' = Receipts(w)
  BY <1>1 DEF Waiting, Receipts
<1>6. /\ Carrying(u) \subseteq Carrying(u)' \cup {a.args}
      /\ \A w \in Users : w # u => Carrying(w)' = Carrying(w)
  BY <1>3, <1>5 DEF Carrying
<1>7. CallsTyped' /\ VerifyingTyped' /\ ResendsTyped'
  BY <1>1 DEF Typed, QueuesTyped, CallsTyped, VerifyingTyped, ResendsTyped
<1>8. /\ abandoned \subseteq abandoned' /\ RetriesTyped' /\ NothingDropped(u)
      /\ DOMAIN chats' = Users /\ CopyStep(u)
      /\ \A w \in Users : w # u => chats'[w] = chats[w] /\ retries'[w] = retries[w]
  <2>1. CASE a.ok
    <3> DEFINE d == Confirmed(chats[u], a.args)
    <3>1. chats' = [chats EXCEPT ![u] = d] /\ UNCHANGED <<retries, abandoned>>
      BY <2>1 DEF AnswerArrives
    <3>2. /\ Sound(d) /\ d.log = chats[u].log
          /\ KeptOf(chats[u].unconfirmed, Ids(a.args), Len(chats[u].unconfirmed), d.unconfirmed)
          /\ d.unread = chats[u].unread
          /\ d.read_by_me = chats[u].read_by_me /\ d.read_by_them = chats[u].read_by_them
      BY <1>2, ConfirmedIs
    <3> HIDE DEF d
    <3>3. DOMAIN chats' = Users /\ chats'[u] = d /\ \A w \in Users : w # u => chats'[w] = chats[w]
      BY <1>2, <3>1
    <3>4. CopyStep(u)
      BY <1>1, <2>1, <3>2, <3>3 DEF CopyStep, CopyIsConfirmed
    <3>5. \A m \in Ids(d.unconfirmed) : m \in Ids(chats[u].unconfirmed) /\ m \notin Ids(a.args)
      <4>1. d.unconfirmed \in Seq(Args) /\ chats[u].unconfirmed \in Seq(Args)
        BY <1>2, <3>2, CopyIs DEF Sound
      <4>2. /\ DOMAIN d.unconfirmed = 1 .. Len(d.unconfirmed)
            /\ DOMAIN chats[u].unconfirmed = 1 .. Len(chats[u].unconfirmed)
        BY <4>1
      <4>3. \A j \in 1 .. Len(d.unconfirmed) :
              \E i \in 1 .. Len(chats[u].unconfirmed) :
                /\ d.unconfirmed[j] = chats[u].unconfirmed[i]
                /\ chats[u].unconfirmed[i].message \notin Ids(a.args)
        BY <3>2 DEF KeptOf
      <4> QED BY <4>2, <4>3 DEF Ids
    <3>6. \A m \in Ids(d.unconfirmed) : Cared(u, m) => Cared(u, m)'
      BY <1>6, <3>1, <3>5 DEF Cared
    <3>7. NothingDropped(u)
      BY <3>3, <3>5, <3>6 DEF NothingDropped
    <3>8. RetriesTyped'
      BY <3>1 DEF Typed, QueuesTyped, RetriesTyped
    <3> QED BY <3>1, <3>3, <3>4, <3>7, <3>8
  <2>2. CASE ~a.ok /\ WillRetry(a.attempt)
    <3> DEFINE n == a.attempt + 1
    <3>1. retries' = [retries EXCEPT ![u] = AddTo(@, n)] /\ UNCHANGED <<chats, abandoned>>
      BY <2>2 DEF AnswerArrives
    <3>2. n \in Nat
      BY <1>2 DEF Answers
    <3> HIDE DEF n
    <3>3. /\ IsABag(retries'[u]) /\ DOMAIN retries'[u] = DOMAIN retries[u] \cup {n}
          /\ \A w \in Users : w # u => retries'[w] = retries[w]
      BY <1>2, <3>1, AddToIs
    <3>4. RetriesTyped'
      BY <1>2, <3>1, <3>2, <3>3 DEF Typed, QueuesTyped, RetriesTyped
    <3>5. NothingDropped(u)
      BY <3>3 DEF NothingDropped, Cared
    <3>6. CopyStep(u)
      BY <1>1, <3>1, CopyIsLeft DEF Typed
    <3> QED BY <1>2, <3>1, <3>3, <3>4, <3>5, <3>6
  <2>3. CASE ~a.ok /\ ~WillRetry(a.attempt)
    <3>1. abandoned' = abandoned \cup Ids(a.args) /\ UNCHANGED <<chats, retries>>
      BY <2>3 DEF AnswerArrives
    <3>2. \A m : Cared(u, m) => Cared(u, m)' \/ m \in Ids(a.args)
      BY <1>6, <3>1 DEF Cared
    <3>3. NothingDropped(u)
      BY <3>1, <3>2 DEF NothingDropped
    <3>4. CopyStep(u)
      BY <1>1, <3>1, CopyIsLeft DEF Typed
    <3>5. RetriesTyped'
      BY <3>1 DEF Typed, QueuesTyped, RetriesTyped
    <3> QED BY <1>2, <3>1, <3>3, <3>4, <3>5
  <2> QED BY <2>1, <2>2, <2>3
<1>9. QueuesTyped'
  BY <1>4, <1>7, <1>8 DEF QueuesTyped
<1> SUFFICES ASSUME NEW w \in Users
             PROVE  /\ CopyStep(w) /\ AnswersStep(w) /\ ReceiptsStep(w) /\ NothingDropped(w)
                    /\ Waiting(w)' \subseteq Waiting(w) \cup {<<>>, chats'[w].unconfirmed}
  BY <1>1, <1>2, <1>8, <1>9 DEF Step, Good
<1>10. AnswersStep(w) /\ ReceiptsStep(w)
  BY <1>3, <1>5, SameReceipts DEF AnswersStep
<1>11. CopyStep(w) /\ NothingDropped(w)
  <2>1. CASE w = u
    BY <1>8, <2>1
  <2>2. CASE w # u
    <3>1. /\ chats'[w] = chats[w] /\ sent'[w] = sent[w]
          /\ Ids(chats'[w].unconfirmed) \subseteq Ids(chats[w].unconfirmed)
          /\ Carrying(w) \subseteq Carrying(w)' \cup {<<>>}
          /\ DOMAIN retries[w] \subseteq DOMAIN retries'[w]
      BY <1>1, <1>6, <1>8, <2>2
    <3> QED BY <3>1, NothingIsDropped, CopyIsLeft DEF Typed
  <2> QED BY <2>1, <2>2
<1> QED BY <1>5, <1>10, <1>11

-----------------------------------------------------------------------------
(* Receiving *)

\* A call of u is answered.
LEMMA AnsweredIs ==
    ASSUME QueuesTyped, NEW u \in Users, NEW call, CallOf(u, call), NEW ok \in BOOLEAN,
           Answer(u, call, ok), CallsTyped', VerifyingTyped', ResendsTyped', retries' = retries,
           \A w \in Users : Waiting(w)' \subseteq Waiting(w),
           \A w \in Users : w # u => Waiting(w)' = Waiting(w),
           Waiting(u) \subseteq Waiting(u)' \cup {call.args}, call.args \in Waiting(u),
           ok => \A m \in Ids(call.args) : Delivered(u, m)'
    PROVE  /\ QueuesTyped'
           /\ \A w \in Users : AnswersStep(w) /\ Carrying(w) \subseteq Carrying(w)'
<1> DEFINE a == [args |-> call.args, attempt |-> call.attempt, ok |-> ok]
<1>1. /\ AnswersTyped' /\ DOMAIN answers'[u] = DOMAIN answers[u] \cup {a}
      /\ \A w \in Users : w # u => answers'[w] = answers[w]
  BY AnswerIs DEF QueuesTyped
<1>2. a.args = call.args /\ a.ok = ok
  OBVIOUS
<1> HIDE DEF a
<1>3. QueuesTyped'
  BY <1>1 DEF QueuesTyped, RetriesTyped
<1>4. AnswersStep(u)
  BY <1>1, <1>2 DEF AnswersStep
<1>5. \A w \in Users : w # u => AnswersStep(w)
  BY <1>1, SameAnswers
<1>6. \A w \in Users : Carrying(w) \subseteq Carrying(w)'
  BY <1>1, <1>2 DEF Carrying
<1> QED BY <1>3, <1>4, <1>5, <1>6

\* Nothing new is sent.
LEMMA HandledStep ==
    ASSUME Typed, DOMAIN chats' = Users, sent' = sent, retries' = retries,
           refused \subseteq refused', cleared \subseteq cleared', abandoned \subseteq abandoned',
           QueuesTyped',
           \A w \in Users : CopyStep(w) /\ chats'[w].unconfirmed = chats[w].unconfirmed,
           \A w \in Users : AnswersStep(w) /\ Carrying(w) \subseteq Carrying(w)',
           \A w \in Users : Waiting(w)' \subseteq Waiting(w) /\ Receipts(w)' \subseteq Receipts(w)
    PROVE  Good
<1> SUFFICES ASSUME NEW w \in Users
             PROVE  /\ ReceiptsStep(w) /\ NothingDropped(w)
                    /\ Waiting(w)' \subseteq Waiting(w) \cup {<<>>, chats'[w].unconfirmed}
  BY DEF Step, Good, Typed, CopiesTyped
<1>1. ReceiptsStep(w)
  BY SameReceipts
<1>2. /\ Ids(chats'[w].unconfirmed) \subseteq Ids(chats[w].unconfirmed)
      /\ Carrying(w) \subseteq Carrying(w)' \cup {<<>>}
      /\ DOMAIN retries[w] \subseteq DOMAIN retries'[w]
  OBVIOUS
<1>3. NothingDropped(w)
  BY <1>2, NothingIsDropped
<1> QED BY <1>1, <1>3

\* All messages of a call are received.
LEMMA ReceivedStep ==
    ASSUME CopiesTyped, NEW v \in Users, NEW args \in Waiting(Other(v)), args \in Seq(Args),
           chats' = [chats EXCEPT ![v] = ReceivedAll(@, args)], sent' = sent
    PROVE  /\ DOMAIN chats' = Users
           /\ \A w \in Users : CopyStep(w) /\ chats'[w].unconfirmed = chats[w].unconfirmed
           /\ \A m \in Ids(args) : Delivered(Other(v), m)'
<1> DEFINE d == ReceivedAll(chats[v], args)
<1>1. /\ DOMAIN chats' = Users /\ chats'[v] = d
      /\ \A w \in Users : w # v => chats'[w] = chats[w]
  BY DEF CopiesTyped
<1>2. Taken(chats[v], args, Len(args), d)
  BY ReceivedAllIs DEF CopiesTyped
<1> HIDE DEF d
<1>3. CopyStep(v)
  <2>1. Sound(d)
    BY <1>2 DEF Taken
  <2>2. CopyReceives(v)
    BY <1>1, <1>2 DEF CopyReceives
  <2> QED BY <1>1, <2>1, <2>2 DEF CopyStep
<1>4. chats'[v].unconfirmed = chats[v].unconfirmed
  BY <1>1, <1>2 DEF Taken
<1>5. \A w \in Users : w # v => CopyStep(w)
  BY <1>1, CopyIsLeft
<1>6. \A m \in Ids(args) : Delivered(Other(v), m)'
  <2>1. \A i \in 1 .. Len(args) : Has(d, args[i].message)
    BY <1>2 DEF Taken
  <2>2. \A m \in Ids(args) : Has(d, m)
    BY <2>1 DEF Ids
  <2> QED BY <1>1, <2>2, OtherIs DEF Delivered
<1> QED BY <1>1, <1>3, <1>4, <1>5, <1>6

\* c2c_send_messages,
LEMMA HandleSendSteps ==
    ASSUME Typed, NEW v \in Users, NEW u \in Users, u = Other(v), NEW call,
           calls[u] # <<>>, call = Head(calls[u]), call.kind = "send",
           calls' = [calls EXCEPT ![u] = Tail(@)], HandleSend(v, call),
           UNCHANGED <<retries, resends, sent, abandoned, cleared>>
    PROVE  Good
<1>1. /\ CallsTyped' /\ CallOf(u, call) /\ call \in ToSet(calls[u])
      /\ ToSet(calls'[u]) \subseteq ToSet(calls[u])
      /\ ToSet(calls[u]) \subseteq ToSet(calls'[u]) \cup {call}
      /\ \A w \in Users : w # u => calls'[w] = calls[w]
  BY CallTaken DEF Typed, QueuesTyped
<1>2. \A w \in Users : Receipts(w)' \subseteq Receipts(w)
  BY <1>1 DEF Receipts
<1>3. ResendsTyped' /\ RetriesTyped'
  BY DEF Typed, QueuesTyped, ResendsTyped, RetriesTyped
<1>4. v = Other(u) /\ call.args \in Waiting(u) /\ call.args \in Seq(Args) /\ DOMAIN chats = Users
      /\ DOMAIN verifying = Users /\ IsABag(verifying[v])
  BY <1>1, OtherIs DEF Waiting, CallOf, Mine, Typed, CopiesTyped, QueuesTyped, VerifyingTyped
<1>5. CASE verifying' = verifying
  <2>1. VerifyingTyped'
    BY <1>5 DEF Typed, QueuesTyped, VerifyingTyped
  <2>2. /\ \A w \in Users : Waiting(w)' \subseteq Waiting(w)
        /\ \A w \in Users : w # u => Waiting(w)' = Waiting(w)
        /\ Waiting(u) \subseteq Waiting(u)' \cup {call.args}
    BY <1>1, <1>5 DEF Waiting
  <2>3. CASE RefusesCaller(v)
    <3>1. /\ Answer(u, call, TRUE) /\ refused' = refused \cup Ids(call.args)
          /\ UNCHANGED chats
      BY <2>3 DEF HandleSend
    <3>2. \A m \in Ids(call.args) : Delivered(u, m)'
      BY <3>1 DEF Delivered
    <3>3. QueuesTyped' /\ \A w \in Users : AnswersStep(w) /\ Carrying(w) \subseteq Carrying(w)'
      BY <1>1, <1>3, <1>4, <2>1, <2>2, <3>1, <3>2, AnsweredIs DEF Typed
    <3>4. \A w \in Users : CopyStep(w) /\ chats'[w].unconfirmed = chats[w].unconfirmed
      BY <3>1, CopyIsLeft DEF Typed
    <3> QED BY <1>2, <1>4, <2>2, <3>1, <3>3, <3>4, HandledStep
  <2>4. CASE ~RefusesCaller(v) /\ Exists(chats[v])
    <3>1. /\ chats' = [chats EXCEPT ![v] = ReceivedAll(@, call.args)] /\ Answer(u, call, TRUE)
          /\ UNCHANGED refused
      BY <2>4 DEF HandleSend
    <3>2. /\ DOMAIN chats' = Users
          /\ \A w \in Users : CopyStep(w) /\ chats'[w].unconfirmed = chats[w].unconfirmed
          /\ \A m \in Ids(call.args) : Delivered(u, m)'
      BY <1>4, <3>1, ReceivedStep DEF Typed
    <3>3. QueuesTyped' /\ \A w \in Users : AnswersStep(w) /\ Carrying(w) \subseteq Carrying(w)'
      BY <1>1, <1>3, <1>4, <2>1, <2>2, <3>1, <3>2, AnsweredIs DEF Typed
    <3> QED BY <1>2, <2>2, <3>1, <3>2, <3>3, HandledStep
  <2>5. CASE ~RefusesCaller(v) /\ ~Exists(chats[v])
    <3>1. /\ verifying' = [verifying EXCEPT ![v] = AddTo(@, call)]
          /\ UNCHANGED <<chats, answers, refused>>
      BY <2>5 DEF HandleSend
    <3>2. DOMAIN verifying'[v] = DOMAIN verifying[v] \cup {call}
      BY <1>4, <3>1, AddToIs
    <3>3. Waiting(u) \subseteq Waiting(u)'
      BY <1>1, <1>4, <1>5, <3>2 DEF Waiting
    <3>4. QueuesTyped' /\ \A w \in Users : AnswersStep(w) /\ Carrying(w) \subseteq Carrying(w)'
      <4>1. AnswersTyped'
        BY <3>1 DEF Typed, QueuesTyped, AnswersTyped
      <4>2. \A w \in Users : Carrying(w) \subseteq Carrying(w)'
        BY <2>2, <3>1, <3>3 DEF Carrying
      <4> QED BY <1>1, <1>3, <2>1, <3>1, <4>1, <4>2, SameAnswers DEF QueuesTyped
    <3>5. \A w \in Users : CopyStep(w) /\ chats'[w].unconfirmed = chats[w].unconfirmed
      BY <3>1, CopyIsLeft DEF Typed
    <3> QED BY <1>2, <1>4, <2>2, <3>1, <3>4, <3>5, HandledStep
  <2> QED BY <2>3, <2>4, <2>5
<1>6. CASE verifying' # verifying
  <2>1. /\ verifying' = [verifying EXCEPT ![v] = AddTo(@, call)]
        /\ UNCHANGED <<chats, answers, refused>>
    BY <1>6 DEF HandleSend
  <2>2. /\ IsABag(verifying'[v]) /\ DOMAIN verifying'[v] = DOMAIN verifying[v] \cup {call}
        /\ \A w \in Users : w # v => verifying'[w] = verifying[w]
    BY <1>4, <2>1, AddToIs
  <2>3. VerifyingTyped'
    BY <1>1, <1>4, <2>1, <2>2 DEF Typed, QueuesTyped, VerifyingTyped
  <2>4. AnswersTyped'
    BY <2>1 DEF Typed, QueuesTyped, AnswersTyped
  <2>5. \A w \in Users : Waiting(w)' \subseteq Waiting(w) /\ Waiting(w) \subseteq Waiting(w)'
    <3>1. Waiting(u)' \subseteq Waiting(u) /\ Waiting(u) \subseteq Waiting(u)'
      BY <1>1, <1>4, <2>2 DEF Waiting
    <3>2. \A w \in Users : w # u => Waiting(w)' = Waiting(w)
      BY <1>1, <1>4, <2>2, OtherIs DEF Waiting
    <3> QED BY <3>1, <3>2
  <2>6. \A w \in Users : AnswersStep(w) /\ Carrying(w) \subseteq Carrying(w)'
    BY <2>1, <2>5, SameAnswers DEF Carrying
  <2>7. \A w \in Users : CopyStep(w) /\ chats'[w].unconfirmed = chats[w].unconfirmed
    BY <2>1, CopyIsLeft DEF Typed
  <2>8. QueuesTyped'
    BY <1>1, <1>3, <2>3, <2>4 DEF QueuesTyped
  <2> QED BY <1>2, <1>4, <2>1, <2>5, <2>6, <2>7, <2>8, HandledStep
<1> QED BY <1>5, <1>6

\* all calls from the other canister,
LEMMA HandleSteps ==
    ASSUME Typed, NEW v \in Users, Handle(v)
    PROVE  Good
<1> DEFINE u == Other(v)
           call == Head(calls[u])
<1>1. /\ calls[u] # <<>> /\ calls' = [calls EXCEPT ![u] = Tail(@)]
      /\ UNCHANGED <<retries, resends, sent, abandoned, cleared>>
  BY DEF Handle
<1>2. u \in Users
  BY OtherIs
<1>3. CallOf(u, call) /\ call \in ToSet(calls[u]) /\ Sound(chats[v]) /\ v = Other(u)
  BY <1>1, <1>2, CallTaken, OtherIs DEF Typed, QueuesTyped, CopiesTyped
<1>4. CASE call.kind = "send" /\ HandleSend(v, call)
  <2>1. u = Other(v) /\ call = Head(calls[u])
    OBVIOUS
  <2> HIDE DEF u, call
  <2> QED BY <1>1, <1>2, <1>4, <2>1, HandleSendSteps
<1>5. CASE /\ call.kind = "read" /\ HandleRead(v, call)
           /\ UNCHANGED <<verifying, answers, refused>>
  <2> DEFINE d == ReadByThem(chats[v], call.n)
  <2>1. chats' = [chats EXCEPT ![v] = d]
    BY <1>5 DEF HandleRead
  <2>2. QuietQueues /\ \A w \in Users : Receipts(w)' \subseteq Receipts(w)
    <3> HIDE DEF u
    <3>1. Head(calls[u]).kind # "send"
      BY <1>5
    <3> QED BY <1>1, <1>2, <1>5, <3>1, SmallCallHandled DEF Typed
  <2>3. call.n \in Receipts(u) /\ call.n \in Nat
    BY <1>3, <1>5 DEF Receipts, CallOf, Calls
  <2> HIDE DEF call
  <2>4. /\ Sound(d) /\ SameMessages(chats[v], d) /\ d.unread = chats[v].unread
        /\ d.read_by_me = chats[v].read_by_me
        /\ d.read_by_them = chats[v].read_by_them \/ d.read_by_them <= call.n
    BY <1>3, <2>3, ReadByThemIs
  <2> HIDE DEF d
  <2>5. DOMAIN chats' = Users /\ \A w \in Users : Sound(chats'[w]) /\ CopyIsRead(w)
    <3>1. chats[v].read_by_me \in Nat
      BY <1>3, CopyIs DEF Sound
    <3>2. /\ d.unread \subseteq chats[v].unread /\ d.read_by_me >= chats[v].read_by_me
          /\ \/ d.read_by_them = chats[v].read_by_them
             \/ \E n \in Receipts(Other(v)) : d.read_by_them <= n
      BY <2>3, <2>4, <3>1
    <3> QED BY <1>1, <2>1, <2>4, <3>2, CopyChanged DEF Typed
  <2>6. \A w \in Users : ReceiptsStep(w)
    BY <2>2, SameReceipts
  <2> QED BY <1>1, <1>5, <2>2, <2>5, <2>6, QuietStep DEF Good, QuietQueues
<1>6. CASE /\ call.kind \in {"edit", "delete", "undelete"} /\ HandleUpdate(v, call)
           /\ UNCHANGED <<verifying, answers, refused>>
  <2>1. QuietQueues /\ \A w \in Users : Receipts(w)' \subseteq Receipts(w)
    <3> HIDE DEF u
    <3>1. Head(calls[u]).kind # "send"
      BY <1>6
    <3> QED BY <1>1, <1>2, <1>6, <3>1, SmallCallHandled DEF Typed
  <2>2. \A w \in Users : ReceiptsStep(w)
    BY <2>1, SameReceipts
  <2>3. DOMAIN chats' = Users /\ \A w \in Users : Sound(chats'[w]) /\ CopyIsRead(w)
    <3>1. CASE ~Applies(v, call)
      <4>1. UNCHANGED <<chats, sent>>
        BY <1>1, <1>6, <3>1 DEF HandleUpdate
      <4> QED BY <4>1, CopiesLeft DEF Typed
    <3>2. CASE Applies(v, call)
      <4> DEFINE d == Updated(chats[v], u, call)
      <4>1. chats' = [chats EXCEPT ![v] = d]
        BY <1>6, <3>2 DEF HandleUpdate
      <4>2. call.n \in Nat
        BY <1>3 DEF CallOf, Calls
      <4>3. Touched(chats[v], d)
        <5>1. CASE call.kind = "edit"
          <6>1. Has(chats[v], call.message) /\ d = Edited(chats[v], call.message, call.n)
            BY <3>2, <5>1 DEF Applies, CanEdit, Updated
          <6> HIDE DEF call, d
          <6> QED BY <1>3, <4>2, <6>1, EditedIs
        <5>2. CASE call.kind = "delete"
          <6>1. Has(chats[v], call.message) /\ d = Deleted(chats[v], u, call.message)
            BY <3>2, <5>2 DEF Applies, CanDelete, Updated
          <6> HIDE DEF call, d, u
          <6> QED BY <1>2, <1>3, <6>1, DeletedIs
        <5>3. CASE call.kind = "undelete"
          <6>1. Has(chats[v], call.message) /\ d = Undeleted(chats[v], call.message)
            BY <3>2, <5>3 DEF Applies, CanUndelete, Updated
          <6> HIDE DEF call, d
          <6> QED BY <1>3, <6>1, UndeletedIs
        <5> QED BY <1>6, <5>1, <5>2, <5>3
      <4> HIDE DEF d
      <4>4. chats[v].read_by_me \in Nat
        BY <1>3, CopyIs DEF Sound
      <4>5. /\ Sound(d) /\ SameMessages(chats[v], d) /\ d.unread \subseteq chats[v].unread
            /\ d.read_by_me >= chats[v].read_by_me /\ d.read_by_them = chats[v].read_by_them
        BY <4>3, <4>4 DEF Touched
      <4> QED BY <1>1, <4>1, <4>5, CopyChanged DEF Typed
    <3> QED BY <3>1, <3>2
  <2> QED BY <1>1, <1>6, <2>1, <2>2, <2>3, QuietStep DEF Good, QuietQueues
<1> QED BY <1>4, <1>5, <1>6 DEF Handle

\* c2c_send_messages after verify_user,
LEMMA VerifiedSteps ==
    ASSUME Typed, NEW v \in Users, NEW call \in BagToSet(verifying[v]), Verified(v, call)
    PROVE  Good
<1> DEFINE u == Other(v)
<1>1. /\ call \in DOMAIN verifying[v] /\ verifying' = [verifying EXCEPT ![v] = TakeFrom(@, call)]
      /\ UNCHANGED <<calls, retries, resends, sent, refused, abandoned, cleared>>
  BY DEF Verified, BagToSet
<1>2. u \in Users /\ v = Other(u)
  BY OtherIs
<1>3. /\ CallOf(u, call) /\ call.kind = "send" /\ DOMAIN verifying = Users /\ IsABag(verifying[v])
      /\ DOMAIN chats = Users /\ call.args \in Seq(Args)
  BY <1>1 DEF Typed, QueuesTyped, VerifyingTyped, CopiesTyped, CallOf, Mine
<1>4. /\ IsABag(verifying'[v]) /\ DOMAIN verifying'[v] \subseteq DOMAIN verifying[v]
      /\ DOMAIN verifying[v] \subseteq DOMAIN verifying'[v] \cup {call}
      /\ \A w \in Users : w # v => verifying'[w] = verifying[w]
  BY <1>1, <1>3, TakeFromIs
<1>5. CallsTyped' /\ RetriesTyped' /\ ResendsTyped'
  BY <1>1 DEF Typed, QueuesTyped, CallsTyped, RetriesTyped, ResendsTyped
<1>6. VerifyingTyped'
  BY <1>1, <1>3, <1>4 DEF Typed, QueuesTyped, VerifyingTyped
<1>7. call.args \in Waiting(u)
  BY <1>1, <1>2 DEF Waiting
<1>8. /\ Waiting(u)' \subseteq Waiting(u) /\ Waiting(u) \subseteq Waiting(u)' \cup {call.args}
      /\ \A w \in Users : w # u => Waiting(w)' = Waiting(w)
  <2>1. Waiting(u)' \subseteq Waiting(u) /\ Waiting(u) \subseteq Waiting(u)' \cup {call.args}
    BY <1>1, <1>2, <1>4 DEF Waiting
  <2>2. \A w \in Users : w # u => Other(w) # v /\ Other(w) \in Users
    BY <1>2, OtherIs
  <2>3. \A w \in Users : w # u => Waiting(w)' = Waiting(w)
    BY <1>1, <1>4, <2>2 DEF Waiting
  <2> QED BY <2>1, <2>3
<1>9. \A w \in Users : Waiting(w)' \subseteq Waiting(w) /\ Receipts(w)' \subseteq Receipts(w)
  BY <1>1, <1>8 DEF Receipts
<1>10. CASE /\ chats' = [chats EXCEPT ![v] = ReceivedAll(@, call.args)]
            /\ Answer(Other(v), call, TRUE)
  <2>1. /\ DOMAIN chats' = Users
        /\ \A w \in Users : CopyStep(w) /\ chats'[w].unconfirmed = chats[w].unconfirmed
        /\ \A m \in Ids(call.args) : Delivered(u, m)'
    BY <1>1, <1>3, <1>7, <1>10, ReceivedStep DEF Typed
  <2>2. Answer(u, call, TRUE)
    BY <1>10
  <2> HIDE DEF u
  <2>3. QueuesTyped' /\ \A w \in Users : AnswersStep(w) /\ Carrying(w) \subseteq Carrying(w)'
    BY <1>1, <1>2, <1>3, <1>5, <1>6, <1>7, <1>8, <1>9, <2>1, <2>2, AnsweredIs DEF Typed
  <2> QED BY <1>1, <1>9, <2>1, <2>3, HandledStep
<1>11. CASE Answer(Other(v), call, FALSE) /\ UNCHANGED chats
  <2>1. Answer(u, call, FALSE)
    BY <1>11
  <2> HIDE DEF u
  <2>2. QueuesTyped' /\ \A w \in Users : AnswersStep(w) /\ Carrying(w) \subseteq Carrying(w)'
    BY <1>1, <1>2, <1>3, <1>5, <1>6, <1>7, <1>8, <1>9, <2>1, AnsweredIs DEF Typed
  <2>3. \A w \in Users : CopyStep(w) /\ chats'[w].unconfirmed = chats[w].unconfirmed
    BY <1>1, <1>11, CopyIsLeft DEF Typed
  <2> QED BY <1>1, <1>3, <1>9, <1>11, <2>2, <2>3, HandledStep
<1> QED BY <1>10, <1>11 DEF Verified

\* a call that is rejected.
LEMMA RejectSteps ==
    ASSUME Typed, NEW u \in Users, NEW i \in DOMAIN calls[u], Reject(u, i)
    PROVE  Good
<1> DEFINE call == calls[u][i]
<1>1. /\ calls' = [calls EXCEPT ![u] = RemoveAt(@, i)]
      /\ UNCHANGED <<chats, verifying, retries, sent, refused, abandoned, cleared>>
  BY DEF Reject
<1>2. /\ calls[u] \in Seq(Calls) /\ DOMAIN calls = Users /\ DOMAIN chats = Users
      /\ \A x \in ToSet(calls[u]) : CallOf(u, x)
  BY DEF Typed, QueuesTyped, CallsTyped, CopiesTyped
<1>3. /\ calls'[u] = RemoveAt(calls[u], i) /\ DOMAIN calls' = Users
      /\ \A w \in Users : w # u => calls'[w] = calls[w]
  BY <1>1, <1>2
<1>4. /\ calls'[u] \in Seq(Calls) /\ call \in ToSet(calls[u])
      /\ ToSet(calls'[u]) \subseteq ToSet(calls[u])
      /\ ToSet(calls[u]) \subseteq ToSet(calls'[u]) \cup {call}
  <2> HIDE DEF Calls
  <2> QED BY <1>2, <1>3, RemoveAtIs
<1> HIDE DEF call
<1>5. CallsTyped' /\ CallOf(u, call)
  BY <1>2, <1>3, <1>4 DEF Typed, QueuesTyped, CallsTyped
<1>6. VerifyingTyped' /\ RetriesTyped'
  BY <1>1 DEF Typed, QueuesTyped, VerifyingTyped, RetriesTyped
<1>7. \A w \in Users : CopyStep(w) /\ chats'[w].unconfirmed = chats[w].unconfirmed
  BY <1>1, CopyIsLeft DEF Typed
<1>8. CASE call.kind = "send"
  <2>1. Answer(u, call, FALSE) /\ UNCHANGED resends
    BY <1>8 DEF Reject, call
  <2>2. ResendsTyped'
    BY <2>1 DEF Typed, QueuesTyped, ResendsTyped
  <2>3. /\ \A w \in Users : Waiting(w)' \subseteq Waiting(w) /\ Receipts(w)' \subseteq Receipts(w)
        /\ \A w \in Users : w # u => Waiting(w)' = Waiting(w)
        /\ Waiting(u) \subseteq Waiting(u)' \cup {call.args} /\ call.args \in Waiting(u)
    BY <1>1, <1>3, <1>4, <2>1 DEF Waiting, Receipts
  <2>4. QueuesTyped' /\ \A w \in Users : AnswersStep(w) /\ Carrying(w) \subseteq Carrying(w)'
    BY <1>1, <1>5, <1>6, <2>1, <2>2, <2>3, AnsweredIs DEF Typed
  <2> QED BY <1>1, <1>2, <1>7, <2>3, <2>4, HandledStep
<1>9. CASE call.kind # "send"
  <2>1. /\ UNCHANGED answers
        /\ \/ UNCHANGED resends /\ call.kind \notin {"delete", "read"}
           \/ resends' = [resends EXCEPT ![u] = AddTo(@, call)]
    BY <1>9 DEF Reject, call
  <2>2. /\ ResendsTyped'
        /\ \A w \in Users : w # u => resends'[w] = resends[w]
        /\ DOMAIN resends'[u] \subseteq DOMAIN resends[u] \cup {call}
    <3>1. CASE UNCHANGED resends
      BY <3>1 DEF Typed, QueuesTyped, ResendsTyped
    <3>2. CASE resends' = [resends EXCEPT ![u] = AddTo(@, call)]
      <4>1. DOMAIN resends = Users /\ IsABag(resends[u])
        BY DEF Typed, QueuesTyped, ResendsTyped
      <4>2. /\ IsABag(resends'[u]) /\ DOMAIN resends'[u] = DOMAIN resends[u] \cup {call}
            /\ \A w \in Users : w # u => resends'[w] = resends[w]
        BY <3>2, <4>1, AddToIs
      <4>3. ResendsTyped'
        BY <1>5, <1>9, <3>2, <4>1, <4>2 DEF Typed, QueuesTyped, ResendsTyped
      <4> QED BY <4>2, <4>3
    <3> QED BY <2>1, <3>1, <3>2
  <2>3. \A w \in Users : Receipts(w)' \subseteq Receipts(w)
    BY <1>3, <1>4, <2>2 DEF Receipts
  <2>4. QuietQueues
    <3>1. ToSet(calls'[u]) \subseteq ToSet(calls[u]) \cup {call}
      BY <1>4
    <3> QED BY <1>1, <1>3, <1>4, <1>5, <1>9, <2>1, <2>2, <3>1, OneCallMore DEF Typed
  <2>5. \A w \in Users : ReceiptsStep(w)
    BY <2>3, SameReceipts
  <2>6. DOMAIN chats' = Users /\ \A w \in Users : Sound(chats'[w]) /\ CopyIsRead(w)
    BY <1>1, CopiesLeft DEF Typed
  <2> QED BY <1>1, <2>4, <2>5, <2>6, QuietStep DEF Good, QuietQueues
<1> QED BY <1>8, <1>9

-----------------------------------------------------------------------------
(* Every step is good, and keeps the types *)

\* Every action of the model is a step as described.
LEMMA NextSteps ==
    ASSUME Typed, [Next]_vars
    PROVE  Good
<1>1. CASE UNCHANGED vars
  BY <1>1, LeftAloneSteps DEF vars
<1>2. CASE Next
  <2> SUFFICES ASSUME NEW u \in Users,
                \/ SendMessage(u) \/ SendAfterLookup(u) \/ LookupFails(u)
                \/ BlockUser(u)
                \/ \E block \in BOOLEAN : DeleteChat(u, block)
                \/ \E index \in 1 .. Len(chats[u].log) : MarkRead(u, index)
                \/ \E m \in ToSet(chats[u].log) :
                      EditMessage(u, m) \/ DeleteMessage(u, m) \/ UndeleteMessage(u, m)
                \/ \E a \in BagToSet(answers[u]) : AnswerArrives(u, a)
                \/ \E n \in BagToSet(retries[u]) : Retry(u, n)
                \/ \E m \in BagToSet(hard_deletes[u]) : HardDelete(u, m)
                \/ Handle(u)
                \/ \E call \in BagToSet(verifying[u]) : Verified(u, call)
                \/ \E i \in DOMAIN calls[u] : Reject(u, i)
                \/ \E call \in BagToSet(resends[u]) : Resend(u, call)
               PROVE  Good
    BY <1>2 DEF Next
  <2>1. ASSUME SendMessage(u) PROVE Good
    <3>1. CASE Exists(chats[u])
      <4>1. SendImpl(u)
            /\ UNCHANGED <<verifying, answers, retries, resends, refused, abandoned, cleared>>
        BY <2>1, <3>1 DEF SendMessage
      <4> QED BY <4>1, SendImplSteps
    <3>2. CASE ~Exists(chats[u])
      <4>1. UNCHANGED <<chats, calls, verifying, answers, retries, resends, sent,
                        refused, cleared, abandoned>>
        BY <2>1, <3>2 DEF SendMessage
      <4> QED BY <4>1, LeftAloneSteps
    <3> QED BY <3>1, <3>2
  <2>2. ASSUME SendAfterLookup(u) PROVE Good
    BY <2>2, SendImplSteps DEF SendAfterLookup
  <2>3. ASSUME LookupFails(u) \/ BlockUser(u) PROVE Good
    BY <2>3, LeftAloneSteps DEF LookupFails, BlockUser, history
  <2>4. ASSUME \/ \E block \in BOOLEAN : DeleteChat(u, block)
               \/ \E index \in 1 .. Len(chats[u].log) : MarkRead(u, index)
        PROVE  Good
    BY <2>4, DeleteChatSteps, MarkReadSteps
  <2>5. ASSUME \E m \in ToSet(chats[u].log) :
                  EditMessage(u, m) \/ DeleteMessage(u, m) \/ UndeleteMessage(u, m)
        PROVE  Good
    BY <2>5, EditSteps, DeleteSteps, UndeleteSteps
  <2>6. ASSUME \/ \E a \in BagToSet(answers[u]) : AnswerArrives(u, a)
               \/ \E n \in BagToSet(retries[u]) : Retry(u, n)
               \/ \E m \in BagToSet(hard_deletes[u]) : HardDelete(u, m)
        PROVE  Good
    BY <2>6, AnswerArrivesSteps, RetrySteps, HardDeleteSteps
  <2>7. ASSUME \/ Handle(u)
               \/ \E call \in BagToSet(verifying[u]) : Verified(u, call)
               \/ \E i \in DOMAIN calls[u] : Reject(u, i)
               \/ \E call \in BagToSet(resends[u]) : Resend(u, call)
        PROVE  Good
    BY <2>7, HandleSteps, VerifiedSteps, RejectSteps, ResendSteps
  <2> QED BY <2>1, <2>2, <2>3, <2>4, <2>5, <2>6, <2>7
<1> QED BY <1>1, <1>2

\* The parts of a copy in a state that is typed.
LEMMA CopiesAre ==
    ASSUME Typed, NEW u \in Users
    PROVE  /\ chats[u].log \in Seq(Messages) /\ Len(chats[u].log) \in Nat
           /\ DOMAIN chats[u].log = 1 .. Len(chats[u].log)
           /\ chats[u].unconfirmed \in Seq(Args)
           /\ DOMAIN chats[u].unconfirmed = 1 .. Len(chats[u].unconfirmed)
           /\ sent[u] \in Nat
           /\ \A i \in 1 .. Len(chats[u].log) : chats[u].log[i] \in Messages
BY CopyIs DEF Typed, CopiesTyped, Sound

\* Whose messages are waiting.
LEMMA WaitingIsMine ==
    ASSUME Typed, NEW u \in Users, NEW args \in Waiting(u)
    PROVE  Mine(u, args)
BY OtherIs DEF Waiting, Typed, QueuesTyped, CallsTyped, VerifyingTyped, CallOf

\* A message that is new in a copy was sent by its owner or is in a call to it.
LEMMA NewMessages ==
    ASSUME Typed, Step, NEW u \in Users, NEW p \in 1 .. Len(chats'[u].log)
    PROVE  \/ p \in 1 .. Len(chats[u].log) /\ chats'[u].log[p] = chats[u].log[p]
           \/ /\ p = Len(chats[u].log) + 1 /\ CopySends(u)
              /\ chats'[u].log[p] = <<u, sent[u] + 1>>
           \/ /\ chats'[u].log[p][1] = Other(u) /\ sent'[u] = sent[u]
              /\ p \in Len(chats[u].log) + 1 .. Len(chats'[u].log)
              /\ \E args \in Waiting(Other(u)) :
                    /\ Taken(chats[u], args, Len(args), chats'[u])
                    /\ CameWith(args, Len(args), chats'[u], p)
<1> DEFINE n == Len(chats[u].log)
<1>1. CopyStep(u) /\ n \in Nat /\ chats[u].log \in Seq(Messages)
  BY CopiesAre DEF Step
<1>2. CASE CopyIsRead(u) \/ CopyIsConfirmed(u)
  BY <1>2 DEF CopyIsRead, CopyIsConfirmed, SameMessages
<1>3. CASE CopySends(u)
  <2> DEFINE m == <<u, sent[u] + 1>>
  <2>1. chats'[u].log = Append(chats[u].log, m) /\ m \in Messages
    BY <1>3, CopiesAre DEF CopySends, Messages
  <2> HIDE DEF m
  <2>2. \/ p = n + 1 /\ chats'[u].log[p] = m
        \/ p \in 1 .. n /\ chats'[u].log[p] = chats[u].log[p]
    BY <1>1, <2>1
  <2> QED BY <1>3, <2>2 DEF m
<1>4. CASE CopyReceives(u)
  <2>1. PICK args \in Waiting(Other(u)) : Taken(chats[u], args, Len(args), chats'[u])
    BY <1>4 DEF CopyReceives
  <2>2. CASE p \in 1 .. n
    BY <2>1, <2>2 DEF Taken, Extends
  <2>3. CASE p \notin 1 .. n
    <3>1. p \in n + 1 .. Len(chats'[u].log)
      BY <1>1, <2>3
    <3>2. CameWith(args, Len(args), chats'[u], p)
      BY <2>1, <3>1 DEF Taken
    <3>3. chats'[u].log[p][1] = Other(u)
      BY <3>2, WaitingIsMine, OtherIs DEF CameWith, Mine
    <3>4. sent'[u] = sent[u]
      BY <1>4 DEF CopyReceives
    <3> QED BY <2>1, <3>1, <3>2, <3>3, <3>4
  <2> QED BY <2>2, <2>3
<1>5. CASE CopyIsDeleted(u)
  <2>1. Len(chats'[u].log) = 0
    BY <1>5 DEF CopyIsDeleted, NewChat
  <2> QED BY <2>1
<1> QED BY <1>1, <1>2, <1>3, <1>4, <1>5 DEF CopyStep

\* A message that is unconfirmed was so before, or it is the one that is sent.
LEMMA NewUnconfirmed ==
    ASSUME Typed, Step, NEW u \in Users
    PROVE  /\ chats'[u].unconfirmed \in Seq(Args)
           /\ \A j \in 1 .. Len(chats'[u].unconfirmed) :
                 \/ \E i \in 1 .. Len(chats[u].unconfirmed) :
                       chats'[u].unconfirmed[j] = chats[u].unconfirmed[i]
                 \/ /\ CopySends(u) /\ j = Len(chats[u].unconfirmed) + 1
                    /\ chats'[u].unconfirmed[j]
                         = [message |-> <<u, sent[u] + 1>>, index |-> Len(chats[u].log) + 1]
<1> DEFINE s == chats[u].unconfirmed
           t == chats'[u].unconfirmed
<1>1. CopyStep(u) /\ s \in Seq(Args) /\ t \in Seq(Args)
  BY CopiesAre, CopyIs DEF Step, CopyStep, Sound
<1> SUFFICES ASSUME NEW j \in 1 .. Len(t)
             PROVE  \/ \E i \in 1 .. Len(s) : t[j] = s[i]
                    \/ /\ CopySends(u) /\ j = Len(s) + 1
                       /\ t[j] = [message |-> <<u, sent[u] + 1>>, index |-> Len(chats[u].log) + 1]
  BY <1>1
<1>2. CASE CopySends(u)
  <2> DEFINE a == [message |-> <<u, sent[u] + 1>>, index |-> Len(chats[u].log) + 1]
  <2>1. t = Append(s, a)
    BY <1>2 DEF CopySends
  <2>2. a \in Args
    BY CopiesAre DEF Args, Messages
  <2> HIDE DEF a, s, t
  <2>3. \/ j = Len(s) + 1 /\ t[j] = a
        \/ j \in 1 .. Len(s) /\ t[j] = s[j]
    BY <1>1, <2>1, <2>2
  <2> QED BY <1>2, <2>3 DEF a
<1>3. CASE CopyIsConfirmed(u)
  BY <1>3 DEF CopyIsConfirmed, KeptOf
<1>4. CASE CopyIsRead(u)
  BY <1>4 DEF CopyIsRead, SameMessages
<1>5. CASE CopyReceives(u)
  BY <1>5 DEF CopyReceives, Taken
<1>6. CASE CopyIsDeleted(u)
  <2>1. Len(t) = 0
    BY <1>6 DEF CopyIsDeleted, NewChat
  <2> QED BY <2>1
<1> QED BY <1>1, <1>2, <1>3, <1>4, <1>5, <1>6 DEF CopyStep

\* Messages are counted up.
LEMMA SentGrows ==
    ASSUME Typed, Step
    PROVE  \A u \in Users : sent'[u] \in Nat /\ sent'[u] >= sent[u]
<1>1. ASSUME NEW u \in Users PROVE sent[u] \in Nat /\ (sent'[u] = sent[u] \/ sent'[u] = sent[u] + 1)
  BY CopiesAre DEF Step, CopyStep, CopyIsRead, CopySends, CopyIsConfirmed, CopyReceives,
                   CopyIsDeleted
<1> QED BY <1>1

\* The types are inductive.
LEMMA TypesAreKept ==
    ASSUME Typed, Good
    PROVE  Typed'
<1>1. Step
  BY DEF Good
<1> SUFFICES ASSUME NEW u \in Users
             PROVE  /\ Mine(u, chats'[u].unconfirmed)
                    /\ \A i \in 1 .. Len(chats'[u].log) :
                          chats'[u].log[i][1] = u => chats'[u].log[i][2] <= sent'[u]
  BY <1>1, SentGrows DEF Good, Typed, CopiesTyped, Step, CopyStep
<1>2. Mine(u, chats'[u].unconfirmed)
  <2>1. Mine(u, chats[u].unconfirmed)
    BY DEF Typed, CopiesTyped
  <2> DEFINE s == chats[u].unconfirmed
             t == chats'[u].unconfirmed
  <2>2. /\ t \in Seq(Args)
        /\ \A j \in 1 .. Len(t) :
              \/ \E i \in 1 .. Len(s) : t[j] = s[i]
              \/ t[j].message = <<u, sent[u] + 1>>
    <3>1. t \in Seq(Args)
      BY <1>1, NewUnconfirmed
    <3>2. ASSUME NEW j \in 1 .. Len(t)
          PROVE  \/ \E i \in 1 .. Len(s) : t[j] = s[i]
                 \/ t[j] = [message |-> <<u, sent[u] + 1>>, index |-> Len(chats[u].log) + 1]
      BY <1>1, NewUnconfirmed
    <3> QED BY <3>1, <3>2
  <2> HIDE DEF s, t
  <2>3. ASSUME NEW j \in 1 .. Len(t) PROVE t[j].message[1] = u
    <3>1. CASE \E i \in 1 .. Len(s) : t[j] = s[i]
      BY <2>1, <3>1 DEF Mine, s
    <3>2. CASE t[j].message = <<u, sent[u] + 1>>
      BY <3>2
    <3> QED BY <2>2, <3>1, <3>2
  <2> QED BY <2>2, <2>3 DEF Mine, t
<1>3. ASSUME NEW i \in 1 .. Len(chats'[u].log), chats'[u].log[i][1] = u
      PROVE  chats'[u].log[i][2] <= sent'[u]
  <2>1. CASE i \in 1 .. Len(chats[u].log) /\ chats'[u].log[i] = chats[u].log[i]
    <3>1. chats[u].log[i][2] <= sent[u]
      BY <1>3, <2>1 DEF Typed, CopiesTyped
    <3>2. chats[u].log[i][2] \in Nat /\ sent[u] \in Nat /\ sent'[u] \in Nat /\ sent'[u] >= sent[u]
      BY <1>1, <2>1, CopiesAre, SentGrows DEF Messages
    <3> QED BY <2>1, <3>1, <3>2
  <2>2. CASE CopySends(u) /\ chats'[u].log[i] = <<u, sent[u] + 1>>
    BY <2>2, CopiesAre DEF CopySends
  <2>3. CASE chats'[u].log[i][1] = Other(u)
    BY <1>3, <2>3, OtherIs
  <2> QED BY <1>1, <2>1, <2>2, <2>3, NewMessages
<1> QED BY <1>2, <1>3

LEMMA InitTyped == Init => Typed
<1> SUFFICES ASSUME Init PROVE Typed
  OBVIOUS
<1>1. <<>> \in Seq(Args) /\ Len(<<>>) = 0 /\ <<>> \in Seq(Calls) /\ ToSet(<<>>) = {}
  BY DEF ToSet
<1>2. ASSUME NEW u \in Users
      PROVE  chats[u] = NewChat /\ sent[u] = 0 /\ calls[u] = <<>> /\ verifying[u] = EmptyBag
             /\ answers[u] = EmptyBag /\ retries[u] = EmptyBag /\ resends[u] = EmptyBag
  BY DEF Init
<1>3. /\ DOMAIN chats = Users /\ DOMAIN sent = Users /\ DOMAIN calls = Users
      /\ DOMAIN verifying = Users /\ DOMAIN answers = Users /\ DOMAIN retries = Users
      /\ DOMAIN resends = Users
  BY DEF Init
<1>4. CopiesTyped
  <2>1. NewChat.log = <<>> /\ NewChat.unconfirmed = <<>>
    BY DEF NewChat
  <2>2. \A u \in Users : Mine(u, NewChat.unconfirmed)
    BY <1>1, <2>1 DEF Mine
  <2>3. Len(NewChat.log) = 0
    BY <2>1
  <2> HIDE DEF Init
  <2> QED BY <1>2, <1>3, <2>2, <2>3, NewChatIs DEF CopiesTyped
<1>5. CallsTyped
  BY <1>1, <1>2, <1>3 DEF CallsTyped
<1>6. VerifyingTyped /\ AnswersTyped /\ RetriesTyped /\ ResendsTyped
  BY <1>2, <1>3, EmptyBagIs DEF VerifyingTyped, AnswersTyped, RetriesTyped, ResendsTyped
<1> QED BY <1>4, <1>5, <1>6 DEF Typed, QueuesTyped

\* Every copy is sound: it has each message once and a content for each, and has not
\* read beyond its end; and what is on its way is well formed, each call and answer
\* carrying messages of the user who sent it (DirectChats, c2c_send_messages).
THEOREM StaysTyped == Spec => []Typed
<1>1. Typed /\ [Next]_vars => Typed'
  BY NextSteps, TypesAreKept
<1> QED BY <1>1, InitTyped, PTL DEF Spec

-----------------------------------------------------------------------------
(* Nothing is lost *)

\* What the copies and the calls say of what was sent: what a copy of a user who
\* did not delete it no longer has as unconfirmed has arrived, or was refused;
Kept(u) ==
    u \notin cleared =>
        \A k \in 1 .. sent[u] :
            <<u, k>> \in Ids(chats[u].unconfirmed) \/ Delivered(u, <<u, k>>)
\* an answer that confirms messages speaks the truth;
AnswersAreTrue(u) ==
    \A a \in DOMAIN answers[u] : a.ok => \A m \in Ids(a.args) : Delivered(u, m)
\* somebody is busy with what is unconfirmed.
SomebodyCares(u) ==
    \A m \in Ids(chats[u].unconfirmed) : m \in abandoned \/ Cared(u, m)
LossInv == Typed /\ \A u \in Users : Kept(u) /\ AnswersAreTrue(u) /\ SomebodyCares(u)

\* Messages stay where they are until the copy is deleted.
LEMMA LogsGrow ==
    ASSUME Typed, Step, NEW u \in Users
    PROVE  u \in cleared' \/ Extends(chats[u], chats'[u])
<1>1. CopyStep(u) /\ Len(chats[u].log) \in Nat /\ chats[u].log \in Seq(Messages)
  BY CopiesAre DEF Step
<1>2. CASE CopySends(u)
  <2> DEFINE m == <<u, sent[u] + 1>>
  <2>1. chats'[u].log = Append(chats[u].log, m) /\ m \in Messages
    BY <1>2, CopiesAre DEF CopySends, Messages
  <2> HIDE DEF m
  <2> QED BY <1>1, <2>1 DEF Extends
<1>3. CASE CopyIsRead(u) \/ CopyIsConfirmed(u)
  BY <1>1, <1>3 DEF CopyIsRead, CopyIsConfirmed, SameMessages, Extends
<1>4. CASE CopyReceives(u)
  BY <1>4 DEF CopyReceives, Taken
<1>5. CASE CopyIsDeleted(u)
  BY <1>5 DEF CopyIsDeleted
<1> QED BY <1>1, <1>2, <1>3, <1>4, <1>5 DEF CopyStep

\* A message that is there stays.
LEMMA HasGrows ==
    ASSUME NEW old, NEW new, Sound(old), Sound(new), Extends(old, new), NEW m, Has(old, m)
    PROVE  Has(new, m)
<1>1. /\ DOMAIN old.log = 1 .. Len(old.log) /\ Len(old.log) \in Nat
      /\ DOMAIN new.log = 1 .. Len(new.log) /\ Len(new.log) \in Nat
  BY CopyIs DEF Sound
<1>2. PICK i \in 1 .. Len(old.log) : old.log[i] = m
  BY <1>1 DEF Has, ToSet
<1>3. i \in 1 .. Len(new.log) /\ new.log[i] = m
  BY <1>1, <1>2 DEF Extends
<1> QED BY <1>1, <1>3 DEF Has, ToSet

\* Once there is nothing to do for a message, there never is again.
LEMMA DeliveredForGood ==
    ASSUME Typed, Good, NEW u \in Users, NEW m, Delivered(u, m)
    PROVE  Delivered(u, m)'
<1> DEFINE v == Other(u)
<1>1. v \in Users /\ Step /\ Sound(chats[v]) /\ Sound(chats'[v])
  BY OtherIs DEF Good, Step, CopyStep, Typed, CopiesTyped
<1>2. CASE m \in refused
  BY <1>1, <1>2 DEF Step, Delivered
<1>3. CASE v \in cleared
  BY <1>1, <1>3 DEF Step, Delivered
<1>4. CASE Has(chats[v], m)
  <2>1. v \in cleared' \/ Has(chats'[v], m)
    <3> HIDE DEF v
    <3> QED BY <1>1, <1>4, LogsGrow, HasGrows
  <2> QED BY <2>1 DEF Delivered
<1> QED BY <1>2, <1>3, <1>4 DEF Delivered

\* The messages of a batch, by their places.
LEMMA IdsAre ==
    ASSUME NEW args, args \in Seq(Args)
    PROVE  /\ \A i \in 1 .. Len(args) : args[i].message \in Ids(args)
           /\ \A m \in Ids(args) : \E i \in 1 .. Len(args) : args[i].message = m
BY DEF Ids

\* The first part of the invariant: what is no longer unconfirmed was confirmed by an answer.
LEMMA KeptStep ==
    ASSUME Typed, Good, NEW u \in Users, Kept(u), AnswersAreTrue(u)
    PROVE  Kept(u)'
<1> DEFINE s == chats[u].unconfirmed
           t == chats'[u].unconfirmed
<1>1. Step /\ CopyStep(u) /\ cleared \subseteq cleared' /\ sent[u] \in Nat
  BY CopiesAre DEF Good, Step
<1>2. s \in Seq(Args) /\ t \in Seq(Args)
  BY <1>1, CopiesAre, NewUnconfirmed
<1> SUFFICES ASSUME u \notin cleared', NEW k \in 1 .. sent'[u]
             PROVE  <<u, k>> \in Ids(t) \/ Delivered(u, <<u, k>>)'
  BY DEF Kept
<1>3. u \notin cleared /\ (k \in 1 .. sent[u] => <<u, k>> \in Ids(s) \/ Delivered(u, <<u, k>>))
  BY <1>1 DEF Kept
<1>4. Delivered(u, <<u, k>>) => Delivered(u, <<u, k>>)'
  BY DeliveredForGood
<1>5. CASE CopyIsRead(u) \/ CopyReceives(u)
  <2>1. t = s /\ sent'[u] = sent[u]
    BY <1>5 DEF CopyIsRead, CopyReceives, SameMessages, Taken
  <2> QED BY <1>3, <1>4, <2>1
<1>6. CASE CopySends(u)
  <2> DEFINE m == <<u, sent[u] + 1>>
             a == [message |-> m, index |-> Len(chats[u].log) + 1]
  <2>1. t = Append(s, a) /\ sent'[u] = sent[u] + 1
    BY <1>6 DEF CopySends
  <2>2. a \in Args /\ a.message = m
    BY CopiesAre DEF Args, Messages
  <2> HIDE DEF a
  <2>3. /\ Len(t) = Len(s) + 1 /\ t[Len(s) + 1] = a /\ Len(s) \in Nat
        /\ \A i \in 1 .. Len(s) : t[i] = s[i]
    BY <1>2, <2>1, <2>2
  <2> HIDE DEF s, t
  <2>4. m \in Ids(t)
    <3>1. Len(s) + 1 \in 1 .. Len(t)
      BY <2>3
    <3> QED BY <1>2, <2>2, <2>3, <3>1, IdsAre
  <2>5. \A x \in Ids(s) : x \in Ids(t)
    <3> SUFFICES ASSUME NEW x \in Ids(s) PROVE x \in Ids(t)
      OBVIOUS
    <3>1. PICK i \in 1 .. Len(s) : s[i].message = x
      BY <1>2, IdsAre
    <3>2. i \in 1 .. Len(t) /\ t[i].message = x
      BY <2>3, <3>1
    <3> QED BY <1>2, <3>2, IdsAre
  <2>6. k = sent[u] + 1 \/ k \in 1 .. sent[u]
    BY <1>1, <2>1
  <2> QED BY <1>3, <1>4, <2>4, <2>5, <2>6 DEF m
<1>7. CASE CopyIsConfirmed(u)
  <2>1. PICK a \in DOMAIN answers[u] : a.ok /\ KeptOf(s, Ids(a.args), Len(s), t)
    BY <1>7 DEF CopyIsConfirmed
  <2>2. sent'[u] = sent[u]
    BY <1>7 DEF CopyIsConfirmed
  <2> HIDE DEF s, t
  <2>3. ASSUME NEW m \in Ids(s), m \notin Ids(a.args) PROVE m \in Ids(t)
    <3>1. PICK i \in 1 .. Len(s) : s[i].message = m
      BY <1>2, IdsAre
    <3>2. \E j \in 1 .. Len(t) : t[j] = s[i]
      BY <2>1, <2>3, <3>1 DEF KeptOf
    <3> QED BY <1>2, <3>1, <3>2, IdsAre
  <2>4. \A m \in Ids(a.args) : Delivered(u, m)'
    BY <2>1, DeliveredForGood DEF AnswersAreTrue
  <2> QED BY <1>3, <1>4, <2>2, <2>3, <2>4
<1>8. CASE CopyIsDeleted(u)
  BY <1>8 DEF CopyIsDeleted
<1> QED BY <1>1, <1>5, <1>6, <1>7, <1>8 DEF CopyStep

\* The invariant is inductive.
LEMMA LossStep ==
    ASSUME LossInv, [Next]_vars
    PROVE  LossInv'
<1>1. Typed /\ Good /\ Typed'
  BY NextSteps, TypesAreKept DEF LossInv
<1>2. ASSUME NEW u \in Users PROVE Kept(u)' /\ AnswersAreTrue(u)' /\ SomebodyCares(u)'
  <2>1. Kept(u) /\ AnswersAreTrue(u) /\ SomebodyCares(u)
    BY DEF LossInv
  <2>2. AnswersStep(u) /\ NothingDropped(u) /\ abandoned \subseteq abandoned'
    BY <1>1 DEF Good, Step
  <2>3. AnswersAreTrue(u)'
    <3> SUFFICES ASSUME NEW a \in DOMAIN answers'[u], a.ok, NEW m \in Ids(a.args)
                 PROVE  Delivered(u, m)'
      BY DEF AnswersAreTrue
    <3>1. CASE a \in DOMAIN answers[u]
      BY <1>1, <2>1, <3>1, DeliveredForGood DEF AnswersAreTrue
    <3> QED BY <2>2, <3>1 DEF AnswersStep
  <2>4. SomebodyCares(u)'
    BY <2>1, <2>2 DEF SomebodyCares, NothingDropped
  <2> QED BY <1>1, <2>1, <2>3, <2>4, KeptStep
<1> QED BY <1>1, <1>2 DEF LossInv

LEMMA LossInit == Init => LossInv
<1> SUFFICES ASSUME Init PROVE LossInv
  OBVIOUS
<1>1. ASSUME NEW u \in Users PROVE Kept(u) /\ AnswersAreTrue(u) /\ SomebodyCares(u)
  <2>1. sent[u] = 0 /\ DOMAIN answers[u] = {} /\ chats[u].unconfirmed = <<>>
    BY EmptyBagIs DEF Init, NewChat
  <2> HIDE DEF Init
  <2> QED BY <2>1, IdsOf DEF Kept, AnswersAreTrue, SomebodyCares
<1> QED BY <1>1, InitTyped DEF LossInv

LEMMA LossImplies == LossInv => NothingLost
<1> SUFFICES ASSUME LossInv, NEW u \in Users \ cleared, NEW m \in ToSet(chats[u].log),
                    SenderOf(m) = u
             PROVE  LET unconfirmed == \E i \in DOMAIN chats[u].unconfirmed :
                                          chats[u].unconfirmed[i].message = m
                    IN  IF unconfirmed THEN m \in abandoned \/ InHand(u, m)
                        ELSE m \in refused \/ Other(u) \in cleared \/ Has(chats[Other(u)], m)
  BY DEF NothingLost
<1>1. Typed /\ Kept(u) /\ SomebodyCares(u)
  BY DEF LossInv
<1>2. PICK i \in 1 .. Len(chats[u].log) : chats[u].log[i] = m
  BY <1>1, CopiesAre DEF ToSet
<1>3. m \in Messages /\ m[1] = u /\ m[2] <= sent[u] /\ sent[u] \in Nat
  BY <1>1, <1>2, CopiesAre DEF Typed, CopiesTyped, SenderOf
<1>4. m = <<u, m[2]>> /\ m[2] \in 1 .. sent[u]
  BY <1>3 DEF Messages
<1>5. m \in Ids(chats[u].unconfirmed) \/ Delivered(u, m)
  BY <1>1, <1>4 DEF Kept
<1>6. m \in Ids(chats[u].unconfirmed) => m \in abandoned \/ InHand(u, m)
  <2> SUFFICES ASSUME m \in Ids(chats[u].unconfirmed), m \notin abandoned PROVE InHand(u, m)
    OBVIOUS
  <2>1. Cared(u, m)
    BY <1>1 DEF SomebodyCares
  <2>2. CASE DOMAIN retries[u] # {}
    BY <2>2, EmptyBagIs DEF InHand
  <2>3. ASSUME NEW args \in Carrying(u), m \in Ids(args) PROVE InHand(u, m)
    BY <2>3 DEF Carrying, Waiting, InHand, Ids, ToSet, BagToSet
  <2> QED BY <2>1, <2>2, <2>3 DEF Cared
<1> QED BY <1>5, <1>6 DEF Delivered, Ids

\* A message a user has sent, and whose copy of the chat is there, is in the other
\* user's copy, or was refused, or is still being sent, or was given up after the last
\* retry - unless the other user deleted its copy (send_to_recipients_canister,
\* RetrySendingFailedMessagesJob, c2c_send_messages).
THEOREM MessagesAreNotLost == Spec => []NothingLost
BY LossInit, LossStep, LossImplies, PTL DEF Spec

-----------------------------------------------------------------------------
(* Messages are in order *)

\* The messages of a batch follow those sent before, if these have not arrived.
BatchInOrder(u, args) ==
    \A j \in 1 .. Len(args) : \A k \in 1 .. args[j].message[2] - 1 :
        Delivered(u, <<u, k>>) \/ \E i \in 1 .. j - 1 : args[i].message = <<u, k>>
\* The same after the step, of a batch known now.
WillBeInOrder(u, args) ==
    \A j \in 1 .. Len(args) : \A k \in 1 .. args[j].message[2] - 1 :
        Delivered(u, <<u, k>>)' \/ \E i \in 1 .. j - 1 : args[i].message = <<u, k>>
BatchesInOrder(u) ==
    u \notin cleared =>
        \A args \in Waiting(u) \cup {chats[u].unconfirmed} : BatchInOrder(u, args)
\* In the log, a user's own messages come in the order in which they were sent.
OwnInOrder(u) ==
    \A i, j \in 1 .. Len(chats[u].log) :
        i < j /\ chats[u].log[i][1] = u /\ chats[u].log[j][1] = u =>
            chats[u].log[i][2] < chats[u].log[j][2]
\* A message of the other user follows those it had sent before.
FollowsEarlier(v, p) ==
    LET m == chats[v].log[p] IN
    m[1] # v =>
        \A k \in 1 .. m[2] - 1 :
            <<m[1], k>> \in refused \/ \E q \in 1 .. p - 1 : chats[v].log[q] = <<m[1], k>>
TheirsInOrder(v) == cleared = {} => \A p \in 1 .. Len(chats[v].log) : FollowsEarlier(v, p)
OrderInv ==
    LossInv /\ \A u \in Users : BatchesInOrder(u) /\ OwnInOrder(u) /\ TheirsInOrder(u)

\* A batch in order stays so, as nothing that has arrived goes.
LEMMA BatchStaysInOrder ==
    ASSUME Typed, Good, NEW u \in Users, NEW args, BatchInOrder(u, args)
    PROVE  WillBeInOrder(u, args)
BY DeliveredForGood DEF BatchInOrder, WillBeInOrder

\* What is unconfirmed stays in order: sending adds the user's next message, and an
\* answer takes away only messages that have arrived.
LEMMA UnconfirmedStayInOrder ==
    ASSUME Typed, Good, NEW u \in Users, u \notin cleared', Kept(u), AnswersAreTrue(u),
           BatchInOrder(u, chats[u].unconfirmed)
    PROVE  WillBeInOrder(u, chats'[u].unconfirmed)
<1> DEFINE s == chats[u].unconfirmed
           t == chats'[u].unconfirmed
<1>1. Step /\ CopyStep(u) /\ cleared \subseteq cleared' /\ sent[u] \in Nat /\ u \notin cleared
  BY CopiesAre DEF Good, Step
<1>2. s \in Seq(Args) /\ t \in Seq(Args)
  BY <1>1, CopiesAre, NewUnconfirmed
<1>3. WillBeInOrder(u, s)
  BY BatchStaysInOrder
<1>4. CASE CopyIsRead(u) \/ CopyReceives(u)
  <2>1. t = s
    BY <1>4 DEF CopyIsRead, CopyReceives, SameMessages, Taken
  <2> QED BY <1>3, <2>1
<1>5. CASE CopySends(u)
  <2> DEFINE m == <<u, sent[u] + 1>>
             a == [message |-> m, index |-> Len(chats[u].log) + 1]
  <2>1. t = Append(s, a)
    BY <1>5 DEF CopySends
  <2>2. a \in Args /\ a.message = m /\ m[2] = sent[u] + 1
    BY CopiesAre DEF Args, Messages
  <2> HIDE DEF a
  <2>3. /\ Len(t) = Len(s) + 1 /\ t[Len(s) + 1] = a /\ Len(s) \in Nat
        /\ \A i \in 1 .. Len(s) : t[i] = s[i]
    BY <1>2, <2>1, <2>2
  <2>4. \A k \in 1 .. sent[u] : <<u, k>> \in Ids(s) \/ Delivered(u, <<u, k>>)'
    BY <1>1, DeliveredForGood DEF Kept
  <2> HIDE DEF s, t, m
  <2> SUFFICES ASSUME NEW j \in 1 .. Len(t), NEW k \in 1 .. t[j].message[2] - 1
               PROVE  \/ Delivered(u, <<u, k>>)'
                      \/ \E i \in 1 .. j - 1 : t[i].message = <<u, k>>
    BY DEF WillBeInOrder, t
  <2>5. CASE j = Len(s) + 1
    <3>1. k \in 1 .. sent[u]
      BY <1>1, <2>2, <2>3, <2>5
    <3>2. CASE <<u, k>> \in Ids(s)
      <4>1. PICK i \in 1 .. Len(s) : s[i].message = <<u, k>>
        BY <1>2, <3>2, IdsAre
      <4>2. i \in 1 .. j - 1 /\ t[i].message = <<u, k>>
        BY <2>3, <2>5, <4>1
      <4> QED BY <4>2
    <3> QED BY <2>4, <3>1, <3>2
  <2>6. CASE j # Len(s) + 1
    <3>1. j \in 1 .. Len(s) /\ t[j] = s[j] /\ \A i \in 1 .. j - 1 : t[i] = s[i]
      BY <2>3, <2>6
    <3>2. Delivered(u, <<u, k>>)' \/ \E i \in 1 .. j - 1 : s[i].message = <<u, k>>
      BY <1>3, <3>1 DEF WillBeInOrder
    <3> QED BY <3>1, <3>2
  <2> QED BY <2>5, <2>6
<1>6. CASE CopyIsConfirmed(u)
  <2>1. PICK a \in DOMAIN answers[u] : a.ok /\ KeptOf(s, Ids(a.args), Len(s), t)
    BY <1>6 DEF CopyIsConfirmed
  <2>2. \A m \in Ids(a.args) : Delivered(u, m)'
    BY <2>1, DeliveredForGood DEF AnswersAreTrue
  <2> HIDE DEF s, t
  <2> SUFFICES ASSUME NEW j \in 1 .. Len(t), NEW k \in 1 .. t[j].message[2] - 1
               PROVE  \/ Delivered(u, <<u, k>>)'
                      \/ \E i \in 1 .. j - 1 : t[i].message = <<u, k>>
    BY DEF WillBeInOrder, t
  <2>3. PICK i \in 1 .. Len(s) :
            /\ t[j] = s[i]
            /\ \A b \in 1 .. i - 1 :
                  s[b].message \notin Ids(a.args) => \E c \in 1 .. j - 1 : t[c] = s[b]
    BY <2>1 DEF KeptOf
  <2>4. Delivered(u, <<u, k>>)' \/ \E b \in 1 .. i - 1 : s[b].message = <<u, k>>
    BY <1>3, <2>3 DEF WillBeInOrder
  <2>5. ASSUME NEW b \in 1 .. i - 1, s[b].message = <<u, k>>
        PROVE  \/ Delivered(u, <<u, k>>)'
               \/ \E c \in 1 .. j - 1 : t[c].message = <<u, k>>
    BY <2>2, <2>3, <2>5
  <2> QED BY <2>4, <2>5
<1>7. CASE CopyIsDeleted(u)
  BY <1>7 DEF CopyIsDeleted
<1> QED BY <1>1, <1>4, <1>5, <1>6, <1>7 DEF CopyStep

\* Every call and every retry carries what was unconfirmed at some time.
LEMMA BatchesStayInOrder ==
    ASSUME Typed, Good, NEW u \in Users, Kept(u), AnswersAreTrue(u), BatchesInOrder(u)
    PROVE  BatchesInOrder(u)'
<1> SUFFICES ASSUME u \notin cleared',
                    NEW args \in Waiting(u)' \cup {chats'[u].unconfirmed}
             PROVE  WillBeInOrder(u, args)
  BY DEF BatchesInOrder, BatchInOrder, WillBeInOrder
<1>1. /\ Waiting(u)' \subseteq Waiting(u) \cup {<<>>, chats'[u].unconfirmed}
      /\ u \notin cleared
  BY DEF Good, Step
<1>2. WillBeInOrder(u, chats'[u].unconfirmed)
  BY <1>1, UnconfirmedStayInOrder DEF BatchesInOrder
<1>3. ASSUME args \in Waiting(u) PROVE WillBeInOrder(u, args)
  BY <1>1, <1>3, BatchStaysInOrder DEF BatchesInOrder
<1>4. WillBeInOrder(u, <<>>)
  BY DEF WillBeInOrder
<1> QED BY <1>1, <1>2, <1>3, <1>4

\* A user's own messages come one after the other.
LEMMA OwnStayInOrder ==
    ASSUME Typed, Good, NEW u \in Users, OwnInOrder(u)
    PROVE  OwnInOrder(u)'
<1> DEFINE n == Len(chats[u].log)
           old == chats[u].log
           new == chats'[u].log
<1>1. Step /\ n \in Nat
  BY CopiesAre DEF Good
<1>2. Sound(chats'[u]) /\ Len(new) \in Nat
  BY <1>1, CopyIs DEF Step, CopyStep, Sound
<1> SUFFICES ASSUME NEW i \in 1 .. Len(new), NEW j \in 1 .. Len(new),
                    i < j, new[i][1] = u, new[j][1] = u
             PROVE  new[i][2] < new[j][2]
  BY DEF OwnInOrder
<1>3. \A p \in 1 .. Len(new) :
        new[p][1] = u =>
            \/ p \in 1 .. n /\ new[p] = old[p]
            \/ p = n + 1 /\ new[p] = <<u, sent[u] + 1>>
  BY <1>1, NewMessages, OtherIs
<1> HIDE DEF new
<1>4. CASE j \in 1 .. n /\ new[j] = old[j]
  <2>1. i \in 1 .. n /\ new[i] = old[i]
    BY <1>1, <1>3, <1>4
  <2> QED BY <1>4, <2>1 DEF OwnInOrder
<1>5. CASE j = n + 1 /\ new[j] = <<u, sent[u] + 1>>
  <2>1. i \in 1 .. n /\ new[i] = old[i]
    BY <1>1, <1>3, <1>5
  <2>2. old[i][2] <= sent[u]
    BY <2>1 DEF Typed, CopiesTyped
  <2>3. old[i][2] \in Nat /\ sent[u] \in Nat
    BY <2>1, CopiesAre DEF Messages
  <2>4. old[i][2] < sent[u] + 1
    BY <2>2, <2>3
  <2> QED BY <1>5, <2>1, <2>4
<1> QED BY <1>3, <1>4, <1>5

\* A batch brings the messages it carries in its order, after those that had arrived.
LEMMA TheirsStayInOrder ==
    ASSUME Typed, Good, NEW v \in Users, BatchesInOrder(Other(v)), TheirsInOrder(v)
    PROVE  TheirsInOrder(v)'
<1> DEFINE u == Other(v)
           n == Len(chats[v].log)
           new == chats'[v].log
<1>1. /\ Step /\ n \in Nat /\ cleared \subseteq cleared' /\ refused \subseteq refused'
      /\ u \in Users /\ u # v /\ Other(u) = v
      /\ chats[v].log \in Seq(Messages) /\ DOMAIN chats[v].log = 1 .. n
  BY CopiesAre, OtherIs DEF Good, Step
<1>2. Sound(chats'[v]) /\ Len(new) \in Nat
  BY <1>1, CopyIs DEF Step, CopyStep, Sound
<1> SUFFICES ASSUME cleared' = {}, NEW p \in 1 .. Len(new), new[p][1] # v,
                    NEW k \in 1 .. new[p][2] - 1
             PROVE  \/ <<new[p][1], k>> \in refused'
                    \/ \E q \in 1 .. p - 1 : new[q] = <<new[p][1], k>>
  BY DEF TheirsInOrder, FollowsEarlier
<1>3. cleared = {} /\ Extends(chats[v], chats'[v])
  BY <1>1, LogsGrow
<1>4. CASE p \in 1 .. n /\ new[p] = chats[v].log[p]
  <2>1. FollowsEarlier(v, p)
    BY <1>3, <1>4 DEF TheirsInOrder
  <2>2. \/ <<new[p][1], k>> \in refused
        \/ \E q \in 1 .. p - 1 : chats[v].log[q] = <<new[p][1], k>>
    BY <1>4, <2>1 DEF FollowsEarlier
  <2>3. \A q \in 1 .. p - 1 : q \in 1 .. n
    BY <1>1, <1>4
  <2>4. \A q \in 1 .. n : new[q] = chats[v].log[q]
    BY <1>3 DEF Extends
  <2> QED BY <1>1, <2>2, <2>3, <2>4
<1>5. ASSUME new[p][1] = u, p \in n + 1 .. Len(new),
             NEW args \in Waiting(u), CameWith(args, Len(args), chats'[v], p)
      PROVE  \/ <<new[p][1], k>> \in refused'
             \/ \E q \in 1 .. p - 1 : new[q] = <<new[p][1], k>>
  <2>1. BatchInOrder(u, args)
    BY <1>1, <1>3 DEF BatchesInOrder
  <2>2. PICK j \in 1 .. Len(args) :
            /\ new[p] = args[j].message
            /\ \A i \in 1 .. j - 1 : \E q \in 1 .. p - 1 : new[q] = args[i].message
    BY <1>5 DEF CameWith
  <2>3. Delivered(u, <<u, k>>) \/ \E i \in 1 .. j - 1 : args[i].message = <<u, k>>
    BY <2>1, <2>2 DEF BatchInOrder
  <2>4. CASE Has(chats[v], <<u, k>>)
    <3>1. PICK q \in 1 .. n : chats[v].log[q] = <<u, k>>
      BY <1>1, <2>4 DEF Has, ToSet
    <3>2. q \in 1 .. p - 1
      BY <1>1, <1>2, <1>5, <3>1
    <3>3. new[q] = <<u, k>>
      BY <1>1, <1>3, <3>1 DEF Extends
    <3> QED BY <1>5, <3>2, <3>3
  <2> QED BY <1>1, <1>3, <1>5, <2>2, <2>3, <2>4 DEF Delivered
<1>6. CASE CopySends(v) /\ new[p] = <<v, sent[v] + 1>>
  BY <1>6
<1> QED BY <1>1, <1>4, <1>5, <1>6, NewMessages

\* The invariant is inductive,
LEMMA OrderStep ==
    ASSUME OrderInv, [Next]_vars
    PROVE  OrderInv'
<1>1. LossInv' /\ Typed /\ Good
  BY LossStep, NextSteps DEF OrderInv, LossInv
<1>2. ASSUME NEW u \in Users PROVE BatchesInOrder(u)' /\ OwnInOrder(u)' /\ TheirsInOrder(u)'
  <2>1. Kept(u) /\ AnswersAreTrue(u) /\ BatchesInOrder(u) /\ OwnInOrder(u) /\ TheirsInOrder(u)
    BY DEF OrderInv, LossInv
  <2>2. BatchesInOrder(Other(u))
    BY OtherIs DEF OrderInv
  <2> QED BY <1>1, <2>1, <2>2, BatchesStayInOrder, OwnStayInOrder, TheirsStayInOrder
<1> QED BY <1>1, <1>2 DEF OrderInv

LEMMA OrderInit == Init => OrderInv
<1> SUFFICES ASSUME Init PROVE OrderInv
  OBVIOUS
<1>1. ASSUME NEW u \in Users PROVE BatchesInOrder(u) /\ OwnInOrder(u) /\ TheirsInOrder(u)
  <2>1. /\ chats[u].log = <<>> /\ chats[u].unconfirmed = <<>>
        /\ calls[u] = <<>> /\ DOMAIN verifying[Other(u)] = {}
    BY EmptyBagIs, OtherIs DEF Init, NewChat
  <2>2. Len(chats[u].log) = 0 /\ Waiting(u) = {} /\ BatchInOrder(u, <<>>)
    BY <2>1 DEF Waiting, ToSet, BatchInOrder
  <2> HIDE DEF Init
  <2> QED BY <2>1, <2>2 DEF BatchesInOrder, OwnInOrder, TheirsInOrder
<1> QED BY <1>1, LossInit DEF OrderInv

\* and orders the messages of each sender.
LEMMA OrderImplies == OrderInv => MessagesInOrder
<1> SUFFICES ASSUME OrderInv, NEW u \in Users,
                    NEW i \in DOMAIN chats[u].log, NEW j \in DOMAIN chats[u].log, i < j,
                    chats[u].log[i][1] = chats[u].log[j][1],
                    ~(chats[u].log[i][2] < chats[u].log[j][2])
             PROVE  /\ chats[u].log[i][1] # u
                    /\ {chats[u].log[i], chats[u].log[j]} \cap refused # {} \/ cleared # {}
  BY DEF MessagesInOrder
<1> DEFINE m == chats[u].log[i]
           b == chats[u].log[j]
<1>1. Typed /\ OwnInOrder(u) /\ TheirsInOrder(u)
  BY DEF OrderInv, LossInv
<1>2. /\ i \in 1 .. Len(chats[u].log) /\ j \in 1 .. Len(chats[u].log)
      /\ m \in Messages /\ b \in Messages
  BY <1>1, CopiesAre
<1>3. m[1] # u
  BY <1>1, <1>2 DEF OwnInOrder
<1>4. ASSUME cleared = {} PROVE b \in refused
  <2>1. m # b
    BY <1>1 DEF Typed, CopiesTyped, Sound, Distinct
  <2>2. b = <<m[1], b[2]>> /\ m = <<m[1], m[2]>> /\ m[2] \in Nat /\ b[2] \in Nat \ {0}
    BY <1>2 DEF Messages
  <2>3. b[2] \in 1 .. m[2] - 1
    BY <2>1, <2>2
  <2>4. FollowsEarlier(u, i)
    BY <1>1, <1>2, <1>4 DEF TheirsInOrder
  <2>5. b \in refused \/ \E q \in 1 .. i - 1 : chats[u].log[q] = b
    BY <1>3, <2>2, <2>3, <2>4 DEF FollowsEarlier
  <2>6. \A q \in 1 .. i - 1 : q \in DOMAIN chats[u].log /\ q # j
    BY <1>1, <1>2, CopiesAre
  <2> QED BY <1>1, <2>5, <2>6 DEF Typed, CopiesTyped, Sound, Distinct
<1> QED BY <1>3, <1>4

\* However calls fail, are retried and overlap, a user's own messages are in its copy in
\* the order in which they were sent, each once, and the other user's too, unless they
\* were refused or a copy was deleted (c2c_send_messages_impl,
\* push_message).
THEOREM MessagesStayInOrder == Spec => []MessagesInOrder
BY OrderInit, OrderStep, OrderImplies, PTL DEF Spec

-----------------------------------------------------------------------------
(* Read receipts are truthful *)

\* A batch says where its messages are in the sender's copy,
PointsInto(u, args) ==
    \A j \in 1 .. Len(args) :
        /\ args[j].index \in 1 .. Len(chats[u].log)
        /\ chats[u].log[args[j].index] = args[j].message
BatchesPointHome(u) ==
    \A args \in Waiting(u) \cup {chats[u].unconfirmed} : PointsInto(u, args)
\* the recipient remembers it of what it received,
UnreadIsTrue(v) ==
    \A e \in chats[v].unread :
        /\ e.ours \in 1 .. Len(chats[v].log) /\ e.theirs \in 1 .. Len(chats[Other(v)].log)
        /\ chats[v].log[e.ours] = chats[Other(v)].log[e.theirs]
        /\ chats[v].log[e.ours][1] = Other(v)
\* and says it of a message it has read.
HasRead(v, m) == \E p \in 1 .. Len(chats[v].log) :
                    p <= chats[v].read_by_me /\ chats[v].log[p] = m
ReceiptsAreTrue(v) ==
    \A n \in Receipts(v) :
        /\ n \in 1 .. Len(chats[Other(v)].log) /\ chats[Other(v)].log[n][1] = Other(v)
        /\ HasRead(v, chats[Other(v)].log[n])
ShownAsReadIsRead(u) ==
    \A i \in 1 .. Len(chats[u].log) :
        i <= chats[u].read_by_them /\ chats[u].log[i][1] = u =>
            \/ HasRead(Other(u), chats[u].log[i])
            \/ refused # {}
            \/ \E j \in i + 1 .. Len(chats[u].log) : chats[u].log[j][1] # u
ReadInv ==
    OrderInv /\ (cleared = {} =>
        \A u \in Users : BatchesPointHome(u) /\ UnreadIsTrue(u) /\ ReceiptsAreTrue(u)
                         /\ ShownAsReadIsRead(u))

\* While no copy is deleted, a message stays where it is and what is read stays read.
LEMMA MessagesStay ==
    ASSUME Typed, Good, cleared' = {}, NEW u \in Users
    PROVE  /\ \A i \in 1 .. Len(chats[u].log) :
                 i \in 1 .. Len(chats'[u].log) /\ chats'[u].log[i] = chats[u].log[i]
           /\ chats'[u].read_by_me >= chats[u].read_by_me
           /\ \A m : HasRead(u, m) => HasRead(u, m)'
<1>1. Step /\ CopyStep(u) /\ u \notin cleared'
  BY DEF Good, Step
<1>2. /\ chats[u].read_by_me \in Nat /\ chats'[u].read_by_me \in Nat
      /\ Len(chats[u].log) \in Nat /\ Len(chats'[u].log) \in Nat
  BY <1>1, CopyIs DEF CopyStep, Typed, CopiesTyped, Sound
<1>3. Len(chats[u].log) <= Len(chats'[u].log)
      /\ \A i \in 1 .. Len(chats[u].log) : chats'[u].log[i] = chats[u].log[i]
  BY <1>1, LogsGrow DEF Extends
<1>4. \A i \in 1 .. Len(chats[u].log) : i \in 1 .. Len(chats'[u].log)
  BY <1>2, <1>3
<1>5. chats'[u].read_by_me >= chats[u].read_by_me
  <2>1. \/ chats'[u].read_by_me >= chats[u].read_by_me
        \/ chats'[u].read_by_me = chats[u].read_by_me
    BY <1>1 DEF CopyStep, CopyIsRead, CopySends, CopyIsConfirmed, CopyReceives, CopyIsDeleted,
                Taken
  <2> QED BY <1>2, <2>1
<1>6. ASSUME NEW m, HasRead(u, m) PROVE HasRead(u, m)'
  <2>1. PICK p \in 1 .. Len(chats[u].log) :
            p <= chats[u].read_by_me /\ chats[u].log[p] = m
    BY <1>6 DEF HasRead
  <2>2. p <= chats'[u].read_by_me
    BY <1>2, <1>5, <2>1
  <2> QED BY <1>3, <1>4, <2>1, <2>2 DEF HasRead
<1> QED BY <1>3, <1>4, <1>5, <1>6

\* The same after the step, of a batch known now.
WillPointInto(u, args) ==
    \A j \in 1 .. Len(args) :
        /\ args[j].index \in 1 .. Len(chats'[u].log)
        /\ chats'[u].log[args[j].index] = args[j].message
LEMMA BatchesStayPointing ==
    ASSUME Typed, Good, cleared' = {}, NEW u \in Users, BatchesPointHome(u)
    PROVE  BatchesPointHome(u)'
<1> DEFINE t == chats'[u].unconfirmed
<1>1. Step /\ Waiting(u)' \subseteq Waiting(u) \cup {<<>>, t}
  BY DEF Good, Step
<1>2. ASSUME NEW args, PointsInto(u, args) PROVE WillPointInto(u, args)
  BY <1>2, MessagesStay DEF PointsInto, WillPointInto
<1>3. WillPointInto(u, t)
  <2> SUFFICES ASSUME NEW j \in 1 .. Len(t)
               PROVE  /\ t[j].index \in 1 .. Len(chats'[u].log)
                      /\ chats'[u].log[t[j].index] = t[j].message
    BY DEF WillPointInto
  <2>1. CASE \E i \in 1 .. Len(chats[u].unconfirmed) : t[j] = chats[u].unconfirmed[i]
    <3>1. WillPointInto(u, chats[u].unconfirmed)
      BY <1>2 DEF BatchesPointHome
    <3> QED BY <2>1, <3>1 DEF WillPointInto
  <2>2. CASE CopySends(u) /\ t[j] = [message |-> <<u, sent[u] + 1>>,
                                     index |-> Len(chats[u].log) + 1]
    <3> DEFINE m == <<u, sent[u] + 1>>
               n == Len(chats[u].log)
    <3>1. chats'[u].log = Append(chats[u].log, m) /\ m \in Messages
      BY <2>2, CopiesAre DEF CopySends, Messages
    <3>2. t[j].message = m /\ t[j].index = n + 1
      BY <2>2
    <3>3. chats[u].log \in Seq(Messages) /\ n \in Nat
      BY CopiesAre
    <3> HIDE DEF m
    <3>4. Len(chats'[u].log) = n + 1 /\ chats'[u].log[n + 1] = m
      BY <3>1, <3>3
    <3> HIDE DEF t, n
    <3> QED BY <3>2, <3>3, <3>4
  <2> QED BY <1>1, <2>1, <2>2, NewUnconfirmed
<1>4. WillPointInto(u, <<>>)
  BY DEF WillPointInto
<1> SUFFICES ASSUME NEW args \in Waiting(u)' \cup {t} PROVE WillPointInto(u, args)
  BY DEF BatchesPointHome, PointsInto, WillPointInto
<1> QED BY <1>1, <1>2, <1>3, <1>4 DEF BatchesPointHome

\* What is new and unread came with a batch that named its index.
LEMMA UnreadStaysTrue ==
    ASSUME Typed, Good, cleared' = {}, NEW v \in Users, BatchesPointHome(Other(v)),
           UnreadIsTrue(v)
    PROVE  UnreadIsTrue(v)'
<1> DEFINE u == Other(v)
<1>1. Step /\ CopyStep(v) /\ v \notin cleared' /\ u \in Users
  BY OtherIs DEF Good, Step
<1> SUFFICES ASSUME NEW e \in chats'[v].unread
             PROVE  /\ e.ours \in 1 .. Len(chats'[v].log)
                    /\ e.theirs \in 1 .. Len(chats'[u].log)
                    /\ chats'[v].log[e.ours] = chats'[u].log[e.theirs]
                    /\ chats'[v].log[e.ours][1] = u
  BY DEF UnreadIsTrue
<1>2. CASE e \in chats[v].unread
  BY <1>1, <1>2, MessagesStay DEF UnreadIsTrue
<1>3. ASSUME NEW args \in Waiting(u), NEW j \in 1 .. Len(args), e.theirs = args[j].index,
             e.ours \in 1 .. Len(chats'[v].log), chats'[v].log[e.ours] = args[j].message
      PROVE  /\ e.theirs \in 1 .. Len(chats'[u].log)
             /\ chats'[v].log[e.ours] = chats'[u].log[e.theirs]
             /\ chats'[v].log[e.ours][1] = u
  <2>1. /\ args[j].index \in 1 .. Len(chats[u].log)
        /\ chats[u].log[args[j].index] = args[j].message
    BY DEF BatchesPointHome, PointsInto
  <2>2. args[j].message[1] = u
    BY <1>1, WaitingIsMine DEF Mine
  <2> QED BY <1>1, <1>3, <2>1, <2>2, MessagesStay
<1>4. CASE CopyReceives(v) /\ e \notin chats[v].unread
  <2>1. PICK args \in Waiting(u) : Taken(chats[v], args, Len(args), chats'[v])
    BY <1>4 DEF CopyReceives
  <2>2. PICK j \in 1 .. Len(args) :
            /\ e.theirs = args[j].index
            /\ e.ours \in 1 .. Len(chats'[v].log) /\ chats'[v].log[e.ours] = args[j].message
    BY <1>4, <2>1 DEF Taken
  <2> QED BY <1>3, <2>2
<1> QED BY <1>1, <1>2, <1>4 DEF CopyStep, CopyIsRead, CopySends, CopyIsConfirmed, CopyIsDeleted

\* A new receipt names a message that was unread and is read now.
LEMMA ReceiptsStayTrue ==
    ASSUME Typed, Good, cleared' = {}, NEW v \in Users, UnreadIsTrue(v), ReceiptsAreTrue(v)
    PROVE  ReceiptsAreTrue(v)'
<1> DEFINE u == Other(v)
<1>1. Step /\ ReceiptsStep(v) /\ u \in Users
  BY OtherIs DEF Good, Step
<1> SUFFICES ASSUME NEW n \in Receipts(v)'
             PROVE  /\ n \in 1 .. Len(chats'[u].log) /\ chats'[u].log[n][1] = u
                    /\ HasRead(v, chats[u].log[n])'
  BY DEF ReceiptsAreTrue
<1>2. ASSUME NEW m, n \in 1 .. Len(chats[u].log), chats[u].log[n] = m, m[1] = u, HasRead(v, m)'
      PROVE  /\ n \in 1 .. Len(chats'[u].log) /\ chats'[u].log[n][1] = u
             /\ HasRead(v, chats[u].log[n])'
  <2>1. n \in 1 .. Len(chats'[u].log) /\ chats'[u].log[n] = m
    BY <1>1, <1>2, MessagesStay
  <2> QED BY <1>2, <2>1 DEF HasRead
<1>3. CASE n \in Receipts(v)
  <2>1. /\ n \in 1 .. Len(chats[u].log) /\ chats[u].log[n][1] = u
        /\ HasRead(v, chats[u].log[n])
    BY <1>3 DEF ReceiptsAreTrue
  <2>2. \A m : HasRead(v, m) => HasRead(v, m)'
    BY MessagesStay
  <2>3. PICK m : m = chats[u].log[n]
    OBVIOUS
  <2> QED BY <1>2, <2>1, <2>2, <2>3
<1>4. CASE \E e \in chats[v].unread : e.theirs = n /\ e.ours <= chats'[v].read_by_me
  <2>1. PICK e \in chats[v].unread : e.theirs = n /\ e.ours <= chats'[v].read_by_me
    BY <1>4
  <2>2. /\ e.ours \in 1 .. Len(chats[v].log) /\ n \in 1 .. Len(chats[u].log)
        /\ chats[v].log[e.ours] = chats[u].log[n] /\ chats[v].log[e.ours][1] = u
    BY <2>1 DEF UnreadIsTrue
  <2>3. PICK m : m = chats[u].log[n]
    OBVIOUS
  <2>4. e.ours \in 1 .. Len(chats'[v].log) /\ chats'[v].log[e.ours] = m
    BY <2>2, <2>3, MessagesStay
  <2>5. HasRead(v, m)'
    BY <2>1, <2>4 DEF HasRead
  <2> QED BY <1>2, <2>2, <2>3, <2>5
<1> QED BY <1>1, <1>3, <1>4 DEF ReceiptsStep

\* A receipt tells the truth of the messages before the one it names, too.
LEMMA EarlierAreRead ==
    ASSUME Typed, cleared = {}, refused = {}, NEW u \in Users, OwnInOrder(u),
           TheirsInOrder(Other(u)), ReceiptsAreTrue(Other(u)), NEW n \in Receipts(Other(u)),
           NEW i \in 1 .. Len(chats[u].log), i <= n, chats[u].log[i][1] = u
    PROVE  HasRead(Other(u), chats[u].log[i])
<1> DEFINE v == Other(u)
           m == chats[u].log[i]
           l == chats[u].log[n]
<1>1. v \in Users /\ v # u /\ Other(v) = u
  BY OtherIs
<1>2. n \in 1 .. Len(chats[u].log) /\ l[1] = u /\ HasRead(v, l)
  BY <1>1 DEF ReceiptsAreTrue
<1>3. CASE i = n
  BY <1>2, <1>3
<1>4. CASE i # n
  <2>1. m \in Messages /\ l \in Messages
    BY <1>2, CopiesAre
  <2>2. m[2] < l[2]
    BY <1>2, <1>4 DEF OwnInOrder
  <2>3. m[2] \in 1 .. l[2] - 1 /\ m = <<u, m[2]>>
    <3> HIDE DEF m, l
    <3>1. m[2] \in Nat \ {0} /\ l[2] \in Nat
      BY <2>1 DEF Messages
    <3>2. m = <<m[1], m[2]>>
      BY <2>1 DEF Messages
    <3>3. m[1] = u
      BY DEF m
    <3> QED BY <2>2, <3>1, <3>2, <3>3
  <2>4. PICK p \in 1 .. Len(chats[v].log) : p <= chats[v].read_by_me /\ chats[v].log[p] = l
    BY <1>2 DEF HasRead
  <2>5. FollowsEarlier(v, p)
    BY <2>4 DEF TheirsInOrder
  <2>6. PICK q \in 1 .. p - 1 : chats[v].log[q] = <<l[1], m[2]>>
    BY <1>1, <1>2, <2>3, <2>4, <2>5 DEF FollowsEarlier
  <2>7. chats[v].log[q] = m
    BY <1>2, <2>3, <2>6
  <2>8. chats[v].read_by_me \in Nat /\ Len(chats[v].log) \in Nat
    BY <1>1, CopyIs DEF Typed, CopiesTyped, Sound
  <2>9. q \in 1 .. Len(chats[v].log) /\ q <= chats[v].read_by_me
    BY <2>4, <2>8
  <2> QED BY <2>7, <2>9 DEF HasRead
<1> QED BY <1>3, <1>4

\* What is shown as read changes with a receipt, or with a message of the other user.
LEMMA ShownStaysRead ==
    ASSUME Typed, Good, cleared' = {}, cleared = {}, NEW u \in Users, OwnInOrder(u),
           TheirsInOrder(Other(u)), ReceiptsAreTrue(Other(u)), ShownAsReadIsRead(u)
    PROVE  ShownAsReadIsRead(u)'
<1> DEFINE v == Other(u)
           n == Len(chats[u].log)
           new == chats'[u].log
<1>1. /\ Step /\ CopyStep(u) /\ u \notin cleared' /\ refused \subseteq refused'
      /\ v \in Users /\ v # u /\ n \in Nat
  BY OtherIs, CopiesAre DEF Good, Step
<1>2. /\ Len(new) \in Nat /\ chats'[u].read_by_them \in Nat
      /\ chats[u].read_by_them \in Nat /\ chats[u].read_by_them <= n
  BY <1>1, CopyIs DEF CopyStep, Typed, CopiesTyped, Sound
<1> SUFFICES ASSUME NEW i \in 1 .. Len(new), i <= chats'[u].read_by_them, new[i][1] = u,
                    refused' = {},
                    \A j \in i + 1 .. Len(new) : new[j][1] = u
             PROVE  HasRead(v, chats[u].log[i])'
  BY DEF ShownAsReadIsRead
<1>3. ASSUME i \in 1 .. n, NEW m, m = chats[u].log[i], HasRead(v, m)
      PROVE  HasRead(v, chats[u].log[i])'
  <2>1. HasRead(v, m)'
    BY <1>1, <1>3, MessagesStay
  <2>2. new[i] = m
    BY <1>3, MessagesStay
  <2> QED BY <2>1, <2>2 DEF HasRead
<1>4. ASSUME i \in 1 .. n, i <= chats[u].read_by_them PROVE HasRead(v, chats[u].log[i])'
  <2>1. PICK m : m = chats[u].log[i]
    OBVIOUS
  <2>2. m[1] = u
    BY <1>4, <2>1, MessagesStay
  <2>3. refused = {}
    BY <1>1
  <2>4. ASSUME NEW j \in i + 1 .. n PROVE chats[u].log[j][1] = u
    <3>1. j \in 1 .. n
      BY <1>1, <1>4
    <3>2. j \in 1 .. Len(new) /\ new[j] = chats[u].log[j]
      BY <3>1, MessagesStay
    <3>3. j \in i + 1 .. Len(new)
      BY <1>2, <3>1, <3>2
    <3> QED BY <3>2, <3>3
  <2>5. HasRead(v, m)
    BY <1>4, <2>1, <2>2, <2>3, <2>4 DEF ShownAsReadIsRead
  <2> QED BY <1>3, <1>4, <2>1, <2>5
<1>5. CASE CopySends(u) \/ CopyIsConfirmed(u)
  <2>1. chats'[u].read_by_them = chats[u].read_by_them
    BY <1>5 DEF CopySends, CopyIsConfirmed
  <2>2. i \in 1 .. n /\ i <= chats[u].read_by_them
    BY <1>1, <1>2, <2>1
  <2> QED BY <1>4, <2>2
<1>6. CASE CopyIsRead(u)
  <2>1. new = chats[u].log
    BY <1>6 DEF CopyIsRead, SameMessages
  <2>2. CASE chats'[u].read_by_them = chats[u].read_by_them
    BY <1>4, <2>1, <2>2
  <2>3. ASSUME NEW k \in Receipts(v), chats'[u].read_by_them <= k
        PROVE  HasRead(v, chats[u].log[i])'
    <3>1. k \in Nat
      BY <1>1, <2>3 DEF ReceiptsAreTrue
    <3>2. i <= k
      BY <1>1, <1>2, <2>3, <3>1
    <3>3. PICK m : m = chats[u].log[i]
      OBVIOUS
    <3>4. HasRead(v, m)
      BY <1>1, <2>1, <3>2, <3>3, EarlierAreRead
    <3> QED BY <1>3, <2>1, <3>3, <3>4
  <2> QED BY <1>6, <2>2, <2>3 DEF CopyIsRead
<1>7. CASE CopyReceives(u)
  <2>1. PICK args \in Waiting(v) : Taken(chats[u], args, Len(args), chats'[u])
    BY <1>7 DEF CopyReceives
  <2>2. CASE Len(new) = n
    BY <1>4, <2>1, <2>2 DEF Taken
  <2>3. CASE Len(new) # n
    <3>1. n < Len(new)
      BY <1>1, <1>2, <2>1, <2>3 DEF Taken, Extends
    <3>2. ASSUME NEW p \in n + 1 .. Len(new) PROVE new[p][1] = v
      <4>1. CameWith(args, Len(args), chats'[u], p)
        BY <2>1 DEF Taken
      <4> QED BY <1>1, <4>1, WaitingIsMine DEF CameWith, Mine
    <3>3. Len(new) \in n + 1 .. Len(new)
      BY <1>1, <1>2, <3>1
    <3>4. i \notin n + 1 .. Len(new)
      BY <1>1, <3>2
    <3>5. Len(new) \in i + 1 .. Len(new)
      BY <1>1, <1>2, <3>1, <3>4
    <3> QED BY <1>1, <3>2, <3>3, <3>5
  <2> QED BY <2>2, <2>3
<1>8. CASE CopyIsDeleted(u)
  BY <1>1, <1>8 DEF CopyIsDeleted
<1> QED BY <1>1, <1>5, <1>6, <1>7, <1>8 DEF CopyStep

\* The invariant is inductive,
LEMMA ReadStep ==
    ASSUME ReadInv, [Next]_vars
    PROVE  ReadInv'
<1>1. OrderInv' /\ OrderInv /\ Typed /\ Good
  BY OrderStep, NextSteps DEF ReadInv, OrderInv, LossInv
<1> SUFFICES ASSUME cleared' = {}, NEW u \in Users
             PROVE  (BatchesPointHome(u) /\ UnreadIsTrue(u) /\ ReceiptsAreTrue(u)
                     /\ ShownAsReadIsRead(u))'
  BY <1>1 DEF ReadInv
<1>2. cleared = {}
  BY <1>1 DEF Good, Step
<1>3. /\ BatchesPointHome(u) /\ UnreadIsTrue(u) /\ ReceiptsAreTrue(u) /\ ShownAsReadIsRead(u)
      /\ BatchesPointHome(Other(u)) /\ ReceiptsAreTrue(Other(u))
      /\ OwnInOrder(u) /\ TheirsInOrder(Other(u))
  BY <1>1, <1>2, OtherIs DEF ReadInv, OrderInv
<1> QED BY <1>1, <1>2, <1>3, BatchesStayPointing, UnreadStaysTrue, ReceiptsStayTrue,
           ShownStaysRead

LEMMA ReadInit == Init => ReadInv
<1> SUFFICES ASSUME Init, NEW u \in Users
             PROVE  BatchesPointHome(u) /\ UnreadIsTrue(u) /\ ReceiptsAreTrue(u)
                    /\ ShownAsReadIsRead(u)
  BY OrderInit DEF ReadInv
<1>1. /\ chats[u].log = <<>> /\ chats[u].unconfirmed = <<>> /\ chats[u].unread = {}
      /\ calls[u] = <<>> /\ DOMAIN verifying[Other(u)] = {} /\ DOMAIN resends[u] = {}
  BY EmptyBagIs, OtherIs DEF Init, NewChat
<1>2. Len(chats[u].log) = 0 /\ Waiting(u) = {} /\ Receipts(u) = {} /\ PointsInto(u, <<>>)
  BY <1>1 DEF Waiting, Receipts, ToSet, PointsInto
<1> HIDE DEF Init
<1> QED BY <1>1, <1>2 DEF BatchesPointHome, UnreadIsTrue, ReceiptsAreTrue, ShownAsReadIsRead

\* and what is shown as read is.
LEMMA ReadImplies == ReadInv => ReadReceiptsTruthful
<1> SUFFICES ASSUME ReadInv, cleared = {}, NEW u \in Users,
                    NEW i \in 1 .. chats[u].read_by_them, SenderOf(chats[u].log[i]) = u,
                    refused = {},
                    \A j \in i + 1 .. Len(chats[u].log) : chats[u].log[j][1] = u
             PROVE  Index(chats[Other(u)], chats[u].log[i]) \in 1 .. chats[Other(u)].read_by_me
  BY DEF ReadReceiptsTruthful
<1> DEFINE v == Other(u)
<1>1. Typed /\ ShownAsReadIsRead(u) /\ v \in Users
  BY OtherIs DEF ReadInv, OrderInv, LossInv
<1>2. /\ Sound(chats[v]) /\ chats[v].read_by_me \in Nat
      /\ chats[u].read_by_them \in Nat /\ chats[u].read_by_them <= Len(chats[u].log)
      /\ Len(chats[u].log) \in Nat
  BY <1>1, CopyIs DEF Typed, CopiesTyped, Sound
<1>3. i \in 1 .. Len(chats[u].log) /\ i <= chats[u].read_by_them
  BY <1>2
<1>4. HasRead(v, chats[u].log[i])
  BY <1>1, <1>3 DEF ShownAsReadIsRead, SenderOf
<1>5. PICK p \in 1 .. Len(chats[v].log) :
          p <= chats[v].read_by_me /\ chats[v].log[p] = chats[u].log[i]
  BY <1>4 DEF HasRead
<1>6. Index(chats[v], chats[v].log[p]) = p
  BY <1>2, IndexIs
<1>7. p \in 1 .. chats[v].read_by_me
  BY <1>2, <1>5
<1> QED BY <1>5, <1>6, <1>7

\* What is shown as read has been read by the other user, or the other user wrote
\* something that arrived after it - while no copy is deleted and nothing is refused.
\* Receipts name a message by its index in the sender's copy, are repeated and
\* overtaken, and speak of all that is before it (mark_read, c2c_mark_read,
\* UnreadMessageIndexMap).
THEOREM ReceiptsAreTruthful == Spec => []ReadReceiptsTruthful
BY ReadInit, ReadStep, ReadImplies, PTL DEF Spec

-----------------------------------------------------------------------------
(* The calls about one message *)

\* A call is added to a queue, or the k-th is taken out.
Grown(q, c, r) ==
    /\ Len(r) = Len(q) + 1 /\ r[Len(q) + 1] = c
    /\ \A i \in 1 .. Len(q) : r[i] = q[i]
Shrunk(q, k, r) ==
    /\ k \in 1 .. Len(q) /\ Len(r) = Len(q) - 1
    /\ \A i \in 1 .. Len(q) - 1 : r[i] = IF i < k THEN q[i] ELSE q[i + 1]

\* Whether the queue leaves message m deleted before its i-th call, if all calls about
\* m succeed and the message is deleted now, or not (there).
IsAbout(c, kind, m) == c.kind = kind /\ c.message = m
IsEvent(c, m) == IsAbout(c, "delete", m) \/ IsAbout(c, "undelete", m)
Untouched(q, m, i, j) == \A k \in 1 .. Len(q) : i < k /\ k < j => ~IsEvent(q[k], m)
DeletedBefore(q, m, there, i) ==
    \/ there /\ Untouched(q, m, 0, i)
    \/ \E j \in 1 .. Len(q) : j < i /\ IsAbout(q[j], "delete", m) /\ Untouched(q, m, j, i)

\* Some undelete will find nothing to undelete; no delete will find the message deleted.
Hopeless(q, m, there) ==
    \E i \in 1 .. Len(q) : IsAbout(q[i], "undelete", m) /\ ~DeletedBefore(q, m, there, i)
Alternate(q, m, there) ==
    \A i \in 1 .. Len(q) : IsAbout(q[i], "delete", m) => ~DeletedBefore(q, m, there, i)

\* A call that is added changes nothing before it,
LEMMA GrownBefore ==
    ASSUME NEW q, Len(q) \in Nat, NEW c, NEW r, Grown(q, c, r), NEW m, NEW there \in BOOLEAN,
           NEW i \in 1 .. Len(q) + 1
    PROVE  DeletedBefore(r, m, there, i) <=> DeletedBefore(q, m, there, i)
<1>1. \A k \in 1 .. Len(r) : k < i => k \in 1 .. Len(q) /\ r[k] = q[k]
  BY DEF Grown
<1>2. \A k \in 1 .. Len(q) : k \in 1 .. Len(r) /\ r[k] = q[k]
  BY DEF Grown
<1>3. \A j : Untouched(r, m, j, i) <=> Untouched(q, m, j, i)
  BY <1>1, <1>2 DEF Untouched
<1> QED BY <1>1, <1>2, <1>3 DEF DeletedBefore

\* and after the call that is added.
LEMMA GrownAfter ==
    ASSUME NEW q, Len(q) \in Nat, NEW c, NEW r, Grown(q, c, r), NEW m, NEW there \in BOOLEAN
    PROVE  DeletedBefore(r, m, there, Len(r) + 1)
             <=> IF IsEvent(c, m) THEN IsAbout(c, "delete", m)
                 ELSE DeletedBefore(q, m, there, Len(q) + 1)
<1> DEFINE n == Len(q)
<1>1. /\ Len(r) = n + 1 /\ r[n + 1] = c /\ n \in Nat
      /\ \A k \in 1 .. n : r[k] = q[k] /\ k \in 1 .. n + 1 /\ k < n + 1 /\ k < n + 2
      /\ \A k \in 1 .. n + 1 : k = n + 1 \/ k \in 1 .. n
  BY DEF Grown
<1> HIDE DEF n
<1>2. CASE IsEvent(c, m)
  <2>1. \A j \in 0 .. n : ~Untouched(r, m, j, n + 2)
    BY <1>1, <1>2 DEF Untouched
  <2>2. Untouched(r, m, n + 1, n + 2)
    BY <1>1 DEF Untouched
  <2>3. \A j \in 1 .. n : j \in 0 .. n
    OBVIOUS
  <2>4. DeletedBefore(r, m, there, n + 2) <=> IsAbout(c, "delete", m)
    BY <1>1, <2>1, <2>2, <2>3 DEF DeletedBefore
  <2> QED BY <1>1, <1>2, <2>4
<1>3. CASE ~IsEvent(c, m)
  <2>1. \A j : Untouched(r, m, j, n + 2) <=> Untouched(q, m, j, n + 1)
    BY <1>1, <1>3 DEF Untouched, n
  <2>2. ~IsAbout(c, "delete", m)
    BY <1>3 DEF IsEvent
  <2>3. DeletedBefore(r, m, there, n + 2) <=> DeletedBefore(q, m, there, n + 1)
    <3>1. \A j \in 1 .. n : IsAbout(r[j], "delete", m) <=> IsAbout(q[j], "delete", m)
      BY <1>1
    <3> QED BY <1>1, <2>1, <2>2, <3>1 DEF DeletedBefore, n
  <2> QED BY <1>1, <1>3, <2>3 DEF n
<1> QED BY <1>2, <1>3

\* and what was hopeless, or alternated, still does.
LEMMA GrownKeeps ==
    ASSUME NEW q, Len(q) \in Nat, NEW c, NEW r, Grown(q, c, r), NEW m, NEW there \in BOOLEAN
    PROVE  /\ Hopeless(q, m, there) => Hopeless(r, m, there)
           /\ IsAbout(c, "undelete", m) /\ ~DeletedBefore(q, m, there, Len(q) + 1)
                => Hopeless(r, m, there)
           /\ Alternate(q, m, there)
              /\ (IsAbout(c, "delete", m) => ~DeletedBefore(q, m, there, Len(q) + 1))
                => Alternate(r, m, there)
<1>1. /\ \A i \in 1 .. Len(q) : i \in 1 .. Len(r) /\ r[i] = q[i]
                                /\ i \in 1 .. Len(q) + 1
      /\ Len(q) + 1 \in 1 .. Len(r) /\ r[Len(q) + 1] = c
      /\ \A i \in 1 .. Len(r) : i = Len(q) + 1 \/ i \in 1 .. Len(q)
  BY DEF Grown
<1>2. \A i \in 1 .. Len(q) + 1 : DeletedBefore(r, m, there, i) <=> DeletedBefore(q, m, there, i)
  BY GrownBefore
<1>3. Len(q) + 1 \in 1 .. Len(q) + 1
  OBVIOUS
<1> QED BY <1>1, <1>2, <1>3 DEF Hopeless, Alternate

\* The place before the step of the i-th call after it.
Was(k, i) == IF i < k THEN i ELSE i + 1
\* A queue without its k-th call, place by place.
LEMMA WasIs ==
    ASSUME NEW q, Len(q) \in Nat, NEW k, NEW r, Shrunk(q, k, r)
    PROVE  /\ Len(r) \in Nat /\ Len(q) = Len(r) + 1 /\ k \in 1 .. Len(q)
           /\ \A i \in 1 .. Len(r) : Was(k, i) \in 1 .. Len(q) /\ r[i] = q[Was(k, i)]
                                     /\ Was(k, i) # k
           /\ \A i \in 1 .. Len(q) : i # k => \E j \in 1 .. Len(r) : Was(k, j) = i
           /\ \A i, j \in 0 .. Len(r) + 1 : i < j <=> Was(k, i) < Was(k, j)
           /\ Was(k, Len(r) + 1) = Len(q) + 1 /\ Was(k, 0) = 0
<1>1. /\ k \in 1 .. Len(q) /\ Len(r) = Len(q) - 1
      /\ \A i \in 1 .. Len(q) - 1 : r[i] = IF i < k THEN q[i] ELSE q[i + 1]
  BY DEF Shrunk
<1>2. \A i \in 1 .. Len(r) : Was(k, i) \in 1 .. Len(q) /\ r[i] = q[Was(k, i)] /\ Was(k, i) # k
  BY <1>1 DEF Was
<1>3. \A i \in 1 .. Len(q) : i # k => \E j \in 1 .. Len(r) : Was(k, j) = i
  <2> SUFFICES ASSUME NEW i \in 1 .. Len(q), i # k PROVE \E j \in 1 .. Len(r) : Was(k, j) = i
    OBVIOUS
  <2>1. CASE i < k
    <3>1. i \in 1 .. Len(r) /\ Was(k, i) = i
      BY <1>1, <2>1 DEF Was
    <3> QED BY <3>1
  <2>2. CASE i > k
    <3>1. i - 1 \in 1 .. Len(r) /\ Was(k, i - 1) = i
      BY <1>1, <2>2 DEF Was
    <3> QED BY <3>1
  <2> QED BY <1>1, <2>1, <2>2
<1>4. \A i, j \in 0 .. Len(r) + 1 : i < j <=> Was(k, i) < Was(k, j)
  BY <1>1 DEF Was
<1>5. /\ Was(k, Len(r) + 1) = Len(q) + 1 /\ Was(k, 0) = 0
      /\ Len(r) \in Nat /\ Len(q) = Len(r) + 1 /\ k \in 1 .. Len(q)
  BY <1>1 DEF Was
<1> HIDE DEF Was
<1> QED BY <1>2, <1>3, <1>4, <1>5

\* What is untouched without the k-th call was untouched but for that call.
LEMMA ShrunkUntouched ==
    ASSUME NEW q, Len(q) \in Nat, NEW k, NEW r, Shrunk(q, k, r), NEW m,
           NEW i \in 0 .. Len(r) + 1, NEW j \in 0 .. Len(r) + 1
    PROVE  Untouched(r, m, i, j)
             <=> \A l \in 1 .. Len(q) :
                    l # k /\ Was(k, i) < l /\ l < Was(k, j) => ~IsEvent(q[l], m)
<1>1. ASSUME Untouched(r, m, i, j), NEW l \in 1 .. Len(q), l # k, Was(k, i) < l, l < Was(k, j)
      PROVE  ~IsEvent(q[l], m)
  <2>1. PICK p \in 1 .. Len(r) : Was(k, p) = l
    BY <1>1, WasIs
  <2>2. p \in 0 .. Len(r) + 1 /\ r[p] = q[l]
    BY <2>1, WasIs
  <2>3. i < p /\ p < j
    BY <1>1, <2>1, <2>2, WasIs
  <2> QED BY <1>1, <2>2, <2>3 DEF Untouched
<1>2. ASSUME \A l \in 1 .. Len(q) :
                l # k /\ Was(k, i) < l /\ l < Was(k, j) => ~IsEvent(q[l], m),
             NEW p \in 1 .. Len(r), i < p, p < j
      PROVE  ~IsEvent(r[p], m)
  <2>1. /\ Was(k, p) \in 1 .. Len(q) /\ r[p] = q[Was(k, p)] /\ Was(k, p) # k
        /\ p \in 0 .. Len(r) + 1
    BY WasIs
  <2>2. Was(k, i) < Was(k, p) /\ Was(k, p) < Was(k, j)
    BY <1>2, <2>1, WasIs
  <2> QED BY <1>2, <2>1, <2>2
<1> QED BY <1>1, <1>2 DEF Untouched

\* A call that is not about deleting m is taken out.
LEMMA ShrunkBefore ==
    ASSUME NEW q, Len(q) \in Nat, NEW k, NEW r, Shrunk(q, k, r), NEW m, NEW there \in BOOLEAN,
           ~IsEvent(q[k], m), NEW i \in 1 .. Len(r) + 1
    PROVE  DeletedBefore(r, m, there, i) <=> DeletedBefore(q, m, there, Was(k, i))
<1>1. \A a, b \in 0 .. Len(r) + 1 :
          Untouched(r, m, a, b) <=> Untouched(q, m, Was(k, a), Was(k, b))
  <2> SUFFICES ASSUME NEW a \in 0 .. Len(r) + 1, NEW b \in 0 .. Len(r) + 1
               PROVE  Untouched(r, m, a, b) <=> Untouched(q, m, Was(k, a), Was(k, b))
    OBVIOUS
  <2>1. Untouched(r, m, a, b)
          <=> \A l \in 1 .. Len(q) :
                 l # k /\ Was(k, a) < l /\ l < Was(k, b) => ~IsEvent(q[l], m)
    BY ShrunkUntouched
  <2> QED BY <2>1 DEF Untouched
<1>2. /\ \A j \in 1 .. Len(r) : Was(k, j) \in 1 .. Len(q) /\ r[j] = q[Was(k, j)]
                                /\ j \in 0 .. Len(r) + 1 /\ (j < i <=> Was(k, j) < Was(k, i))
      /\ 0 \in 0 .. Len(r) + 1 /\ i \in 0 .. Len(r) + 1 /\ Was(k, 0) = 0
  BY WasIs
<1>3. \A l \in 1 .. Len(q) : IsAbout(q[l], "delete", m) => \E j \in 1 .. Len(r) : Was(k, j) = l
  <2>1. ~IsAbout(q[k], "delete", m)
    BY DEF IsEvent
  <2> QED BY <2>1, WasIs
<1>4. ASSUME NEW j \in 1 .. Len(r), j < i, IsAbout(r[j], "delete", m), Untouched(r, m, j, i)
      PROVE  DeletedBefore(q, m, there, Was(k, i))
  BY <1>1, <1>2, <1>4 DEF DeletedBefore
<1>5. ASSUME NEW l \in 1 .. Len(q), l < Was(k, i), IsAbout(q[l], "delete", m),
             Untouched(q, m, l, Was(k, i))
      PROVE  DeletedBefore(r, m, there, i)
  <2>1. PICK j \in 1 .. Len(r) : Was(k, j) = l
    BY <1>3, <1>5
  <2> QED BY <1>1, <1>2, <1>5, <2>1 DEF DeletedBefore
<1>6. Untouched(r, m, 0, i) <=> Untouched(q, m, 0, Was(k, i))
  BY <1>1, <1>2
<1> QED BY <1>4, <1>5, <1>6 DEF DeletedBefore

\* The first call, which is about deleting m, is taken out and was a success.
LEMMA AppliedBefore ==
    ASSUME NEW q, Len(q) \in Nat, NEW r, Shrunk(q, 1, r), NEW m, NEW there \in BOOLEAN,
           IsEvent(q[1], m), NEW i \in 1 .. Len(r) + 1
    PROVE  DeletedBefore(r, m, IsAbout(q[1], "delete", m), i)
             <=> DeletedBefore(q, m, there, i + 1)
<1>1. /\ Len(r) \in Nat /\ Len(q) = Len(r) + 1
      /\ \A j \in 1 .. Len(r) : r[j] = q[j + 1] /\ j + 1 \in 1 .. Len(q)
      /\ \A l \in 1 .. Len(q) : l = 1 \/ (l - 1 \in 1 .. Len(r) /\ (l - 1) + 1 = l)
      /\ 1 \in 1 .. Len(q) /\ 0 < 1 /\ 1 < i + 1
  BY DEF Shrunk
<1>2. \A a \in 0 .. Len(r) : Untouched(r, m, a, i) <=> Untouched(q, m, a + 1, i + 1)
  <2> SUFFICES ASSUME NEW a \in 0 .. Len(r)
               PROVE  Untouched(r, m, a, i) <=> Untouched(q, m, a + 1, i + 1)
    OBVIOUS
  <2>1. ASSUME Untouched(r, m, a, i), NEW l \in 1 .. Len(q), a + 1 < l, l < i + 1
        PROVE  ~IsEvent(q[l], m)
    <3>1. l - 1 \in 1 .. Len(r) /\ a < l - 1 /\ l - 1 < i /\ r[l - 1] = q[l]
      BY <1>1, <2>1
    <3> QED BY <2>1, <3>1 DEF Untouched
  <2>2. ASSUME Untouched(q, m, a + 1, i + 1), NEW l \in 1 .. Len(r), a < l, l < i
        PROVE  ~IsEvent(r[l], m)
    <3>1. l + 1 \in 1 .. Len(q) /\ a + 1 < l + 1 /\ l + 1 < i + 1 /\ r[l] = q[l + 1]
      BY <1>1, <2>2
    <3> QED BY <2>2, <3>1 DEF Untouched
  <2> QED BY <2>1, <2>2 DEF Untouched
<1>3. ~Untouched(q, m, 0, i + 1)
  BY <1>1 DEF Untouched
<1>4. Untouched(r, m, 0, i) <=> Untouched(q, m, 1, i + 1)
  BY <1>1, <1>2
<1>5. ASSUME NEW j \in 1 .. Len(r), j < i, IsAbout(r[j], "delete", m), Untouched(r, m, j, i)
      PROVE  DeletedBefore(q, m, there, i + 1)
  <2>1. /\ j + 1 \in 1 .. Len(q) /\ j + 1 < i + 1 /\ IsAbout(q[j + 1], "delete", m)
        /\ Untouched(q, m, j + 1, i + 1)
    BY <1>1, <1>2, <1>5
  <2> QED BY <2>1 DEF DeletedBefore
<1>6. ASSUME NEW l \in 1 .. Len(q), l < i + 1, IsAbout(q[l], "delete", m),
             Untouched(q, m, l, i + 1)
      PROVE  DeletedBefore(r, m, IsAbout(q[1], "delete", m), i)
  <2>1. CASE l = 1
    BY <1>4, <1>6, <2>1 DEF DeletedBefore
  <2>2. CASE l # 1
    <3>1. l - 1 \in 1 .. Len(r) /\ l - 1 < i /\ r[l - 1] = q[l] /\ (l - 1) + 1 = l
          /\ l - 1 \in 0 .. Len(r)
      BY <1>1, <1>6, <2>2
    <3>2. Untouched(r, m, l - 1, i)
      BY <1>2, <1>6, <3>1
    <3> QED BY <1>6, <3>1, <3>2 DEF DeletedBefore
  <2> QED BY <2>1, <2>2
<1>7. IsAbout(q[1], "delete", m) /\ Untouched(r, m, 0, i) => DeletedBefore(q, m, there, i + 1)
  BY <1>1, <1>4 DEF DeletedBefore
<1> QED BY <1>3, <1>5, <1>6, <1>7 DEF DeletedBefore

\* A delete that is taken out leaves no message deleted that was not,
LEMMA DeleteIsMissing ==
    ASSUME NEW q, Len(q) \in Nat, NEW k, NEW r, Shrunk(q, k, r), NEW m, NEW there \in BOOLEAN,
           IsAbout(q[k], "delete", m), NEW i \in 1 .. Len(r) + 1,
           DeletedBefore(r, m, there, i)
    PROVE  DeletedBefore(q, m, there, Was(k, i))
<1>1. /\ k \in 1 .. Len(q) /\ 0 \in 0 .. Len(r) + 1 /\ i \in 0 .. Len(r) + 1 /\ Was(k, 0) = 0
      /\ \A j \in 1 .. Len(r) : /\ Was(k, j) \in 1 .. Len(q) /\ r[j] = q[Was(k, j)]
                                /\ j \in 0 .. Len(r) + 1 /\ (j < i => Was(k, j) < Was(k, i))
  BY WasIs
<1>2. ASSUME NEW a \in 0 .. Len(r) + 1, Untouched(r, m, a, i)
      PROVE  \/ k < Was(k, i) /\ Untouched(q, m, k, Was(k, i))
             \/ Untouched(q, m, Was(k, a), Was(k, i))
  <2>1. \A l \in 1 .. Len(q) : l # k /\ Was(k, a) < l /\ l < Was(k, i) => ~IsEvent(q[l], m)
    BY <1>1, <1>2, ShrunkUntouched
  <2>2. CASE Was(k, a) < k /\ k < Was(k, i)
    <3>1. \A l \in 1 .. Len(q) : k < l => Was(k, a) < l /\ l # k
      BY <1>1, <2>2 DEF Was
    <3> QED BY <2>1, <2>2, <3>1 DEF Untouched
  <2>3. CASE ~(Was(k, a) < k /\ k < Was(k, i))
    BY <2>1, <2>3 DEF Untouched
  <2> QED BY <2>2, <2>3
<1>3. k < Was(k, i) /\ Untouched(q, m, k, Was(k, i)) => DeletedBefore(q, m, there, Was(k, i))
  BY <1>1 DEF DeletedBefore
<1>4. CASE there /\ Untouched(r, m, 0, i)
  BY <1>1, <1>2, <1>3, <1>4 DEF DeletedBefore
<1>5. ASSUME NEW j \in 1 .. Len(r), j < i, IsAbout(r[j], "delete", m), Untouched(r, m, j, i)
      PROVE  DeletedBefore(q, m, there, Was(k, i))
  <2>1. /\ Was(k, j) \in 1 .. Len(q) /\ Was(k, j) < Was(k, i)
        /\ IsAbout(q[Was(k, j)], "delete", m) /\ j \in 0 .. Len(r) + 1
    BY <1>1, <1>5
  <2> QED BY <1>2, <1>3, <1>5, <2>1 DEF DeletedBefore
<1> QED BY <1>4, <1>5 DEF DeletedBefore

\* and what comes next finds the message not deleted.
LEMMA DeleteIsMissed ==
    ASSUME NEW q, Len(q) \in Nat, NEW k, NEW r, Shrunk(q, k, r), NEW m, NEW there \in BOOLEAN,
           ~DeletedBefore(q, m, there, k), NEW i \in k + 1 .. Len(q) + 1, Untouched(q, m, k, i)
    PROVE  ~DeletedBefore(r, m, there, i - 1)
<1>1. /\ k \in 1 .. Len(q) /\ i - 1 \in 0 .. Len(r) + 1 /\ Was(k, i - 1) = i
      /\ 0 \in 0 .. Len(r) + 1 /\ Was(k, 0) = 0 /\ Len(r) \in Nat
  <2>1. k \in 1 .. Len(q) /\ Len(q) = Len(r) + 1 /\ Was(k, 0) = 0 /\ Len(r) \in Nat
    BY WasIs
  <2> QED BY <2>1 DEF Was
<1>2. \A j \in 1 .. Len(r) : /\ Was(k, j) \in 1 .. Len(q) /\ r[j] = q[Was(k, j)]
                             /\ Was(k, j) # k /\ j \in 0 .. Len(r) + 1
                             /\ (j < i - 1 => Was(k, j) < Was(k, i - 1))
  <2>1. \A j \in 1 .. Len(r) : /\ Was(k, j) \in 1 .. Len(q) /\ r[j] = q[Was(k, j)]
                               /\ Was(k, j) # k /\ j \in 0 .. Len(r) + 1
    BY WasIs
  <2> QED BY <1>1, <2>1, WasIs
<1>3. ASSUME NEW a \in 0 .. Len(r) + 1, Untouched(r, m, a, i - 1)
      PROVE  Untouched(q, m, Was(k, a), k)
  <2>1. \A l \in 1 .. Len(q) : l # k /\ Was(k, a) < l /\ l < i => ~IsEvent(q[l], m)
    BY <1>1, <1>3, ShrunkUntouched
  <2>2. \A l \in 1 .. Len(q) : l < k => l # k /\ l < i
    BY <1>1
  <2> QED BY <2>1, <2>2 DEF Untouched
<1>4. ~(there /\ Untouched(r, m, 0, i - 1))
  BY <1>1, <1>3 DEF DeletedBefore
<1>5. ASSUME NEW j \in 1 .. Len(r), j < i - 1, IsAbout(r[j], "delete", m),
             Untouched(r, m, j, i - 1)
      PROVE  FALSE
  <2>1. /\ Was(k, j) \in 1 .. Len(q) /\ Was(k, j) < i /\ Was(k, j) # k
        /\ IsAbout(q[Was(k, j)], "delete", m) /\ j \in 0 .. Len(r) + 1
    BY <1>1, <1>2, <1>5
  <2>2. CASE Was(k, j) < k
    BY <1>3, <1>5, <2>1, <2>2 DEF DeletedBefore
  <2>3. CASE k < Was(k, j)
    BY <2>1, <2>3 DEF Untouched, IsEvent
  <2> QED BY <1>1, <2>1, <2>2, <2>3
<1> QED BY <1>4, <1>5 DEF DeletedBefore

\* Of the calls about deleting m after the k-th there is a first one.
LEMMA FirstEvent ==
    ASSUME NEW q, Len(q) \in Nat, NEW m, NEW k \in 1 .. Len(q),
           ~Untouched(q, m, k, Len(q) + 1)
    PROVE  \E i \in k + 1 .. Len(q) : IsEvent(q[i], m) /\ Untouched(q, m, k, i)
<1> DEFINE n == Len(q)
           S == {j \in 0 .. n : Untouched(q, m, k, j + 1)}
<1> SUFFICES ASSUME \A i \in k + 1 .. n : ~(IsEvent(q[i], m) /\ Untouched(q, m, k, i))
             PROVE  FALSE
  OBVIOUS
<1>1. 0 \in S
  BY DEF Untouched
<1>2. ASSUME NEW j \in 0 .. n - 1, j \in S PROVE j + 1 \in S
  <2>1. Untouched(q, m, k, j + 1) /\ j + 1 \in 0 .. n
    BY <1>2
  <2>2. ASSUME NEW l \in 1 .. n, k < l, l < (j + 1) + 1 PROVE ~IsEvent(q[l], m)
    <3>1. CASE l = j + 1
      <4>1. l \in k + 1 .. n
        BY <2>2
      <4> QED BY <2>1, <3>1, <4>1
    <3>2. CASE l # j + 1
      <4>1. l < j + 1
        BY <2>2, <3>2
      <4> QED BY <2>1, <2>2, <4>1 DEF Untouched
    <3> QED BY <3>1, <3>2
  <2> QED BY <2>1, <2>2 DEF Untouched
<1>3. 0 .. n \subseteq S
  <2> HIDE DEF S
  <2> QED BY <1>1, <1>2, Induction
<1>4. n \in S
  BY <1>3
<1> QED BY <1>4

\* A delete that is taken out when the deletes and undeletes alternate.
LEMMA DeleteTakenOut ==
    ASSUME NEW q, Len(q) \in Nat, NEW k, NEW r, Shrunk(q, k, r), NEW m, NEW there \in BOOLEAN,
           IsAbout(q[k], "delete", m)
    PROVE  /\ Hopeless(q, m, there) => Hopeless(r, m, there)
           /\ Alternate(q, m, there) =>
                \/ Hopeless(r, m, there)
                \/ /\ Alternate(r, m, there)
                   /\ DeletedBefore(q, m, there, Len(q) + 1)
                   /\ ~DeletedBefore(r, m, there, Len(r) + 1)
                   /\ ~Untouched(q, m, 0, Len(q) + 1)
<1>1. /\ k \in 1 .. Len(q) /\ Len(r) \in Nat /\ Len(q) = Len(r) + 1
      /\ \A i \in 1 .. Len(r) : /\ Was(k, i) \in 1 .. Len(q) /\ r[i] = q[Was(k, i)]
                                /\ i \in 1 .. Len(r) + 1
      /\ \A i \in 1 .. Len(q) : i # k => \E j \in 1 .. Len(r) : Was(k, j) = i
  BY WasIs
<1>2. \A i \in 1 .. Len(r) + 1 :
          DeletedBefore(r, m, there, i) => DeletedBefore(q, m, there, Was(k, i))
  BY DeleteIsMissing
<1>3. ASSUME Hopeless(q, m, there) PROVE Hopeless(r, m, there)
  <2>1. PICK i \in 1 .. Len(q) :
            IsAbout(q[i], "undelete", m) /\ ~DeletedBefore(q, m, there, i)
    BY <1>3 DEF Hopeless
  <2>2. i # k
    BY <2>1 DEF IsAbout
  <2>3. PICK j \in 1 .. Len(r) : Was(k, j) = i
    BY <1>1, <2>2
  <2> QED BY <1>1, <1>2, <2>1, <2>3 DEF Hopeless
<1>4. ASSUME Alternate(q, m, there)
      PROVE  \/ Hopeless(r, m, there)
             \/ /\ Alternate(r, m, there)
                /\ DeletedBefore(q, m, there, Len(q) + 1)
                /\ ~DeletedBefore(r, m, there, Len(r) + 1)
                /\ ~Untouched(q, m, 0, Len(q) + 1)
  <2>1. ~DeletedBefore(q, m, there, k)
    BY <1>1, <1>4 DEF Alternate
  <2>2. CASE ~Untouched(q, m, k, Len(q) + 1)
    <3>1. PICK i \in k + 1 .. Len(q) : IsEvent(q[i], m) /\ Untouched(q, m, k, i)
      BY <1>1, <2>2, FirstEvent
    <3>2. /\ i \in 1 .. Len(q) /\ i \in k + 1 .. Len(q) + 1 /\ k < i
          /\ i - 1 \in 1 .. Len(r) /\ r[i - 1] = q[i]
      <4>1. /\ i \in 1 .. Len(q) /\ i \in k + 1 .. Len(q) + 1 /\ k < i
            /\ i - 1 \in 1 .. Len(r) /\ Was(k, i - 1) = i
        BY <1>1 DEF Was
      <4> QED BY <1>1, <4>1
    <3>3. DeletedBefore(q, m, there, i)
      BY <1>1, <3>1, <3>2 DEF DeletedBefore
    <3>4. IsAbout(q[i], "undelete", m)
      BY <1>4, <3>1, <3>2, <3>3 DEF Alternate, IsEvent
    <3>5. ~DeletedBefore(r, m, there, i - 1)
      BY <2>1, <3>1, <3>2, DeleteIsMissed
    <3> QED BY <3>2, <3>4, <3>5 DEF Hopeless
  <2>3. CASE Untouched(q, m, k, Len(q) + 1)
    <3>1. Alternate(r, m, there)
      BY <1>1, <1>2, <1>4 DEF Alternate
    <3>2. /\ Len(q) + 1 \in k + 1 .. Len(q) + 1 /\ k < Len(q) + 1 /\ 0 < k
          /\ (Len(q) + 1) - 1 = Len(r) + 1
      BY <1>1
    <3>3. DeletedBefore(q, m, there, Len(q) + 1) /\ ~Untouched(q, m, 0, Len(q) + 1)
      BY <1>1, <2>3, <3>2 DEF DeletedBefore, Untouched, IsEvent
    <3>4. ~DeletedBefore(r, m, there, Len(r) + 1)
      BY <2>1, <2>3, <3>2, DeleteIsMissed
    <3> QED BY <3>1, <3>3, <3>4
  <2> QED BY <2>2, <2>3
<1> QED BY <1>3, <1>4

\* Another call is taken out.
LEMMA OtherTakenOut ==
    ASSUME NEW q, Len(q) \in Nat, NEW k, NEW r, Shrunk(q, k, r), NEW m, NEW there \in BOOLEAN,
           ~IsEvent(q[k], m)
    PROVE  /\ Hopeless(q, m, there) => Hopeless(r, m, there)
           /\ Alternate(q, m, there) => Alternate(r, m, there)
           /\ DeletedBefore(r, m, there, Len(r) + 1)
                <=> DeletedBefore(q, m, there, Len(q) + 1)
           /\ Untouched(q, m, 0, Len(q) + 1) => Untouched(r, m, 0, Len(r) + 1)
<1>1. /\ k \in 1 .. Len(q) /\ Len(r) \in Nat /\ Len(q) = Len(r) + 1
      /\ \A i \in 1 .. Len(r) : /\ Was(k, i) \in 1 .. Len(q) /\ r[i] = q[Was(k, i)]
                                /\ i \in 1 .. Len(r) + 1
      /\ \A i \in 1 .. Len(q) : i # k => \E j \in 1 .. Len(r) : Was(k, j) = i
      /\ Was(k, Len(r) + 1) = Len(q) + 1
  BY WasIs
<1>2. \A i \in 1 .. Len(r) + 1 :
          DeletedBefore(r, m, there, i) <=> DeletedBefore(q, m, there, Was(k, i))
  BY ShrunkBefore
<1>3. Len(r) + 1 \in 1 .. Len(r) + 1
  BY <1>1
<1>4. ASSUME Hopeless(q, m, there) PROVE Hopeless(r, m, there)
  <2>1. PICK i \in 1 .. Len(q) :
            IsAbout(q[i], "undelete", m) /\ ~DeletedBefore(q, m, there, i)
    BY <1>4 DEF Hopeless
  <2>2. PICK j \in 1 .. Len(r) : Was(k, j) = i
    BY <1>1, <2>1 DEF IsEvent
  <2> QED BY <1>1, <1>2, <2>1, <2>2 DEF Hopeless
<1>5. Alternate(q, m, there) => Alternate(r, m, there)
  BY <1>1, <1>2 DEF Alternate
<1>6. Untouched(q, m, 0, Len(q) + 1) => Untouched(r, m, 0, Len(r) + 1)
  <2>1. \A i \in 1 .. Len(q) : 0 < i /\ i < Len(q) + 1
    OBVIOUS
  <2> QED BY <1>1, <2>1 DEF Untouched
<1> QED BY <1>1, <1>2, <1>3, <1>4, <1>5, <1>6

\* The first call is taken out, with success.
LEMMA FirstTakenOut ==
    ASSUME NEW q, Len(q) \in Nat, NEW r, Shrunk(q, 1, r), NEW m, NEW there \in BOOLEAN,
           IsEvent(q[1], m), IsAbout(q[1], "undelete", m) => there
    PROVE  LET now == IsAbout(q[1], "delete", m) IN
           /\ Hopeless(q, m, there) => Hopeless(r, m, now)
           /\ Alternate(q, m, there) => Alternate(r, m, now)
           /\ DeletedBefore(r, m, now, Len(r) + 1)
                <=> DeletedBefore(q, m, there, Len(q) + 1)
           /\ ~Untouched(q, m, 0, Len(q) + 1)
<1> DEFINE now == IsAbout(q[1], "delete", m)
<1>1. /\ Len(r) \in Nat /\ Len(q) = Len(r) + 1
      /\ \A j \in 1 .. Len(r) : r[j] = q[j + 1] /\ j + 1 \in 1 .. Len(q) /\ j \in 1 .. Len(r) + 1
      /\ \A l \in 1 .. Len(q) : l = 1 \/ (l - 1 \in 1 .. Len(r) /\ (l - 1) + 1 = l)
      /\ 1 \in 1 .. Len(q) /\ Len(r) + 1 \in 1 .. Len(r) + 1 /\ 0 < 1 /\ 1 < Len(q) + 1
  BY DEF Shrunk
<1>2. \A i \in 1 .. Len(r) + 1 :
          DeletedBefore(r, m, now, i) <=> DeletedBefore(q, m, there, i + 1)
  BY AppliedBefore
<1> HIDE DEF now
<1>3. ASSUME Hopeless(q, m, there) PROVE Hopeless(r, m, now)
  <2>1. PICK i \in 1 .. Len(q) :
            IsAbout(q[i], "undelete", m) /\ ~DeletedBefore(q, m, there, i)
    BY <1>3 DEF Hopeless
  <2>2. i # 1
    <3>1. Untouched(q, m, 0, 1)
      BY DEF Untouched
    <3> QED BY <2>1, <3>1 DEF DeletedBefore
  <2>3. i - 1 \in 1 .. Len(r) /\ (i - 1) + 1 = i
    BY <1>1, <2>2
  <2> QED BY <1>1, <1>2, <2>1, <2>3 DEF Hopeless
<1>4. Alternate(q, m, there) => Alternate(r, m, now)
  BY <1>1, <1>2 DEF Alternate
<1>5. ~Untouched(q, m, 0, Len(q) + 1)
  BY <1>1 DEF Untouched
<1> QED BY <1>1, <1>2, <1>3, <1>4, <1>5 DEF now

\* What u and the other user have of message m of u, and what is between them: who deleted
\* it in each copy, the calls of u, and how many deletes are to be repeated.
DeletesAgree(u, m, q, late, mine, theirs) ==
    LET there == theirs = {u}
        last == Len(q) + 1
    IN  \/ Hopeless(q, m, there)
        \/ /\ Alternate(q, m, there)
           /\ \/ late = 0 /\ (mine = {u} <=> DeletedBefore(q, m, there, last))
              \/ late = 0 /\ theirs = {Other(u)} /\ Untouched(q, m, 0, last)
              \/ late = 1 /\ mine = {u} /\ ~DeletedBefore(q, m, there, last)
EditsAgree(m, q, mine, theirs) ==
    /\ \A i \in 1 .. Len(q) : IsAbout(q[i], "edit", m) =>
          \E j \in 1 .. Len(q) : i <= j /\ IsAbout(q[j], "edit", m) /\ q[j].n = mine
    /\ (\A i \in 1 .. Len(q) : ~IsAbout(q[i], "edit", m)) => theirs = mine

\* Calls are made: about something else,
LEMMA OtherMade ==
    ASSUME NEW u \in Users, NEW m, NEW q, Len(q) \in Nat, NEW c, NEW r, Grown(q, c, r),
           ~IsEvent(c, m), NEW late, NEW mine, NEW theirs,
           DeletesAgree(u, m, q, late, mine, theirs)
    PROVE  DeletesAgree(u, m, r, late, mine, theirs)
<1> DEFINE there == theirs = {u}
<1>1. there \in BOOLEAN
  OBVIOUS
<1>2. /\ Hopeless(q, m, there) => Hopeless(r, m, there)
      /\ Alternate(q, m, there) => Alternate(r, m, there)
      /\ DeletedBefore(r, m, there, Len(r) + 1) <=> DeletedBefore(q, m, there, Len(q) + 1)
  <2>1. ~IsAbout(c, "delete", m)
    BY DEF IsEvent
  <2> HIDE DEF there
  <2> QED BY <1>1, <2>1, GrownKeeps, GrownAfter
<1>3. Untouched(q, m, 0, Len(q) + 1) => Untouched(r, m, 0, Len(r) + 1)
  <2>1. \A i \in 1 .. Len(r) : i = Len(q) + 1 \/ (i \in 1 .. Len(q) /\ i < Len(q) + 1)
    BY DEF Grown
  <2> QED BY <2>1 DEF Grown, Untouched
<1> QED BY <1>2, <1>3 DEF DeletesAgree

\* a delete,
LEMMA DeleteMade ==
    ASSUME NEW u \in Users, NEW m, NEW q, Len(q) \in Nat, NEW c, NEW r, Grown(q, c, r),
           IsAbout(c, "delete", m), NEW late, NEW theirs,
           DeletesAgree(u, m, q, late, {}, theirs)
    PROVE  DeletesAgree(u, m, r, late, {u}, theirs)
<1> DEFINE there == theirs = {u}
<1>1. there \in BOOLEAN /\ {} # {u} /\ IsEvent(c, m) /\ Other(u) # u
  BY OtherIs DEF IsEvent
<1>2. /\ Hopeless(q, m, there) => Hopeless(r, m, there)
      /\ Alternate(q, m, there) /\ ~DeletedBefore(q, m, there, Len(q) + 1)
           => Alternate(r, m, there)
      /\ DeletedBefore(r, m, there, Len(r) + 1)
  <2> HIDE DEF there
  <2> QED BY <1>1, GrownKeeps, GrownAfter
<1>3. theirs = {Other(u)} /\ Untouched(q, m, 0, Len(q) + 1)
        => ~DeletedBefore(q, m, there, Len(q) + 1)
  <2>1. theirs = {Other(u)} => ~there
    BY <1>1
  <2>2. \A j \in 1 .. Len(q) : 0 < j /\ j < Len(q) + 1
    OBVIOUS
  <2> QED BY <2>1, <2>2 DEF DeletedBefore, Untouched, IsEvent
<1> QED BY <1>1, <1>2, <1>3 DEF DeletesAgree

\* an undelete,
LEMMA UndeleteMade ==
    ASSUME NEW u \in Users, NEW m, NEW q, Len(q) \in Nat, NEW c, NEW r, Grown(q, c, r),
           IsAbout(c, "undelete", m), NEW late, NEW theirs,
           DeletesAgree(u, m, q, late, {u}, theirs)
    PROVE  DeletesAgree(u, m, r, late, {}, theirs)
<1> DEFINE there == theirs = {u}
<1>1. there \in BOOLEAN /\ {} # {u} /\ IsEvent(c, m) /\ Other(u) # u /\ ~IsAbout(c, "delete", m)
  BY OtherIs DEF IsEvent, IsAbout
<1>2. /\ Hopeless(q, m, there) => Hopeless(r, m, there)
      /\ ~DeletedBefore(q, m, there, Len(q) + 1) => Hopeless(r, m, there)
      /\ Alternate(q, m, there) => Alternate(r, m, there)
      /\ ~DeletedBefore(r, m, there, Len(r) + 1)
  <2> HIDE DEF there
  <2> QED BY <1>1, GrownKeeps, GrownAfter
<1>3. theirs = {Other(u)} /\ Untouched(q, m, 0, Len(q) + 1)
        => ~DeletedBefore(q, m, there, Len(q) + 1)
  <2>1. theirs = {Other(u)} => ~there
    BY <1>1
  <2>2. \A j \in 1 .. Len(q) : 0 < j /\ j < Len(q) + 1
    OBVIOUS
  <2> QED BY <2>1, <2>2 DEF DeletedBefore, Untouched, IsEvent
<1> QED BY <1>1, <1>2, <1>3 DEF DeletesAgree

\* or a delete that was rejected.
LEMMA DeleteRepeated ==
    ASSUME NEW u \in Users, NEW m, NEW q, Len(q) \in Nat, NEW c, NEW r, Grown(q, c, r),
           IsAbout(c, "delete", m), NEW late \in Nat, NEW mine, NEW theirs,
           DeletesAgree(u, m, q, late + 1, mine, theirs)
    PROVE  DeletesAgree(u, m, r, late, mine, theirs)
<1> DEFINE there == theirs = {u}
<1>1. there \in BOOLEAN /\ IsEvent(c, m) /\ late + 1 # 0 /\ (late + 1 = 1 => late = 0)
  BY DEF IsEvent
<1>2. /\ Hopeless(q, m, there) => Hopeless(r, m, there)
      /\ Alternate(q, m, there) /\ ~DeletedBefore(q, m, there, Len(q) + 1)
           => Alternate(r, m, there)
      /\ DeletedBefore(r, m, there, Len(r) + 1)
  <2> HIDE DEF there
  <2> QED BY <1>1, GrownKeeps, GrownAfter
<1> QED BY <1>1, <1>2 DEF DeletesAgree

\* Calls are rejected or handled: about something else,
LEMMA OtherGone ==
    ASSUME NEW u \in Users, NEW m, NEW q, Len(q) \in Nat, NEW k, NEW r, Shrunk(q, k, r),
           ~IsEvent(q[k], m), NEW late, NEW mine, NEW theirs,
           DeletesAgree(u, m, q, late, mine, theirs)
    PROVE  DeletesAgree(u, m, r, late, mine, theirs)
<1> DEFINE there == theirs = {u}
<1>1. there \in BOOLEAN
  OBVIOUS
<1>2. /\ Hopeless(q, m, there) => Hopeless(r, m, there)
      /\ Alternate(q, m, there) => Alternate(r, m, there)
      /\ DeletedBefore(r, m, there, Len(r) + 1) <=> DeletedBefore(q, m, there, Len(q) + 1)
      /\ Untouched(q, m, 0, Len(q) + 1) => Untouched(r, m, 0, Len(r) + 1)
  <2> HIDE DEF there
  <2> QED BY <1>1, OtherTakenOut
<1> QED BY <1>2 DEF DeletesAgree

\* a delete that is rejected,
LEMMA DeleteRejected ==
    ASSUME NEW u \in Users, NEW m, NEW q, Len(q) \in Nat, NEW k, NEW r, Shrunk(q, k, r),
           IsAbout(q[k], "delete", m), NEW late, NEW mine, NEW theirs,
           DeletesAgree(u, m, q, late, mine, theirs)
    PROVE  DeletesAgree(u, m, r, late + 1, mine, theirs)
<1> DEFINE there == theirs = {u}
<1>1. there \in BOOLEAN
  OBVIOUS
<1>2. /\ Hopeless(q, m, there) => Hopeless(r, m, there)
      /\ Alternate(q, m, there) =>
           \/ Hopeless(r, m, there)
           \/ /\ Alternate(r, m, there)
              /\ DeletedBefore(q, m, there, Len(q) + 1)
              /\ ~DeletedBefore(r, m, there, Len(r) + 1)
              /\ ~Untouched(q, m, 0, Len(q) + 1)
  <2> HIDE DEF there
  <2> QED BY <1>1, DeleteTakenOut
<1> QED BY <1>2 DEF DeletesAgree

\* a delete or undelete that is handled, with success.
LEMMA DeleteHandled ==
    ASSUME NEW u \in Users, NEW m, NEW q, Len(q) \in Nat, NEW r, Shrunk(q, 1, r),
           NEW late, NEW mine, NEW theirs, NEW now,
           \/ IsAbout(q[1], "delete", m) /\ now = {u}
           \/ IsAbout(q[1], "undelete", m) /\ theirs = {u} /\ now = {},
           DeletesAgree(u, m, q, late, mine, theirs)
    PROVE  DeletesAgree(u, m, r, late, mine, now)
<1> DEFINE there == theirs = {u}
           after == now = {u}
<1>1. /\ there \in BOOLEAN /\ IsEvent(q[1], m) /\ (IsAbout(q[1], "undelete", m) => there)
      /\ after = IsAbout(q[1], "delete", m)
  <2>1. {} # {u} /\ ~(IsAbout(q[1], "undelete", m) /\ IsAbout(q[1], "delete", m))
    BY DEF IsAbout
  <2>2. IsAbout(q[1], "delete", m) \in BOOLEAN
    BY DEF IsAbout
  <2> QED BY <2>1, <2>2 DEF IsEvent
<1>2. /\ Hopeless(q, m, there) => Hopeless(r, m, after)
      /\ Alternate(q, m, there) => Alternate(r, m, after)
      /\ DeletedBefore(r, m, after, Len(r) + 1) <=> DeletedBefore(q, m, there, Len(q) + 1)
      /\ ~Untouched(q, m, 0, Len(q) + 1)
  <2> HIDE DEF there, after
  <2> QED BY <1>1, FirstTakenOut
<1> QED BY <1>2 DEF DeletesAgree

\* The other user deletes the message for itself.
LEMMA DeletedByOther ==
    ASSUME NEW u \in Users, NEW m, NEW q, NEW late, NEW mine,
           DeletesAgree(u, m, q, late, mine, {})
    PROVE  DeletesAgree(u, m, q, late, mine, {Other(u)})
<1>1. {} # {u} /\ {Other(u)} # {u} /\ {} # {Other(u)}
  BY OtherIs
<1>2. ({} = {u}) = FALSE /\ ({Other(u)} = {u}) = FALSE
  BY <1>1
<1> QED BY <1>1, <1>2 DEF DeletesAgree

-----------------------------------------------------------------------------
(* The same for edits *)

\* An edit is the latest of all;
LEMMA EditMade ==
    ASSUME NEW m, NEW q, Len(q) \in Nat, NEW c, NEW r, Grown(q, c, r), IsAbout(c, "edit", m),
           NEW theirs
    PROVE  EditsAgree(m, r, c.n, theirs)
<1>1. Len(r) \in 1 .. Len(r) /\ r[Len(r)] = c /\ \A i \in 1 .. Len(r) : i <= Len(r)
  BY DEF Grown
<1> QED BY <1>1 DEF EditsAgree

\* other calls that are made leave the edits alone,
LEMMA NoEditMade ==
    ASSUME NEW m, NEW q, Len(q) \in Nat, NEW c, NEW r, Grown(q, c, r), ~IsAbout(c, "edit", m),
           NEW mine, NEW theirs, EditsAgree(m, q, mine, theirs)
    PROVE  EditsAgree(m, r, mine, theirs)
<1>1. /\ \A i \in 1 .. Len(q) : i \in 1 .. Len(r) /\ r[i] = q[i]
      /\ \A i \in 1 .. Len(r) : i \in 1 .. Len(q) \/ r[i] = c
  BY DEF Grown
<1>2. ASSUME NEW i \in 1 .. Len(r), IsAbout(r[i], "edit", m)
      PROVE  \E j \in 1 .. Len(r) : i <= j /\ IsAbout(r[j], "edit", m) /\ r[j].n = mine
  <2>1. i \in 1 .. Len(q) /\ IsAbout(q[i], "edit", m)
    BY <1>1, <1>2
  <2>2. PICK j \in 1 .. Len(q) : i <= j /\ IsAbout(q[j], "edit", m) /\ q[j].n = mine
    BY <2>1 DEF EditsAgree
  <2> QED BY <1>1, <2>2
<1>3. ASSUME \A i \in 1 .. Len(r) : ~IsAbout(r[i], "edit", m) PROVE theirs = mine
  BY <1>1, <1>3 DEF EditsAgree
<1> QED BY <1>2, <1>3 DEF EditsAgree

\* and so do those that go;
LEMMA NoEditGone ==
    ASSUME NEW m, NEW q, Len(q) \in Nat, NEW k, NEW r, Shrunk(q, k, r),
           ~IsAbout(q[k], "edit", m), NEW mine, NEW theirs, EditsAgree(m, q, mine, theirs)
    PROVE  EditsAgree(m, r, mine, theirs)
<1>1. /\ Len(r) \in Nat /\ Len(q) = Len(r) + 1 /\ k \in 1 .. Len(q)
      /\ \A i \in 1 .. Len(r) : Was(k, i) \in 1 .. Len(q) /\ r[i] = q[Was(k, i)]
      /\ \A i \in 1 .. Len(q) : i # k => \E j \in 1 .. Len(r) : Was(k, j) = i
      /\ \A i, j \in 0 .. Len(r) + 1 : i < j <=> Was(k, i) < Was(k, j)
  BY WasIs
<1>2. ASSUME NEW i \in 1 .. Len(r), IsAbout(r[i], "edit", m)
      PROVE  \E j \in 1 .. Len(r) : i <= j /\ IsAbout(r[j], "edit", m) /\ r[j].n = mine
  <2>1. Was(k, i) \in 1 .. Len(q) /\ IsAbout(q[Was(k, i)], "edit", m)
    BY <1>1, <1>2
  <2>2. PICK l \in 1 .. Len(q) : Was(k, i) <= l /\ IsAbout(q[l], "edit", m) /\ q[l].n = mine
    BY <2>1 DEF EditsAgree
  <2>3. PICK j \in 1 .. Len(r) : Was(k, j) = l
    BY <1>1, <2>2
  <2>4. i <= j
    <3>1. i \in 0 .. Len(r) + 1 /\ j \in 0 .. Len(r) + 1
      BY <1>1
    <3>2. ~(Was(k, j) < Was(k, i))
      BY <2>1, <2>2, <2>3
    <3>3. ~(j < i)
      BY <1>1, <3>1, <3>2
    <3> QED BY <3>1, <3>3
  <2>5. r[j] = q[l]
    BY <1>1, <2>3
  <2> QED BY <2>2, <2>4, <2>5
<1>3. ASSUME \A i \in 1 .. Len(r) : ~IsAbout(r[i], "edit", m) PROVE theirs = mine
  <2>1. \A i \in 1 .. Len(q) : ~IsAbout(q[i], "edit", m)
    BY <1>1, <1>3
  <2> QED BY <2>1 DEF EditsAgree
<1> QED BY <1>2, <1>3 DEF EditsAgree

\* an edit that is handled leaves its version.
LEMMA EditHandled ==
    ASSUME NEW m, NEW q, Len(q) \in Nat, NEW r, Shrunk(q, 1, r), IsAbout(q[1], "edit", m),
           NEW mine, NEW theirs, EditsAgree(m, q, mine, theirs)
    PROVE  EditsAgree(m, r, mine, q[1].n)
<1>1. /\ Len(r) \in Nat /\ Len(q) = Len(r) + 1 /\ 1 \in 1 .. Len(q)
      /\ \A j \in 1 .. Len(r) : r[j] = q[j + 1] /\ j + 1 \in 1 .. Len(q)
      /\ \A l \in 1 .. Len(q) : l # 1 => l - 1 \in 1 .. Len(r) /\ (l - 1) + 1 = l
  BY DEF Shrunk
<1>2. ASSUME NEW i \in 1 .. Len(r), IsAbout(r[i], "edit", m)
      PROVE  \E j \in 1 .. Len(r) : i <= j /\ IsAbout(r[j], "edit", m) /\ r[j].n = mine
  <2>1. PICK l \in 1 .. Len(q) : i + 1 <= l /\ IsAbout(q[l], "edit", m) /\ q[l].n = mine
    BY <1>1, <1>2 DEF EditsAgree
  <2>2. l - 1 \in 1 .. Len(r) /\ (l - 1) + 1 = l /\ i <= l - 1
    BY <1>1, <2>1
  <2> QED BY <1>1, <2>1, <2>2
<1>3. ASSUME \A i \in 1 .. Len(r) : ~IsAbout(r[i], "edit", m) PROVE q[1].n = mine
  <2>1. PICK l \in 1 .. Len(q) : IsAbout(q[l], "edit", m) /\ q[l].n = mine
    BY <1>1 DEF EditsAgree
  <2>2. ASSUME l # 1 PROVE FALSE
    <3>1. l - 1 \in 1 .. Len(r) /\ r[l - 1] = q[(l - 1) + 1] /\ (l - 1) + 1 = l
      BY <1>1, <2>2
    <3>2. IsAbout(r[l - 1], "edit", m)
      BY <2>1, <3>1
    <3> QED BY <1>3, <3>1, <3>2
  <2> QED BY <2>1, <2>2
<1> QED BY <1>2, <1>3 DEF EditsAgree

-----------------------------------------------------------------------------
(* What a step may do to message m of u *)

\* The content of a message in a copy - when it arrives, if it is not there.
ContentIn(chat, m) == IF Has(chat, m) THEN chat.content[m] ELSE Original
Content(w, m) == ContentIn(chats[w], m)
Alike(c, d) == c.version = d.version /\ c.deleted_by = d.deleted_by
Concerns(c, m) == IsAbout(c, "edit", m) \/ IsEvent(c, m)
CountOf(bag, e) == IF e \in DOMAIN bag THEN bag[e] ELSE 0
Late(u, m) == CountOf(resends[u], DeleteCall(m))
\* v undeletes m on its way, which the sender of m will not find deleted by v.
Undoes(v, m) == \E i \in 1 .. Len(calls[v]) : IsAbout(calls[v][i], "undelete", m)

\* Nothing about m, other than that the other user deletes it for itself and undeletes it;
QueueLeft(u, m) ==
    \/ calls'[u] = calls[u]
    \/ \E c : Grown(calls[u], c, calls'[u]) /\ ~Concerns(c, m)
    \/ \E k \in 1 .. Len(calls[u]) :
          Shrunk(calls[u], k, calls'[u]) /\ ~Concerns(calls[u][k], m)
Unconcerned(u, m) ==
    LET v == Other(u)
        theirs == Content(v, m).deleted_by
    IN  /\ Alike(Content(u, m), Content(u, m)') /\ QueueLeft(u, m) /\ Late(u, m)' = Late(u, m)
        /\ Content(v, m)'.version = Content(v, m).version
        /\ \/ Content(v, m)'.deleted_by = theirs
           \/ theirs = {} /\ Content(v, m)'.deleted_by = {v}
           \/ theirs = {v} /\ Content(v, m)'.deleted_by = {} /\ Undoes(v, m)'
\* u changes it and tells the other user;
Changes(u, m, kind) ==
    LET mine == Content(u, m).deleted_by IN
    /\ \E c : /\ Grown(calls[u], c, calls'[u]) /\ IsAbout(c, kind, m)
              /\ \/ kind = "edit" /\ c.n = Content(u, m)'.version
                    /\ Content(u, m)'.deleted_by = mine
                 \/ /\ Content(u, m)'.version = Content(u, m).version
                    /\ \/ kind = "delete" /\ mine = {} /\ Content(u, m)'.deleted_by = {u}
                       \/ kind = "undelete" /\ mine = {u} /\ Content(u, m)'.deleted_by = {}
    /\ Late(u, m)' = Late(u, m) /\ Alike(Content(Other(u), m), Content(Other(u), m)')
\* a delete is repeated;
Repeats(u, m) ==
    /\ \E c : Grown(calls[u], c, calls'[u]) /\ IsAbout(c, "delete", m)
    /\ Late(u, m)' \in Nat /\ Late(u, m) = Late(u, m)' + 1
    /\ \A w \in Users : Alike(Content(w, m), Content(w, m)')
\* a call about it is handled, with or without effect,
IsHandled(u, m) ==
    LET c == calls[u][1]
        before == Content(Other(u), m)
        after == Content(Other(u), m)'
    IN  /\ Shrunk(calls[u], 1, calls'[u]) /\ Late(u, m)' = Late(u, m)
        /\ Alike(Content(u, m), Content(u, m)')
        /\ \/ m \in missed' /\ Alike(before, after)
           \/ /\ IsAbout(c, "edit", m)
              /\ after.version = c.n /\ after.deleted_by = before.deleted_by
           \/ /\ after.version = before.version
              /\ \/ /\ IsAbout(c, "delete", m)
                    /\ before.deleted_by = {} /\ after.deleted_by = {u}
                 \/ /\ IsAbout(c, "undelete", m)
                    /\ before.deleted_by = {u} /\ after.deleted_by = {}
\* or rejected.
IsRejected(u, m) ==
    /\ \E k \in 1 .. Len(calls[u]) :
          /\ Shrunk(calls[u], k, calls'[u])
          /\ \/ m \in missed'
             \/ IsAbout(calls[u][k], "delete", m) /\ Late(u, m)' = Late(u, m) + 1
    /\ \A w \in Users : Alike(Content(w, m), Content(w, m)')

UpdateStep(u, m) ==
    /\ missed \subseteq missed'
    /\ Undoes(Other(u), m) => Undoes(Other(u), m)' \/ m \in missed'
    /\ \/ Unconcerned(u, m)
       \/ \E kind \in {"edit", "delete", "undelete"} : Changes(u, m, kind)
       \/ Repeats(u, m) \/ IsHandled(u, m) \/ IsRejected(u, m)

\* Message m of u: only u deletes it for both; what u did to it the other user has done
\* too, or will - or some of it is missed.
DeletedByTheRight(u, m) ==
    /\ Content(u, m).deleted_by \in {{}, {u}}
    /\ Content(Other(u), m).deleted_by \in {{}, {u}, {Other(u)}}
Agreed(u, m) ==
    LET mine == Content(u, m)
        theirs == Content(Other(u), m)
    IN  m \in missed \/
        /\ EditsAgree(m, calls[u], mine.version, theirs.version)
        /\ \/ Undoes(Other(u), m)
           \/ DeletesAgree(u, m, calls[u], Late(u, m), mine.deleted_by, theirs.deleted_by)

\* Nobody else comes to delete the message for both.
LEMMA DeletedByTheRightStays ==
    ASSUME NEW u \in Users, NEW m, DeletedByTheRight(u, m), UpdateStep(u, m)
    PROVE  DeletedByTheRight(u, m)'
<1>1. Other(u) \in Users
  BY OtherIs
<1>2. CASE Unconcerned(u, m)
  BY <1>2 DEF Unconcerned, Alike, DeletedByTheRight
<1>3. ASSUME NEW kind \in {"edit", "delete", "undelete"}, Changes(u, m, kind)
      PROVE  DeletedByTheRight(u, m)'
  BY <1>3 DEF Changes, Alike, DeletedByTheRight
<1>4. CASE Repeats(u, m) \/ IsRejected(u, m)
  BY <1>1, <1>4 DEF Repeats, IsRejected, Alike, DeletedByTheRight
<1>5. CASE IsHandled(u, m)
  BY <1>5 DEF IsHandled, Alike, DeletedByTheRight
<1> QED BY <1>2, <1>3, <1>4, <1>5 DEF UpdateStep

\* The copies go on agreeing on a message, whatever is done to it.
LEMMA AgreedStays ==
    ASSUME Typed, NEW u \in Users, NEW m, DeletedByTheRight(u, m), Agreed(u, m),
           UpdateStep(u, m)
    PROVE  Agreed(u, m)'
<1> DEFINE v == Other(u)
           q == calls[u]
           r == calls'[u]
           mine == Content(u, m)
           theirs == Content(v, m)
           late == Late(u, m)
<1>1. v \in Users /\ v # u /\ Len(q) \in Nat
  <2>1. calls[u] \in Seq(Calls)
    BY DEF Typed, QueuesTyped, CallsTyped
  <2> QED BY <2>1, OtherIs
<1> SUFFICES ASSUME m \notin missed'
             PROVE  /\ EditsAgree(m, r, mine'.version, theirs'.version)
                    /\ \/ Undoes(v, m)'
                       \/ DeletesAgree(u, m, r, late', mine'.deleted_by, theirs'.deleted_by)
  BY DEF Agreed
<1>2. /\ EditsAgree(m, q, mine.version, theirs.version)
      /\ \/ Undoes(v, m)'
         \/ DeletesAgree(u, m, q, late, mine.deleted_by, theirs.deleted_by)
  BY DEF Agreed, UpdateStep
<1> HIDE DEF mine, theirs, late, q, r, v
<1>3. CASE Unconcerned(u, m)
  <2>1. /\ mine'.version = mine.version /\ mine'.deleted_by = mine.deleted_by
        /\ late' = late /\ theirs'.version = theirs.version
        /\ \/ theirs'.deleted_by = theirs.deleted_by
           \/ theirs.deleted_by = {} /\ theirs'.deleted_by = {v}
           \/ Undoes(v, m)'
        /\ QueueLeft(u, m)
    BY <1>3 DEF Unconcerned, Alike, mine, theirs, late, v
  <2>2. EditsAgree(m, r, mine.version, theirs.version)
        /\ \A d : DeletesAgree(u, m, q, late, mine.deleted_by, d) =>
                  DeletesAgree(u, m, r, late, mine.deleted_by, d)
    <3>1. CASE r = q
      BY <1>2, <3>1
    <3>2. ASSUME NEW c, Grown(q, c, r), ~Concerns(c, m)
          PROVE  /\ EditsAgree(m, r, mine.version, theirs.version)
                 /\ \A d : DeletesAgree(u, m, q, late, mine.deleted_by, d) =>
                           DeletesAgree(u, m, r, late, mine.deleted_by, d)
      BY <1>1, <1>2, <3>2, NoEditMade, OtherMade DEF Concerns
    <3>3. ASSUME NEW k \in 1 .. Len(q), Shrunk(q, k, r), ~Concerns(q[k], m)
          PROVE  /\ EditsAgree(m, r, mine.version, theirs.version)
                 /\ \A d : DeletesAgree(u, m, q, late, mine.deleted_by, d) =>
                           DeletesAgree(u, m, r, late, mine.deleted_by, d)
      BY <1>1, <1>2, <3>3, NoEditGone, OtherGone DEF Concerns
    <3> QED BY <2>1, <3>1, <3>2, <3>3 DEF QueueLeft, q, r
  <2>3. CASE theirs'.deleted_by = theirs.deleted_by
    BY <1>2, <2>1, <2>2, <2>3
  <2>4. CASE theirs.deleted_by = {} /\ theirs'.deleted_by = {v}
    <3>1. \/ Undoes(v, m)' \/ DeletesAgree(u, m, r, late, mine.deleted_by, {})
      BY <1>2, <2>2, <2>4
    <3>2. \/ Undoes(v, m)' \/ DeletesAgree(u, m, r, late, mine.deleted_by, {v})
      BY <3>1, DeletedByOther DEF v
    <3> QED BY <2>1, <2>2, <2>4, <3>2
  <2> QED BY <2>1, <2>2, <2>3, <2>4
<1>4. ASSUME NEW kind \in {"edit", "delete", "undelete"}, Changes(u, m, kind)
      PROVE  /\ EditsAgree(m, r, mine'.version, theirs'.version)
             /\ \/ Undoes(v, m)'
                \/ DeletesAgree(u, m, r, late', mine'.deleted_by, theirs'.deleted_by)
  <2>1. PICK c : /\ Grown(q, c, r) /\ IsAbout(c, kind, m)
                 /\ \/ kind = "edit" /\ c.n = mine'.version
                       /\ mine'.deleted_by = mine.deleted_by
                    \/ /\ mine'.version = mine.version
                       /\ \/ kind = "delete" /\ mine.deleted_by = {} /\ mine'.deleted_by = {u}
                          \/ kind = "undelete" /\ mine.deleted_by = {u}
                             /\ mine'.deleted_by = {}
    BY <1>4 DEF Changes, q, r, mine
  <2>2. late' = late /\ theirs'.version = theirs.version
        /\ theirs'.deleted_by = theirs.deleted_by
    BY <1>4 DEF Changes, Alike, late, theirs, v
  <2>3. CASE kind = "edit"
    <3>1. ~IsEvent(c, m) /\ mine'.deleted_by = mine.deleted_by /\ c.n = mine'.version
      BY <2>1, <2>3 DEF IsEvent, IsAbout
    <3> QED BY <1>1, <1>2, <2>1, <2>2, <2>3, <3>1, EditMade, OtherMade
  <2>4. CASE kind = "delete"
    <3>1. /\ ~IsAbout(c, "edit", m) /\ mine.deleted_by = {} /\ mine'.deleted_by = {u}
          /\ mine'.version = mine.version
      BY <2>1, <2>4 DEF IsAbout
    <3> QED BY <1>1, <1>2, <2>1, <2>2, <2>4, <3>1, NoEditMade, DeleteMade
  <2>5. CASE kind = "undelete"
    <3>1. /\ ~IsAbout(c, "edit", m) /\ mine.deleted_by = {u} /\ mine'.deleted_by = {}
          /\ mine'.version = mine.version
      BY <2>1, <2>5 DEF IsAbout
    <3> QED BY <1>1, <1>2, <2>1, <2>2, <2>5, <3>1, NoEditMade, UndeleteMade
  <2> QED BY <2>3, <2>4, <2>5
<1>5. CASE Repeats(u, m)
  <2>1. PICK c : Grown(q, c, r) /\ IsAbout(c, "delete", m)
    BY <1>5 DEF Repeats, q, r
  <2>2. /\ late' \in Nat /\ late = late' + 1
        /\ mine'.version = mine.version /\ mine'.deleted_by = mine.deleted_by
        /\ theirs'.version = theirs.version /\ theirs'.deleted_by = theirs.deleted_by
    BY <1>1, <1>5 DEF Repeats, Alike, mine, theirs, late, v
  <2>3. ~IsAbout(c, "edit", m)
    BY <2>1 DEF IsAbout
  <2>4. EditsAgree(m, r, mine.version, theirs.version)
    BY <1>1, <1>2, <2>1, <2>3, NoEditMade
  <2>5. \/ Undoes(v, m)' \/ DeletesAgree(u, m, r, late', mine.deleted_by, theirs.deleted_by)
    BY <1>1, <1>2, <2>1, <2>2, DeleteRepeated
  <2> QED BY <2>2, <2>4, <2>5
<1>6. CASE IsHandled(u, m)
  <2>1. /\ Shrunk(q, 1, r) /\ late' = late
        /\ mine'.version = mine.version /\ mine'.deleted_by = mine.deleted_by
        /\ \/ /\ IsAbout(q[1], "edit", m)
              /\ theirs'.version = q[1].n /\ theirs'.deleted_by = theirs.deleted_by
           \/ /\ theirs'.version = theirs.version
              /\ \/ IsAbout(q[1], "delete", m) /\ theirs'.deleted_by = {u}
                 \/ /\ IsAbout(q[1], "undelete", m)
                    /\ theirs.deleted_by = {u} /\ theirs'.deleted_by = {}
    BY <1>6 DEF IsHandled, Alike, mine, theirs, late, q, r, v
  <2>2. CASE IsAbout(q[1], "edit", m)
    <3>1. ~IsEvent(q[1], m) /\ theirs'.version = q[1].n
          /\ theirs'.deleted_by = theirs.deleted_by
      BY <2>1, <2>2 DEF IsEvent, IsAbout
    <3> QED BY <1>1, <1>2, <2>1, <2>2, <3>1, EditHandled, OtherGone
  <2>3. CASE ~IsAbout(q[1], "edit", m)
    <3>1. EditsAgree(m, r, mine.version, theirs.version) /\ theirs'.version = theirs.version
      BY <1>1, <1>2, <2>1, <2>3, NoEditGone
    <3>2. \/ Undoes(v, m)'
          \/ DeletesAgree(u, m, r, late, mine.deleted_by, theirs'.deleted_by)
      BY <1>1, <1>2, <2>1, <2>3, DeleteHandled
    <3> QED BY <2>1, <3>1, <3>2
  <2> QED BY <2>2, <2>3
<1>7. CASE IsRejected(u, m)
  <2>1. PICK k \in 1 .. Len(q) :
            Shrunk(q, k, r) /\ IsAbout(q[k], "delete", m) /\ late' = late + 1
    BY <1>7 DEF IsRejected, q, r, late
  <2>2. /\ mine'.version = mine.version /\ mine'.deleted_by = mine.deleted_by
        /\ theirs'.version = theirs.version /\ theirs'.deleted_by = theirs.deleted_by
    BY <1>1, <1>7 DEF IsRejected, Alike, mine, theirs, v
  <2>3. ~IsAbout(q[k], "edit", m)
    BY <2>1 DEF IsAbout
  <2>4. EditsAgree(m, r, mine.version, theirs.version)
    BY <1>1, <1>2, <2>1, <2>3, NoEditGone
  <2>5. \/ Undoes(v, m)' \/ DeletesAgree(u, m, r, late + 1, mine.deleted_by, theirs.deleted_by)
    BY <1>1, <1>2, <2>1, DeleteRejected
  <2> QED BY <2>1, <2>2, <2>4, <2>5
<1> QED BY <1>3, <1>4, <1>5, <1>6, <1>7 DEF UpdateStep

-----------------------------------------------------------------------------
(* What the operations do to queues, bags and contents *)

\* The operations of the model on queues are of this kind:
LEMMA AppendGrows ==
    ASSUME NEW S, NEW q \in Seq(S), NEW c \in S
    PROVE  Grown(q, c, Append(q, c))
BY DEF Grown

\* the oldest call goes,
LEMMA TailShrinks ==
    ASSUME NEW S, NEW q \in Seq(S), q # <<>>
    PROVE  Shrunk(q, 1, Tail(q)) /\ Head(q) = q[1]
BY DEF Shrunk

\* or any other.
LEMMA RemoveAtShrinks ==
    ASSUME NEW S, NEW q \in Seq(S), NEW k \in DOMAIN q
    PROVE  Shrunk(q, k, RemoveAt(q, k))
<1> DEFINE n == Len(q)
           a == SubSeq(q, 1, k - 1)
           b == SubSeq(q, k + 1, n)
<1>1. n \in Nat /\ k \in 1 .. n /\ \A i \in 1 .. n : q[i] \in S
  OBVIOUS
<1>2. a \in Seq(S) /\ Len(a) = k - 1 /\ \A i \in 1 .. k - 1 : a[i] = q[i]
  BY <1>1
<1>3. b \in Seq(S) /\ Len(b) = n - k /\ \A i \in 1 .. n - k : b[i] = q[i + k]
  BY <1>1
<1>4. RemoveAt(q, k) = a \o b
  BY DEF RemoveAt
<1> HIDE DEF a, b
<1>5. /\ Len(a \o b) = n - 1
      /\ \A i \in 1 .. n - 1 : (a \o b)[i] = IF i < k THEN a[i] ELSE b[i - (k - 1)]
  <2>1. Len(a \o b) = Len(a) + Len(b)
        /\ \A i \in 1 .. Len(a) + Len(b) :
              (a \o b)[i] = IF i <= Len(a) THEN a[i] ELSE b[i - Len(a)]
    BY <1>2, <1>3, ConcatProperties
  <2>2. Len(a) + Len(b) = n - 1 /\ \A i \in 1 .. n - 1 : (i <= k - 1) = (i < k)
    BY <1>1, <1>2, <1>3
  <2> QED BY <1>2, <2>1, <2>2
<1>6. \A i \in 1 .. n - 1 : (a \o b)[i] = IF i < k THEN q[i] ELSE q[i + 1]
  <2> SUFFICES ASSUME NEW i \in 1 .. n - 1
               PROVE  (a \o b)[i] = IF i < k THEN q[i] ELSE q[i + 1]
    OBVIOUS
  <2>1. CASE i < k
    BY <1>1, <1>2, <1>5, <2>1
  <2>2. CASE ~(i < k)
    <3>1. i - (k - 1) \in 1 .. n - k /\ (i - (k - 1)) + k = i + 1
      BY <1>1, <2>2
    <3> QED BY <1>3, <1>5, <2>2, <3>1
  <2> QED BY <2>1, <2>2
<1> QED BY <1>1, <1>4, <1>5, <1>6 DEF Shrunk

\* How often an element is in a bag to which one is added,
LEMMA CountAdded ==
    ASSUME NEW bag, IsABag(bag), NEW e
    PROVE  /\ CountOf(AddTo(bag, e), e) = CountOf(bag, e) + 1
           /\ \A x : CountOf(bag, x) \in Nat
                     /\ (x # e => CountOf(AddTo(bag, e), x) = CountOf(bag, x))
<1> DEFINE b == SetToBag({e})
           d == AddTo(bag, e)
<1>1. DOMAIN b = {e} /\ b[e] = 1 /\ DOMAIN d = DOMAIN bag \cup {e}
  BY DEF AddTo, SetToBag, (+)
<1>2. bag \in [DOMAIN bag -> {n \in Nat : n > 0}]
  BY DEF IsABag
<1>3. d = [x \in DOMAIN bag \cup {e} |->
             (IF x \in DOMAIN bag THEN bag[x] ELSE 0) + (IF x = e THEN 1 ELSE 0)]
  BY DEF AddTo, SetToBag, (+)
<1> HIDE DEF d
<1>4. ASSUME NEW x PROVE CountOf(bag, x) \in Nat
  BY <1>2 DEF CountOf
<1>5. CountOf(d, e) = CountOf(bag, e) + 1
  BY <1>1, <1>3 DEF CountOf
<1>6. ASSUME NEW x, x # e PROVE CountOf(d, x) = CountOf(bag, x)
  <2>1. CASE x \in DOMAIN bag
    <3>1. d[x] = bag[x] + 0 /\ bag[x] \in Nat
      BY <1>2, <1>3, <1>6, <2>1
    <3> QED BY <1>1, <2>1, <3>1 DEF CountOf
  <2>2. CASE x \notin DOMAIN bag
    BY <1>1, <1>6, <2>2 DEF CountOf
  <2> QED BY <2>1, <2>2
<1> QED BY <1>4, <1>5, <1>6 DEF d

\* or from which one is taken.
LEMMA CountTaken ==
    ASSUME NEW bag, IsABag(bag), NEW e \in DOMAIN bag
    PROVE  /\ CountOf(TakeFrom(bag, e), e) \in Nat
           /\ CountOf(bag, e) = CountOf(TakeFrom(bag, e), e) + 1
           /\ \A x : x # e => CountOf(TakeFrom(bag, e), x) = CountOf(bag, x)
<1> DEFINE B == [x \in DOMAIN bag |-> IF x \in {e} THEN bag[x] - 1 ELSE bag[x]]
           d == TakeFrom(bag, e)
<1>1. bag \in [DOMAIN bag -> {n \in Nat : n > 0}]
  BY DEF IsABag
<1>2. d = [x \in {y \in DOMAIN B : B[y] > 0} |-> B[x]]
  <2>1. DOMAIN SetToBag({e}) = {e} /\ SetToBag({e})[e] = 1
    BY DEF SetToBag
  <2>2. B = [x \in DOMAIN bag |-> IF x \in DOMAIN SetToBag({e})
                                  THEN bag[x] - SetToBag({e})[x] ELSE bag[x]]
    BY <2>1
  <2> QED BY <2>2 DEF TakeFrom, (-)
<1>3. /\ DOMAIN B = DOMAIN bag /\ B[e] = bag[e] - 1
      /\ \A x \in DOMAIN bag : x # e => B[x] = bag[x]
  OBVIOUS
<1> HIDE DEF B, d
<1>4. DOMAIN d = {y \in DOMAIN bag : B[y] > 0} /\ \A x \in DOMAIN d : d[x] = B[x]
  BY <1>2, <1>3
<1>5. bag[e] \in Nat /\ bag[e] > 0
  BY <1>1
<1>6. CountOf(d, e) \in Nat /\ CountOf(bag, e) = CountOf(d, e) + 1
  BY <1>3, <1>4, <1>5 DEF CountOf
<1>7. ASSUME NEW x, x # e PROVE CountOf(d, x) = CountOf(bag, x)
  <2>1. CASE x \in DOMAIN bag
    <3>1. bag[x] > 0 /\ B[x] = bag[x]
      BY <1>1, <1>3, <1>7, <2>1
    <3> QED BY <1>4, <2>1, <3>1 DEF CountOf
  <2>2. CASE x \notin DOMAIN bag
    BY <1>4, <2>2 DEF CountOf
  <2> QED BY <2>1, <2>2
<1> QED BY <1>6, <1>7 DEF d

\* Sending, receiving, confirming, reading and destroying leave all contents alike.
AllAlike(chat, d) == \A m : Alike(ContentIn(chat, m), ContentIn(d, m))
\* A copy with the same messages has the same contents.
LEMMA SameContents ==
    ASSUME NEW chat, NEW d, d.log = chat.log, d.content = chat.content
    PROVE  AllAlike(chat, d)
BY DEF AllAlike, Alike, ContentIn, Has

\* So has one with one message more that was not there,
LEMMA SentAlike ==
    ASSUME NEW chat, Sound(chat), NEW m \in Messages, ~Has(chat, m)
    PROVE  AllAlike(chat, SentMessage(chat, m))
<1> DEFINE d == SentMessage(chat, m)
<1>1. /\ d.log = Append(chat.log, m) /\ d.content[m] = Original
      /\ \A x \in ToSet(chat.log) : d.content[x] = chat.content[x]
  BY SentMessageIs
<1>2. chat.log \in Seq(Messages)
  BY CopyIs DEF Sound
<1> HIDE DEF d
<1>3. ToSet(d.log) = ToSet(chat.log) \cup {m}
  BY <1>1, <1>2, AppendedIs
<1>4. ASSUME NEW x PROVE ContentIn(d, x) = ContentIn(chat, x)
  BY <1>1, <1>3 DEF ContentIn, Has
<1> QED BY <1>4 DEF AllAlike, Alike, d

\* or with those of a call,
LEMMA ReceivedAlike ==
    ASSUME NEW chat, Sound(chat), NEW args, NEW k, NEW d, Taken(chat, args, k, d)
    PROVE  AllAlike(chat, d)
<1>1. /\ chat.log \in Seq(Messages) /\ d.log \in Seq(Messages) /\ Extends(chat, d)
      /\ \A p \in Len(chat.log) + 1 .. Len(d.log) : CameWith(args, k, d, p)
      /\ \A x \in ToSet(chat.log) : d.content[x] = chat.content[x]
  <2>1. Sound(d)
    BY DEF Taken
  <2>2. chat.log \in Seq(Messages) /\ d.log \in Seq(Messages)
    BY <2>1, CopyIs DEF Sound
  <2> QED BY <2>2 DEF Taken
<1>2. ASSUME NEW m, Has(chat, m) PROVE ContentIn(d, m) = ContentIn(chat, m)
  <2>1. PICK i \in 1 .. Len(chat.log) : chat.log[i] = m
    BY <1>1, <1>2 DEF Has, ToSet
  <2>2. i \in 1 .. Len(d.log) /\ d.log[i] = m
    BY <1>1, <2>1 DEF Extends
  <2>3. Has(d, m)
    BY <1>1, <2>2 DEF Has, ToSet
  <2> QED BY <1>1, <1>2, <2>3 DEF ContentIn, Has
<1>3. ASSUME NEW m, ~Has(chat, m) PROVE ContentIn(d, m) = ContentIn(chat, m)
  <2>1. CASE ~Has(d, m)
    BY <1>3, <2>1 DEF ContentIn
  <2>2. CASE Has(d, m)
    <3>1. PICK p \in 1 .. Len(d.log) : d.log[p] = m
      BY <1>1, <2>2 DEF Has, ToSet
    <3>2. ~(p \in 1 .. Len(chat.log))
      <4> SUFFICES ASSUME p \in 1 .. Len(chat.log) PROVE FALSE
        OBVIOUS
      <4>1. chat.log[p] = m
        BY <1>1, <3>1 DEF Extends
      <4> QED BY <1>1, <1>3, <4>1 DEF Has, ToSet
    <3>3. p \in Len(chat.log) + 1 .. Len(d.log)
      BY <1>1, <3>2
    <3>4. d.content[m] = Original
      BY <1>1, <3>1, <3>3 DEF CameWith
    <3> QED BY <1>3, <2>2, <3>4 DEF ContentIn
  <2> QED BY <2>1, <2>2
<1>4. \A m : ContentIn(d, m) = ContentIn(chat, m)
  BY <1>2, <1>3
<1> QED BY <1>4 DEF AllAlike, Alike

\* The content of one message changes.
LEMMA WithContentAlike ==
    ASSUME NEW chat, Sound(chat), NEW m, Has(chat, m), NEW c \in Contents
    PROVE  /\ ContentIn(WithContent(chat, m, c), m) = c
           /\ \A x : x # m => ContentIn(WithContent(chat, m, c), x) = ContentIn(chat, x)
<1> DEFINE d == WithContent(chat, m, c)
<1>1. chat \in Copies /\ m \in DOMAIN chat.content
  BY DEF Sound, Has
<1>2. d = [chat EXCEPT !.content = [chat.content EXCEPT ![m] = c]]
  BY DEF WithContent
<1>3. d.log = chat.log /\ d.content = [chat.content EXCEPT ![m] = c]
  BY <1>1, <1>2 DEF Copies
<1>4. d.content[m] = c
  BY <1>1, <1>3
<1>5. \A x : x # m => d.content[x] = chat.content[x] \/ x \notin DOMAIN chat.content
  BY <1>3
<1>6. ToSet(chat.log) = DOMAIN chat.content
  BY DEF Sound
<1> HIDE DEF d
<1> QED BY <1>3, <1>4, <1>5, <1>6 DEF ContentIn, Has, d

\* An edit changes the version of its message,
LEMMA EditedAlike ==
    ASSUME NEW chat, Sound(chat), NEW m, Has(chat, m), NEW version \in Nat
    PROVE  /\ ContentIn(Edited(chat, m, version), m).version = version
           /\ ContentIn(Edited(chat, m, version), m).deleted_by = ContentIn(chat, m).deleted_by
           /\ \A x : x # m => ContentIn(Edited(chat, m, version), x) = ContentIn(chat, x)
<1> DEFINE c == [chat.content[m] EXCEPT !.version = version]
<1>1. /\ c \in Contents /\ c.version = version
      /\ c.deleted_by = chat.content[m].deleted_by
  BY ContentOf DEF Contents
<1>2. Edited(chat, m, version) = WithContent(chat, m, c)
  BY DEF Edited, WithContent
<1>3. ContentIn(chat, m) = chat.content[m]
  BY DEF ContentIn
<1> HIDE DEF c
<1> QED BY <1>1, <1>2, <1>3, WithContentAlike

\* a delete
LEMMA DeletedAlike ==
    ASSUME NEW chat, Sound(chat), NEW m, Has(chat, m), NEW user \in Users
    PROVE  /\ ContentIn(Deleted(chat, user, m), m).version = ContentIn(chat, m).version
           /\ ContentIn(Deleted(chat, user, m), m).deleted_by = {user}
           /\ \A x : x # m => ContentIn(Deleted(chat, user, m), x) = ContentIn(chat, x)
<1> DEFINE c == [chat.content[m] EXCEPT !.deleted_by = {user}]
<1>1. /\ c \in Contents /\ c.version = chat.content[m].version /\ c.deleted_by = {user}
  BY ContentOf DEF Contents
<1>2. Deleted(chat, user, m) = WithContent(chat, m, c)
  BY DEF Deleted, WithContent
<1>3. ContentIn(chat, m) = chat.content[m]
  BY DEF ContentIn
<1> HIDE DEF c
<1> QED BY <1>1, <1>2, <1>3, WithContentAlike

\* and an undelete who deleted it;
LEMMA UndeletedAlike ==
    ASSUME NEW chat, Sound(chat), NEW m, Has(chat, m)
    PROVE  /\ ContentIn(Undeleted(chat, m), m).version = ContentIn(chat, m).version
           /\ ContentIn(Undeleted(chat, m), m).deleted_by = {}
           /\ \A x : x # m => ContentIn(Undeleted(chat, m), x) = ContentIn(chat, x)
<1> DEFINE c == [chat.content[m] EXCEPT !.deleted_by = {}]
<1>1. /\ c \in Contents /\ c.version = chat.content[m].version /\ c.deleted_by = {}
  BY ContentOf DEF Contents
<1>2. Undeleted(chat, m) = WithContent(chat, m, c)
  BY DEF Undeleted, WithContent
<1>3. ContentIn(chat, m) = chat.content[m]
  BY DEF ContentIn
<1> HIDE DEF c
<1> QED BY <1>1, <1>2, <1>3, WithContentAlike

\* that the content is destroyed is left out here.
LEMMA DestroyedAlike ==
    ASSUME NEW chat, Sound(chat), NEW m
    PROVE  AllAlike(chat, Destroyed(chat, m))
<1> DEFINE c == [chat.content[m] EXCEPT !.destroyed = TRUE]
<1>1. CASE Has(chat, m) /\ chat.content[m].deleted_by # {}
  <2>1. /\ c \in Contents /\ c.version = chat.content[m].version
        /\ c.deleted_by = chat.content[m].deleted_by
    BY <1>1, ContentOf DEF Contents
  <2>2. Destroyed(chat, m) = WithContent(chat, m, c)
    BY <1>1 DEF Destroyed, WithContent
  <2>3. ContentIn(chat, m) = chat.content[m]
    BY <1>1 DEF ContentIn
  <2> HIDE DEF c
  <2> QED BY <1>1, <2>1, <2>2, <2>3, WithContentAlike DEF AllAlike, Alike
<1>2. CASE ~(Has(chat, m) /\ chat.content[m].deleted_by # {})
  BY <1>2 DEF Destroyed, AllAlike, Alike
<1> QED BY <1>1, <1>2

-----------------------------------------------------------------------------
(* What a step may do to the calls of u *)

\* Nothing; a call is made, for the first time or again; one is rejected and will be
\* repeated, or is gone for good.
Still(u) == calls'[u] = calls[u] /\ resends'[u] = resends[u]
Made(u, c) == Grown(calls[u], c, calls'[u]) /\ resends'[u] = resends[u]
Repeated(u, c) ==
    /\ Grown(calls[u], c, calls'[u])
    /\ c \in DOMAIN resends[u] /\ resends'[u] = TakeFrom(resends[u], c)
Rejected(u, k) ==
    /\ k \in 1 .. Len(calls[u]) /\ Shrunk(calls[u], k, calls'[u])
    /\ calls[u][k].kind \in {"delete", "read"} /\ resends'[u] = AddTo(resends[u], calls[u][k])
Gone(u, k) ==
    k \in 1 .. Len(calls[u]) /\ Shrunk(calls[u], k, calls'[u]) /\ resends'[u] = resends[u]

\* A delete is known by its message.  A read receipt that is gone has been taken note of.
Fit(c) == c.kind = "delete" => c = DeleteCall(c.message)
QueueStep(u) ==
    \/ Still(u)
    \/ \E c : Made(u, c) /\ Fit(c)
    \/ \E c : Repeated(u, c)
    \/ \E k \in 1 .. Len(calls[u]) : Rejected(u, k)
    \/ \E k \in 1 .. Len(calls[u]) :
          /\ Gone(u, k)
          /\ calls[u][k].kind = "read" =>
                chats'[Other(u)] = ReadByThem(chats[Other(u)], calls[u][k].n)

\* All calls are so, and only deletes and read receipts are repeated.
Shaped ==
    \A u \in Users :
        /\ \A i \in 1 .. Len(calls[u]) : Fit(calls[u][i])
        /\ \A c \in DOMAIN resends[u] : Fit(c) /\ c.kind \in {"delete", "read"}

\* What is in a queue to which a call was added,
LEMMA GrownHas ==
    ASSUME NEW q, Len(q) \in Nat, NEW c, NEW r, Grown(q, c, r)
    PROVE  /\ \A i \in 1 .. Len(q) : i \in 1 .. Len(r) /\ r[i] = q[i]
           /\ \E i \in 1 .. Len(r) : r[i] = c
           /\ \A i \in 1 .. Len(r) : r[i] = c \/ \E j \in 1 .. Len(q) : r[i] = q[j]
<1>1. /\ Len(r) = Len(q) + 1 /\ r[Len(q) + 1] = c /\ \A i \in 1 .. Len(q) : r[i] = q[i]
      /\ \A i \in 1 .. Len(q) + 1 : i = Len(q) + 1 \/ i \in 1 .. Len(q)
      /\ \A i \in 1 .. Len(q) : i \in 1 .. Len(q) + 1
      /\ Len(q) + 1 \in 1 .. Len(q) + 1
  BY DEF Grown
<1> QED BY <1>1

\* or from which one was taken.
LEMMA ShrunkHas ==
    ASSUME NEW q, Len(q) \in Nat, NEW k, NEW r, Shrunk(q, k, r)
    PROVE  /\ \A i \in 1 .. Len(r) : \E j \in 1 .. Len(q) : r[i] = q[j]
           /\ \A j \in 1 .. Len(q) : j = k \/ \E i \in 1 .. Len(r) : r[i] = q[j]
<1>1. /\ \A i \in 1 .. Len(r) : Was(k, i) \in 1 .. Len(q) /\ r[i] = q[Was(k, i)]
      /\ \A i \in 1 .. Len(q) : i # k => \E j \in 1 .. Len(r) : Was(k, j) = i
  BY WasIs
<1> QED BY <1>1

\* The queues in a state that is typed.
LEMMA QueuesAre ==
    ASSUME Typed, NEW u \in Users
    PROVE  /\ calls[u] \in Seq(Calls) /\ Len(calls[u]) \in Nat
           /\ DOMAIN calls[u] = 1 .. Len(calls[u]) /\ IsABag(resends[u])
           /\ DOMAIN calls = Users /\ DOMAIN resends = Users /\ DOMAIN chats = Users
           /\ \A i \in 1 .. Len(calls[u]) : CallOf(u, calls[u][i])
           /\ \A c \in DOMAIN resends[u] : CallOf(u, c)
<1>1. /\ calls[u] \in Seq(Calls) /\ IsABag(resends[u])
      /\ \A c \in ToSet(calls[u]) : CallOf(u, c)
      /\ \A c \in DOMAIN resends[u] : CallOf(u, c)
      /\ DOMAIN calls = Users /\ DOMAIN resends = Users /\ DOMAIN chats = Users
  BY DEF Typed, QueuesTyped, CallsTyped, ResendsTyped, CopiesTyped
<1>2. DOMAIN calls[u] = 1 .. Len(calls[u]) /\ Len(calls[u]) \in Nat
  <2> HIDE DEF Calls
  <2> QED BY <1>1
<1> QED BY <1>1, <1>2 DEF ToSet

\* All calls stay so.
LEMMA ShapedStays ==
    ASSUME Typed, Shaped, \A u \in Users : QueueStep(u)
    PROVE  Shaped'
<1> SUFFICES ASSUME NEW u \in Users
             PROVE  /\ \A i \in 1 .. Len(calls'[u]) : Fit(calls'[u][i])
                    /\ \A c \in DOMAIN resends'[u] : Fit(c) /\ c.kind \in {"delete", "read"}
  BY DEF Shaped, Fit
<1> DEFINE q == calls[u]
           r == calls'[u]
<1>1. /\ Len(q) \in Nat /\ IsABag(resends[u])
      /\ \A i \in 1 .. Len(q) : Fit(q[i])
      /\ \A c \in DOMAIN resends[u] : Fit(c) /\ c.kind \in {"delete", "read"}
  BY QueuesAre DEF Shaped
<1>2. \A c : Grown(q, c, r) /\ Fit(c) => \A i \in 1 .. Len(r) : Fit(r[i])
  <2> SUFFICES ASSUME NEW c, Grown(q, c, r), Fit(c), NEW i \in 1 .. Len(r) PROVE Fit(r[i])
    OBVIOUS
  <2>1. r[i] = c \/ \E j \in 1 .. Len(q) : r[i] = q[j]
    BY <1>1, GrownHas
  <2> QED BY <1>1, <2>1
<1>3. \A k : Shrunk(q, k, r) => \A i \in 1 .. Len(r) : Fit(r[i])
  <2> SUFFICES ASSUME NEW k, Shrunk(q, k, r), NEW i \in 1 .. Len(r) PROVE Fit(r[i])
    OBVIOUS
  <2>1. \E j \in 1 .. Len(q) : r[i] = q[j]
    BY <1>1, ShrunkHas
  <2> QED BY <1>1, <2>1
<1>4. \A c : DOMAIN TakeFrom(resends[u], c) \subseteq DOMAIN resends[u]
             /\ DOMAIN AddTo(resends[u], c) = DOMAIN resends[u] \cup {c}
  BY <1>1, AddToIs, TakeFromIs
<1> HIDE DEF q, r
<1>5. CASE Still(u)
  BY <1>1, <1>5 DEF Still, q, r
<1>6. CASE \E c : Made(u, c) /\ Fit(c)
  BY <1>1, <1>2, <1>6 DEF Made, q, r
<1>7. CASE \E c : Repeated(u, c)
  BY <1>1, <1>2, <1>4, <1>7 DEF Repeated, q, r
<1>8. CASE \E k \in 1 .. Len(calls[u]) : Rejected(u, k)
  <2>1. PICK k \in 1 .. Len(q) : Rejected(u, k)
    BY <1>8 DEF q
  <2>2. /\ Shrunk(q, k, r) /\ resends'[u] = AddTo(resends[u], q[k])
        /\ q[k].kind \in {"delete", "read"} /\ Fit(q[k])
    BY <1>1, <2>1 DEF Rejected, q, r
  <2>3. DOMAIN resends'[u] = DOMAIN resends[u] \cup {q[k]}
    BY <1>4, <2>2
  <2>4. \A i \in 1 .. Len(r) : Fit(r[i])
    BY <1>3, <2>2
  <2> QED BY <1>1, <2>2, <2>3, <2>4 DEF r
<1>9. CASE \E k \in 1 .. Len(calls[u]) : Gone(u, k)
  BY <1>1, <1>3, <1>9 DEF Gone, q, r
<1> QED BY <1>5, <1>6, <1>7, <1>8, <1>9 DEF QueueStep

\* Nothing that changes message m: its contents stay alike, and what calls about it come and
\* go have been made before, or are missed.
Aside(w, m) ==
    \/ Still(w)
    \/ \E c : Made(w, c) /\ ~Concerns(c, m)
    \/ \E c : Repeated(w, c)
    \/ \E k \in 1 .. Len(calls[w]) : Rejected(w, k)
    \/ \E k \in 1 .. Len(calls[w]) : Gone(w, k) /\ (Concerns(calls[w][k], m) => m \in missed')

\* The fields of a delete.
LEMMA DeleteCallIs ==
    ASSUME NEW m
    PROVE  DeleteCall(m) = [kind |-> "delete", args |-> <<>>, attempt |-> 0, message |-> m, n |-> 0]
BY DEF DeleteCall, Call

\* An undelete is not lost unnoticed.
LEMMA UndoStays ==
    ASSUME Typed, Shaped, NEW w \in Users, NEW m, Aside(w, m), Undoes(w, m)
    PROVE  Undoes(w, m)' \/ m \in missed'
<1> DEFINE q == calls[w]
           r == calls'[w]
<1>1. Len(q) \in Nat /\ \A c \in DOMAIN resends[w] : c.kind \in {"delete", "read"}
  BY QueuesAre DEF Shaped
<1>2. PICK i \in 1 .. Len(q) : IsAbout(q[i], "undelete", m)
  BY DEF Undoes
<1>3. CASE Still(w)
  BY <1>3 DEF Still, Undoes
<1>4. \A c : Grown(q, c, r) => Undoes(w, m)'
  <2> SUFFICES ASSUME NEW c, Grown(q, c, r) PROVE Undoes(w, m)'
    OBVIOUS
  <2>1. i \in 1 .. Len(r) /\ r[i] = q[i]
    BY <1>1, <1>2, GrownHas
  <2> QED BY <1>2, <2>1 DEF Undoes
<1>5. \A k \in 1 .. Len(q) : Shrunk(q, k, r) => Undoes(w, m)' \/ IsAbout(q[k], "undelete", m)
  <2> SUFFICES ASSUME NEW k \in 1 .. Len(q), Shrunk(q, k, r), ~IsAbout(q[k], "undelete", m)
               PROVE  Undoes(w, m)'
    OBVIOUS
  <2>1. i = k \/ \E j \in 1 .. Len(r) : r[j] = q[i]
    BY <1>1, <1>2, ShrunkHas
  <2> QED BY <1>2, <2>1 DEF Undoes
<1>6. CASE \E c : Made(w, c) \/ Repeated(w, c)
  BY <1>4, <1>6 DEF Made, Repeated
<1>7. CASE \E k \in 1 .. Len(q) : Rejected(w, k)
  BY <1>5, <1>7 DEF Rejected, IsAbout
<1>8. CASE \E k \in 1 .. Len(q) : Gone(w, k) /\ (Concerns(q[k], m) => m \in missed')
  BY <1>5, <1>8 DEF Gone, Concerns, IsEvent
<1> QED BY <1>3, <1>6, <1>7, <1>8 DEF Aside

\* Such a step is one of those that may be taken, seen from the message.
LEMMA AsideUpdates ==
    ASSUME Typed, Shaped, NEW u \in Users, NEW m, missed \subseteq missed',
           \A w \in Users : Alike(Content(w, m), Content(w, m)') /\ Aside(w, m)
    PROVE  UpdateStep(u, m)
<1> DEFINE q == calls[u]
           r == calls'[u]
<1>1. /\ Len(q) \in Nat /\ IsABag(resends[u]) /\ Other(u) \in Users
      /\ \A i \in 1 .. Len(q) : Fit(q[i])
      /\ \A c \in DOMAIN resends[u] : Fit(c) /\ c.kind \in {"delete", "read"}
  BY QueuesAre, OtherIs DEF Shaped
<1>2. Undoes(Other(u), m) => Undoes(Other(u), m)' \/ m \in missed'
  BY <1>1, UndoStays
<1> SUFFICES Unconcerned(u, m) \/ Repeats(u, m) \/ IsRejected(u, m)
  BY <1>2 DEF UpdateStep
<1>3. QueueLeft(u, m) /\ Late(u, m)' = Late(u, m) => Unconcerned(u, m)
  BY <1>1 DEF Unconcerned, Alike
<1>4. CASE Still(u)
  BY <1>3, <1>4 DEF Still, QueueLeft, Late
<1>5. CASE \E c : Made(u, c) /\ ~Concerns(c, m)
  BY <1>3, <1>5 DEF Made, QueueLeft, Late
<1>6. ASSUME NEW c, Repeated(u, c) PROVE Unconcerned(u, m) \/ Repeats(u, m)
  <2>1. /\ Grown(q, c, r) /\ c \in DOMAIN resends[u] /\ resends'[u] = TakeFrom(resends[u], c)
        /\ Fit(c) /\ c.kind \in {"delete", "read"}
    BY <1>1, <1>6 DEF Repeated
  <2>2. /\ CountOf(resends'[u], c) \in Nat
        /\ CountOf(resends[u], c) = CountOf(resends'[u], c) + 1
        /\ \A x : x # c => CountOf(resends'[u], x) = CountOf(resends[u], x)
    BY <1>1, <2>1, CountTaken
  <2>3. CASE IsAbout(c, "delete", m)
    <3>1. c = DeleteCall(m)
      BY <2>1, <2>3 DEF Fit, IsAbout
    <3> QED BY <2>1, <2>2, <2>3, <3>1 DEF Repeats, Late
  <2>4. CASE ~IsAbout(c, "delete", m)
    <3>1. ~Concerns(c, m)
      BY <2>1, <2>4 DEF Concerns, IsEvent, IsAbout
    <3>2. c # DeleteCall(m)
      BY <2>4, DeleteCallIs DEF IsAbout
    <3> QED BY <1>3, <2>1, <2>2, <3>1, <3>2 DEF QueueLeft, Late
  <2> QED BY <2>3, <2>4
<1>7. ASSUME NEW k \in 1 .. Len(q), Rejected(u, k) PROVE Unconcerned(u, m) \/ IsRejected(u, m)
  <2> DEFINE c == q[k]
  <2>1. /\ Shrunk(q, k, r) /\ resends'[u] = AddTo(resends[u], c)
        /\ Fit(c) /\ c.kind \in {"delete", "read"}
    BY <1>1, <1>7 DEF Rejected
  <2>2. /\ CountOf(resends'[u], c) = CountOf(resends[u], c) + 1
        /\ \A x : x # c => CountOf(resends'[u], x) = CountOf(resends[u], x)
    BY <1>1, <2>1, CountAdded
  <2>3. CASE IsAbout(c, "delete", m)
    <3>1. c = DeleteCall(m)
      BY <2>1, <2>3 DEF Fit, IsAbout
    <3> QED BY <2>1, <2>2, <2>3, <3>1 DEF IsRejected, Late
  <2>4. CASE ~IsAbout(c, "delete", m)
    <3>1. ~Concerns(c, m)
      BY <2>1, <2>4 DEF Concerns, IsEvent, IsAbout
    <3>2. c # DeleteCall(m)
      BY <2>4, DeleteCallIs DEF IsAbout
    <3> QED BY <1>3, <2>1, <2>2, <3>1, <3>2 DEF QueueLeft, Late
  <2> QED BY <2>3, <2>4
<1>8. ASSUME NEW k \in 1 .. Len(q), Gone(u, k), Concerns(q[k], m) => m \in missed'
      PROVE  Unconcerned(u, m) \/ IsRejected(u, m)
  <2>1. CASE Concerns(q[k], m)
    BY <1>8, <2>1 DEF IsRejected, Gone
  <2>2. CASE ~Concerns(q[k], m)
    BY <1>3, <1>8, <2>2 DEF Gone, QueueLeft, Late
  <2> QED BY <2>1, <2>2
<1> QED BY <1>4, <1>5, <1>6, <1>7, <1>8 DEF Aside

-----------------------------------------------------------------------------
(* What a step may do to what v has read, and what it tells *)

\* Nothing is read; a message is sent, which reads all that came before; or v reads, and
\* tells how far in the other user's indexes: t.
ReadsTo(v, t) ==
    /\ chats'[v].log = chats[v].log
    /\ \A e \in chats[v].unread :
          IF e.ours <= chats'[v].read_by_me THEN e.theirs <= t
          ELSE e.theirs > t => e \in chats'[v].unread
    /\ \/ t = 0
       \/ /\ t \in Receipts(v)'
          /\ \E e \in chats[v].unread : e.ours <= chats'[v].read_by_me /\ e.theirs = t
ReadsStep(v) ==
    /\ chats'[v].read_by_them >= chats[v].read_by_them
    /\ \/ chats'[v].read_by_me = chats[v].read_by_me /\ chats[v].unread \subseteq chats'[v].unread
       \/ /\ chats'[v].log = Append(chats[v].log, <<v, sent[v] + 1>>)
          /\ chats'[v].unread = chats[v].unread
          /\ chats'[v].read_by_me \in Nat /\ chats'[v].read_by_me >= chats[v].read_by_me
       \/ chats'[v].read_by_me >= chats[v].read_by_me /\ \E t \in Nat : ReadsTo(v, t)

\* All that a step does, for this.
Tells ==
    \A u \in Users :
        /\ QueueStep(u) /\ ReadsStep(u)
        /\ \A m \in Messages : m[1] = u => UpdateStep(u, m)

\* A step that is of this kind for every message.
LEMMA AsideTells ==
    ASSUME Typed, Shaped, missed \subseteq missed',
           \A w \in Users : /\ AllAlike(chats[w], chats'[w]) /\ ReadsStep(w) /\ QueueStep(w)
                            /\ \A m : Aside(w, m)
    PROVE  Tells
<1> SUFFICES ASSUME NEW u \in Users, NEW m \in Messages, m[1] = u PROVE UpdateStep(u, m)
  BY DEF Tells
<1>1. \A w \in Users : Alike(Content(w, m), Content(w, m)') /\ Aside(w, m)
  BY DEF AllAlike, Content
<1> QED BY <1>1, AsideUpdates

\* Nothing is read.
LEMMA SameReads ==
    ASSUME Typed, NEW w \in Users, chats'[w].read_by_me = chats[w].read_by_me,
           chats[w].unread \subseteq chats'[w].unread,
           chats'[w].read_by_them = chats[w].read_by_them
    PROVE  ReadsStep(w)
<1>1. chats[w].read_by_them \in Nat
  BY CopyIs DEF Typed, CopiesTyped, Sound
<1> QED BY <1>1 DEF ReadsStep

\* The copies are left alone, or one changes.
LEMMA CopiesAlike ==
    ASSUME Typed, UNCHANGED chats
    PROVE  \A w \in Users : AllAlike(chats[w], chats'[w]) /\ ReadsStep(w)
BY SameReads DEF AllAlike, Alike

LEMMA OneCopyAlike ==
    ASSUME Typed, NEW u \in Users, NEW d, chats' = [chats EXCEPT ![u] = d],
           AllAlike(chats[u], d), ReadsStep(u)
    PROVE  \A w \in Users : AllAlike(chats[w], chats'[w]) /\ ReadsStep(w)
<1>1. chats'[u] = d /\ \A w \in Users : w # u => chats'[w] = chats[w]
  BY DEF Typed, CopiesTyped
<1> QED BY <1>1, SameReads DEF AllAlike, Alike

\* The calls are left alone, or those of one user change.
LEMMA StillAside ==
    ASSUME NEW w \in Users, Still(w)
    PROVE  QueueStep(w) /\ \A m : Aside(w, m)
BY DEF QueueStep, Aside

LEMMA OneQueue ==
    ASSUME NEW u \in Users, \A w \in Users : w # u => Still(w), QueueStep(u), \A m : Aside(u, m)
    PROVE  \A w \in Users : QueueStep(w) /\ \A m : Aside(w, m)
BY StillAside

\* A call is made.
LEMMA CallingMakes ==
    ASSUME Typed, NEW u \in Users, NEW c \in Calls, Calling(u, c), UNCHANGED resends
    PROVE  Made(u, c) /\ \A w \in Users : w # u => Still(w)
<1>1. calls'[u] = Append(calls[u], c) /\ \A w \in Users : w # u => calls'[w] = calls[w]
  BY QueuesAre DEF Calling
<1>2. Grown(calls[u], c, calls'[u])
  <2> HIDE DEF Calls
  <2> QED BY <1>1, QueuesAre, AppendGrows
<1> QED BY <1>1, <1>2 DEF Made, Still

\* A call that is about no message is made.
LEMMA PlainCall ==
    ASSUME Typed, NEW u \in Users, NEW c \in Calls, c.kind \in {"send", "read"},
           Calling(u, c), UNCHANGED resends
    PROVE  \A w \in Users : QueueStep(w) /\ \A m : Aside(w, m)
<1>1. Made(u, c) /\ \A w \in Users : w # u => Still(w)
  BY CallingMakes
<1>2. Fit(c) /\ \A m : ~Concerns(c, m)
  BY DEF Fit, Concerns, IsEvent, IsAbout
<1>3. QueueStep(u) /\ \A m : Aside(u, m)
  BY <1>1, <1>2 DEF QueueStep, Aside
<1> QED BY <1>1, <1>3, OneQueue

-----------------------------------------------------------------------------
(* The actions, once more *)

\* No call is made or handled.
LEMMA NothingTold ==
    ASSUME Typed, Shaped, UNCHANGED <<calls, resends, missed>>,
           \A w \in Users : AllAlike(chats[w], chats'[w]) /\ ReadsStep(w)
    PROVE  Tells
<1>1. \A w \in Users : QueueStep(w) /\ \A m : Aside(w, m)
  BY StillAside DEF Still
<1> QED BY <1>1, AsideTells

\* An answer arrives: nothing but what is unconfirmed changes.
LEMMA AnswerArrivesTells ==
    ASSUME Typed, Shaped, NEW u \in Users, NEW a, AnswerArrives(u, a)
    PROVE  Tells
<1>1. UNCHANGED <<calls, resends, missed>> /\ Sound(chats[u]) /\ DOMAIN chats = Users
  BY DEF AnswerArrives, Typed, CopiesTyped
<1>2. CASE UNCHANGED chats
  BY <1>1, <1>2, CopiesAlike, NothingTold
<1>3. CASE chats' = [chats EXCEPT ![u] = Confirmed(@, a.args)]
  <2> DEFINE d == Confirmed(chats[u], a.args)
  <2>1. /\ d.log = chats[u].log /\ d.content = chats[u].content /\ d.unread = chats[u].unread
        /\ d.read_by_me = chats[u].read_by_me /\ d.read_by_them = chats[u].read_by_them
    BY <1>1, ConfirmedIs
  <2>2. chats' = [chats EXCEPT ![u] = d] /\ chats'[u] = d
    BY <1>1, <1>3
  <2> HIDE DEF d
  <2>3. AllAlike(chats[u], d) /\ ReadsStep(u)
    BY <2>1, <2>2, SameContents, SameReads
  <2> QED BY <1>1, <2>2, <2>3, OneCopyAlike, NothingTold
<1> QED BY <1>2, <1>3 DEF AnswerArrives

\* The content of a deleted message is destroyed.
LEMMA HardDeleteTells ==
    ASSUME Typed, Shaped, NEW u \in Users, NEW m, HardDelete(u, m)
    PROVE  Tells
<1> DEFINE d == Destroyed(chats[u], m)
<1>1. /\ UNCHANGED <<calls, resends, missed>> /\ Sound(chats[u]) /\ DOMAIN chats = Users
      /\ chats' = [chats EXCEPT ![u] = d] /\ chats'[u] = d
  BY DEF HardDelete, history, Typed, CopiesTyped
<1>2. Touched(chats[u], d) /\ AllAlike(chats[u], d)
  BY <1>1, DestroyedIs, DestroyedAlike
<1> HIDE DEF d
<1>3. ReadsStep(u)
  BY <1>1, <1>2, SameReads DEF Touched
<1> QED BY <1>1, <1>2, <1>3, OneCopyAlike, NothingTold

\* Messages are received: the copy is read up to the last.
LEMMA ReceivedTells ==
    ASSUME Typed, NEW v \in Users, NEW args \in Seq(Args),
           chats' = [chats EXCEPT ![v] = ReceivedAll(@, args)]
    PROVE  \A w \in Users : AllAlike(chats[w], chats'[w]) /\ ReadsStep(w)
<1> DEFINE d == ReceivedAll(chats[v], args)
<1>1. Sound(chats[v]) /\ chats' = [chats EXCEPT ![v] = d] /\ chats'[v] = d
  BY DEF Typed, CopiesTyped
<1>2. Taken(chats[v], args, Len(args), d)
  BY <1>1, ReceivedAllIs
<1> HIDE DEF d
<1>3. AllAlike(chats[v], d)
  BY <1>1, <1>2, ReceivedAlike
<1>4. ReadsStep(v)
  <2>1. /\ chats[v].read_by_them \in Nat /\ chats[v].read_by_them <= Len(chats[v].log)
        /\ Len(chats[v].log) \in Nat /\ Len(d.log) \in Nat /\ Len(chats[v].log) <= Len(d.log)
        /\ d.read_by_me = chats[v].read_by_me /\ chats[v].unread \subseteq d.unread
        /\ d.read_by_them = chats[v].read_by_them \/ d.read_by_them = Len(d.log)
    BY <1>1, <1>2, CopyIs DEF Taken, Sound, Extends
  <2> QED BY <1>1, <2>1 DEF ReadsStep
<1> QED BY <1>1, <1>3, <1>4, OneCopyAlike

\* A caller is verified, and its messages are received, or not.
LEMMA VerifiedTells ==
    ASSUME Typed, Shaped, NEW v \in Users, NEW call \in BagToSet(verifying[v]), Verified(v, call)
    PROVE  Tells
<1>1. UNCHANGED <<calls, resends, missed>> /\ call.args \in Seq(Args)
  BY OtherIs DEF Verified, BagToSet, Typed, QueuesTyped, VerifyingTyped, CallOf, Mine
<1>2. CASE UNCHANGED chats
  BY <1>1, <1>2, CopiesAlike, NothingTold
<1>3. CASE chats' = [chats EXCEPT ![v] = ReceivedAll(@, call.args)]
  BY <1>1, <1>3, ReceivedTells, NothingTold
<1> QED BY <1>2, <1>3 DEF Verified

\* Messages are sent.
LEMMA NewMessageIsNew ==
    ASSUME Typed, NEW u \in Users
    PROVE  <<u, sent[u] + 1>> \in Messages /\ ~Has(chats[u], <<u, sent[u] + 1>>)
<1> DEFINE m == <<u, sent[u] + 1>>
<1>1. /\ sent[u] \in Nat /\ DOMAIN chats[u].log = 1 .. Len(chats[u].log)
      /\ \A i \in 1 .. Len(chats[u].log) :
            chats[u].log[i][1] = u => chats[u].log[i][2] <= sent[u]
  BY CopyIs DEF Typed, CopiesTyped, Sound
<1>2. m \in Messages /\ m[1] = u /\ ~(m[2] <= sent[u])
  BY <1>1 DEF Messages
<1> HIDE DEF m
<1>3. \A i \in 1 .. Len(chats[u].log) : chats[u].log[i] # m
  BY <1>1, <1>2
<1>4. ~Has(chats[u], m)
  BY <1>1, <1>3 DEF Has, ToSet
<1> QED BY <1>2, <1>4 DEF m

\* A message is sent.
LEMMA SendImplTells ==
    ASSUME Typed, Shaped, NEW u \in Users, SendImpl(u), UNCHANGED <<resends, missed>>,
           Mine(u, chats'[u].unconfirmed)
    PROVE  Tells
<1> DEFINE m == <<u, sent[u] + 1>>
           d == SentMessage(chats[u], m)
<1>1. /\ chats' = [chats EXCEPT ![u] = d] /\ Calling(u, SendCall(d.unconfirmed, 0))
      /\ Sound(chats[u]) /\ chats'[u] = d
  BY DEF SendImpl, SentMessage, PendingMessages, Typed, CopiesTyped
<1>2. m \in Messages /\ ~Has(chats[u], m)
  BY NewMessageIsNew
<1> HIDE DEF m
<1>3. /\ Sound(d) /\ d.log = Append(chats[u].log, m) /\ d.unread = chats[u].unread
      /\ d.read_by_me >= chats[u].read_by_me /\ d.read_by_them = chats[u].read_by_them
      /\ AllAlike(chats[u], d)
  BY <1>1, <1>2, SentMessageIs, SentAlike
<1> HIDE DEF d
<1>4. ReadsStep(u)
  <2>1. d.read_by_me \in Nat /\ d.read_by_them \in Nat
    BY <1>3, CopyIs DEF Sound
  <2> QED BY <1>1, <1>3, <2>1 DEF ReadsStep, m
<1>5. \A w \in Users : QueueStep(w) /\ \A x : Aside(w, x)
  <2> DEFINE c == SendCall(d.unconfirmed, 0)
  <2>1. c \in Calls /\ c.kind = "send"
    BY <1>1, SendCallIs DEF CallOf
  <2>2. Calling(u, c)
    BY <1>1
  <2> HIDE DEF c
  <2> QED BY <2>1, <2>2, PlainCall
<1> QED BY <1>1, <1>3, <1>4, <1>5, OneCopyAlike, AsideTells

\* What is unconfirmed is sent again.
LEMMA RetryTells ==
    ASSUME Typed, Shaped, NEW u \in Users, NEW n \in BagToSet(retries[u]), Retry(u, n)
    PROVE  Tells
<1>1. /\ UNCHANGED <<chats, resends, missed>> /\ n \in Nat
      /\ Mine(u, chats[u].unconfirmed)
  BY DEF Retry, history, BagToSet, Typed, QueuesTyped, RetriesTyped, CopiesTyped
<1>2. CASE UNCHANGED calls
  BY <1>1, <1>2, CopiesAlike, NothingTold
<1>3. CASE Calling(u, SendCall(chats[u].unconfirmed, n))
  <2> DEFINE c == SendCall(chats[u].unconfirmed, n)
  <2>1. c \in Calls /\ c.kind = "send" /\ Calling(u, c)
    BY <1>1, <1>3, SendCallIs DEF CallOf
  <2> HIDE DEF c
  <2>2. \A w \in Users : QueueStep(w) /\ \A x : Aside(w, x)
    BY <1>1, <2>1, PlainCall
  <2> QED BY <1>1, <2>2, CopiesAlike, AsideTells
<1> QED BY <1>2, <1>3 DEF Retry

\* A user reads, and tells.
LEMMA MarkReadTells ==
    ASSUME Typed, Shaped, NEW u \in Users, NEW index \in 1 .. Len(chats[u].log),
           MarkRead(u, index)
    PROVE  Tells
<1> DEFINE theirs == MaxReadUpToOfTheirs(chats[u], index)
           chat == ReadByMe(chats[u], index)
<1>1. /\ Sound(chats[u]) /\ Len(chats[u].log) \in Nat /\ chats[u].read_by_me \in Nat
      /\ chats[u].read_by_them \in Nat
      /\ index \in Nat /\ index <= Len(chats[u].log) /\ chats[u].read_by_me < index
      /\ UNCHANGED <<resends, missed>> /\ DOMAIN chats = Users
  BY CopyIs DEF Typed, CopiesTyped, MarkRead, Sound
<1>2. /\ Sound(chat) /\ chat.log = chats[u].log /\ chat.content = chats[u].content
      /\ chat.unread = chats[u].unread /\ chat.read_by_them = chats[u].read_by_them
      /\ chat.read_by_me = index
  <2>1. ReadUpTo(chats[u].read_by_me, index, Len(chats[u].log)) = index
    <3> DEFINE current == chats[u].read_by_me
               latest == Len(chats[u].log)
    <3>1. current \in Nat /\ latest \in Nat /\ current < index /\ index <= latest /\ index \in Nat
      BY <1>1
    <3> HIDE DEF current, latest
    <3>2. ReadUpTo(current, index, latest) = index
      BY <3>1, ReadUpToIs
    <3> QED BY <3>2 DEF current, latest
  <2> QED BY <1>1, <2>1, ReadByMeIs DEF SameMessages
<1>3. /\ theirs \in Nat
      /\ theirs = 0 \/ \E e \in chats[u].unread : e.ours <= index /\ theirs = e.theirs
      /\ \A e \in chats[u].unread : e.ours <= index => e.theirs <= theirs
  BY <1>1, MaxReadUpToOfTheirsIs
<1>4. CASE theirs > 0
  <2> DEFINE d == RemoveUpTo(chat, theirs)
             c == ReadCall(theirs)
  <2>1. chats' = [chats EXCEPT ![u] = d] /\ chats'[u] = d /\ Calling(u, c)
    BY <1>1, <1>4 DEF MarkRead
  <2> HIDE DEF theirs, chat
  <2>2. CallOf(u, c) /\ c.kind = "read" /\ c.n = theirs
    <3>1. c = [kind |-> "read", args |-> <<>>, attempt |-> 0, message |-> <<>>, n |-> theirs]
      BY DEF ReadCall, Call
    <3>2. "read" \in Kinds /\ <<>> \in Messages \cup {<<>>}
      BY DEF Kinds
    <3> HIDE DEF c
    <3> QED BY <1>3, <3>1, <3>2, SmallCallIs
  <2>3. /\ d.log = chat.log /\ d.content = chat.content /\ d.read_by_me = index
        /\ d.read_by_them = chat.read_by_them
        /\ d.unread = {e \in chat.unread : e.theirs > theirs}
    BY <1>2, RemoveUpToIs DEF SameMessages
  <2> HIDE DEF c, d
  <2>4. theirs \in Receipts(u)'
    <3>1. c \in ToSet(calls'[u])
      BY <2>1, <2>2, CallingIs DEF Typed, QueuesTyped
    <3> QED BY <2>2, <3>1 DEF Receipts
  <2>5. ReadsTo(u, theirs)
    BY <1>2, <1>3, <1>4, <2>1, <2>3, <2>4 DEF ReadsTo, theirs
  <2>6. ReadsStep(u) /\ AllAlike(chats[u], d)
    BY <1>1, <1>2, <1>3, <2>1, <2>3, <2>5, SameContents DEF ReadsStep
  <2>7. \A w \in Users : QueueStep(w) /\ \A x : Aside(w, x)
    BY <1>1, <2>1, <2>2, PlainCall DEF CallOf
  <2> QED BY <1>1, <2>1, <2>6, <2>7, OneCopyAlike, AsideTells
<1>5. CASE ~(theirs > 0)
  <2>1. chats' = [chats EXCEPT ![u] = chat] /\ chats'[u] = chat /\ UNCHANGED calls
    BY <1>1, <1>5 DEF MarkRead
  <2>2. theirs = 0
    BY <1>3, <1>5
  <2>3. ReadsTo(u, theirs)
    BY <1>2, <1>3, <2>1, <2>2 DEF ReadsTo
  <2> HIDE DEF theirs, chat
  <2>4. ReadsStep(u) /\ AllAlike(chats[u], chat)
    BY <1>1, <1>2, <1>3, <2>1, <2>3, SameContents DEF ReadsStep
  <2> QED BY <1>1, <2>1, <2>4, OneCopyAlike, NothingTold
<1> QED BY <1>4, <1>5

\* A rejected call is made again.
LEMMA ResendTells ==
    ASSUME Typed, Shaped, NEW u \in Users, NEW call \in BagToSet(resends[u]), Resend(u, call)
    PROVE  Tells
<1>1. /\ call \in DOMAIN resends[u] /\ UNCHANGED <<chats, missed>>
      /\ resends' = [resends EXCEPT ![u] = TakeFrom(@, call)] /\ Calling(u, call)
  BY DEF Resend, history, BagToSet
<1>2. /\ DOMAIN resends = Users /\ DOMAIN calls = Users /\ call \in Calls
      /\ calls[u] \in Seq(Calls)
  BY <1>1, QueuesAre DEF CallOf
<1>3. calls'[u] = Append(calls[u], call) /\ \A w \in Users : w # u => calls'[w] = calls[w]
  BY <1>1, <1>2 DEF Calling
<1>4. Grown(calls[u], call, calls'[u])
  <2> HIDE DEF Calls
  <2> QED BY <1>2, <1>3, AppendGrows
<1>5. Repeated(u, call) /\ \A w \in Users : w # u => Still(w)
  BY <1>1, <1>2, <1>3, <1>4 DEF Repeated, Still
<1>6. \A w \in Users : QueueStep(w) /\ \A x : Aside(w, x)
  BY <1>5, OneQueue DEF QueueStep, Aside
<1> QED BY <1>1, <1>6, CopiesAlike, AsideTells

\* A call is rejected.
LEMMA RejectTells ==
    ASSUME Typed, Shaped, NEW u \in Users, NEW i \in DOMAIN calls[u], Reject(u, i)
    PROVE  Tells
<1> DEFINE call == calls[u][i]
<1>1. /\ UNCHANGED chats /\ calls' = [calls EXCEPT ![u] = RemoveAt(@, i)]
      /\ resends' = IF call.kind \in {"delete", "read"}
                    THEN [resends EXCEPT ![u] = AddTo(@, call)] ELSE resends
      /\ missed' = IF call.kind \in {"edit", "undelete"}
                   THEN missed \cup {call.message} ELSE missed
  BY DEF Reject
<1>2. /\ DOMAIN resends = Users /\ DOMAIN calls = Users /\ calls[u] \in Seq(Calls)
      /\ i \in 1 .. Len(calls[u])
  BY QueuesAre
<1>3. calls'[u] = RemoveAt(calls[u], i) /\ \A w \in Users : w # u => calls'[w] = calls[w]
  BY <1>1, <1>2
<1>4. Shrunk(calls[u], i, calls'[u])
  <2> HIDE DEF Calls
  <2> QED BY <1>2, <1>3, RemoveAtShrinks
<1> HIDE DEF call
<1>5. \A w \in Users : w # u => Still(w)
  BY <1>1, <1>2, <1>3 DEF Still
<1>6. QueueStep(u) /\ \A m : Aside(u, m)
  <2>1. CASE call.kind \in {"delete", "read"}
    <3>1. Rejected(u, i)
      BY <1>1, <1>2, <1>4, <2>1 DEF Rejected, call
    <3> QED BY <1>2, <3>1 DEF QueueStep, Aside
  <2>2. CASE call.kind \notin {"delete", "read"}
    <3>1. Gone(u, i) /\ call.kind # "read"
      BY <1>1, <1>2, <1>4, <2>2 DEF Gone
    <3>2. \A m : Concerns(call, m) => m \in missed'
      BY <1>1, <2>2 DEF Concerns, IsEvent, IsAbout
    <3> QED BY <1>2, <3>1, <3>2 DEF QueueStep, Aside, call
  <2> QED BY <2>1, <2>2
<1>7. \A w \in Users : QueueStep(w) /\ \A x : Aside(w, x)
  BY <1>5, <1>6, OneQueue
<1>8. missed \subseteq missed'
  BY <1>1
<1> QED BY <1>1, <1>7, <1>8, CopiesAlike, AsideTells

\* The content of message m changes in the copy of u: the other messages do not notice.
SameBut(chat, d, m) == \A x : x # m => ContentIn(d, x) = ContentIn(chat, x)
LEMMA OthersUpdate ==
    ASSUME Typed, Shaped, NEW u \in Users, NEW d, chats' = [chats EXCEPT ![u] = d], NEW m,
           SameBut(chats[u], d, m), missed \subseteq missed',
           \A w \in Users : \A x : x # m => Aside(w, x)
    PROVE  \A w \in Users : \A x : x # m => UpdateStep(w, x)
<1> SUFFICES ASSUME NEW w \in Users, NEW x, x # m PROVE UpdateStep(w, x)
  OBVIOUS
<1>1. chats'[u] = d /\ \A v \in Users : v # u => chats'[v] = chats[v]
  BY DEF Typed, CopiesTyped
<1>2. \A v \in Users : Alike(Content(v, x), Content(v, x)')
  BY <1>1 DEF Alike, Content, SameBut
<1> QED BY <1>2, AsideUpdates

\* u makes a call about it, if any.
LEMMA CallAbout ==
    ASSUME Typed, NEW u \in Users, NEW m, NEW c \in Calls, c.message = m,
           c.kind \in {"edit", "undelete"} \/ c = DeleteCall(m),
           Calling(u, c), UNCHANGED resends
    PROVE  /\ Made(u, c) /\ \A w \in Users : w # u => Still(w)
           /\ \A w \in Users : QueueStep(w) /\ \A x : x # m => Aside(w, x)
<1>1. Made(u, c) /\ \A w \in Users : w # u => Still(w)
  BY CallingMakes
<1>2. Fit(c) /\ \A x : x # m => ~Concerns(c, x)
  BY DEF Fit, Concerns, IsEvent, IsAbout
<1>3. QueueStep(u) /\ \A x : x # m => Aside(u, x)
  BY <1>1, <1>2 DEF QueueStep, Aside
<1> QED BY <1>1, <1>3, StillAside

\* A user edits its message,
LEMMA EditTells ==
    ASSUME Typed, Shaped, NEW u \in Users, NEW m, EditMessage(u, m)
    PROVE  Tells
<1> DEFINE version == chats[u].content[m].version + 1
           d == Edited(chats[u], m, version)
           c == EditCall(m, version)
<1>1. /\ Has(chats[u], m) /\ m[1] = u /\ chats' = [chats EXCEPT ![u] = d] /\ Calling(u, c)
      /\ UNCHANGED <<resends, missed>>
  BY DEF EditMessage, CanEdit, SenderOf
<1>2. /\ Sound(chats[u]) /\ chats[u].content[m] \in Contents /\ m \in Messages
      /\ chats'[u] = d /\ \A w \in Users : w # u => chats'[w] = chats[w]
  BY <1>1, ContentOf DEF Typed, CopiesTyped
<1>3. version \in Nat
  BY <1>2 DEF Contents
<1> HIDE DEF version
<1>4. /\ Touched(chats[u], d) /\ ContentIn(d, m).version = version
      /\ ContentIn(d, m).deleted_by = ContentIn(chats[u], m).deleted_by
      /\ SameBut(chats[u], d, m)
  BY <1>1, <1>2, <1>3, EditedIs, EditedAlike DEF SameBut
<1>5. CallOf(u, c) /\ c.kind = "edit" /\ c.message = m /\ c.n = version
  <2>1. c = [kind |-> "edit", args |-> <<>>, attempt |-> 0, message |-> m, n |-> version]
    <3> DEFINE r == Call("edit")
               s == [r EXCEPT !.message = m]
    <3>1. r = [kind |-> "edit", args |-> <<>>, attempt |-> 0, message |-> <<>>, n |-> 0]
      BY DEF Call
    <3>2. s = [kind |-> "edit", args |-> <<>>, attempt |-> 0, message |-> m, n |-> 0]
      BY <3>1
    <3>3. c = [s EXCEPT !.n = version]
      BY DEF EditCall
    <3> HIDE DEF s, c
    <3> QED BY <3>2, <3>3
  <2>2. "edit" \in Kinds /\ m \in Messages \cup {<<>>} /\ c.message = m
    BY <1>2, <2>1 DEF Kinds
  <2> HIDE DEF c
  <2> QED BY <1>3, <2>1, <2>2, SmallCallIs
<1> HIDE DEF d, c
<1>6. /\ Made(u, c) /\ \A w \in Users : w # u => Still(w)
      /\ \A w \in Users : QueueStep(w) /\ \A x : x # m => Aside(w, x)
  BY <1>1, <1>5, CallAbout DEF CallOf
<1>7. \A w \in Users : ReadsStep(w)
  BY <1>2, <1>4, SameReads DEF Touched
<1>8. \A w \in Users : \A x : x # m => UpdateStep(w, x)
  <2>1. missed \subseteq missed' /\ \A w \in Users : \A x : x # m => Aside(w, x)
    BY <1>1, <1>6
  <2> QED BY <1>1, <1>4, <2>1, OthersUpdate
<1>9. UpdateStep(u, m)
  <2>1. Other(u) \in Users /\ Other(u) # u
    BY OtherIs
  <2>2. Changes(u, m, "edit")
    BY <1>2, <1>4, <1>5, <1>6, <2>1 DEF Changes, Made, IsAbout, Content, Late, Alike
  <2>3. Undoes(Other(u), m) => Undoes(Other(u), m)'
    BY <1>6, <2>1 DEF Undoes, Still
  <2> QED BY <1>1, <2>2, <2>3 DEF UpdateStep
<1> QED BY <1>1, <1>6, <1>7, <1>8, <1>9 DEF Tells

\* deletes a message - for both, if it is its own -
LEMMA DeleteTells ==
    ASSUME Typed, Shaped, NEW u \in Users, NEW m, DeleteMessage(u, m)
    PROVE  Tells
<1> DEFINE d == Deleted(chats[u], u, m)
           c == DeleteCall(m)
<1>1. /\ Has(chats[u], m) /\ chats' = [chats EXCEPT ![u] = d]
      /\ chats[u].content[m].deleted_by = {}
      /\ IF m[1] = u THEN Calling(u, c) ELSE UNCHANGED calls
      /\ UNCHANGED <<resends, missed>>
  BY DEF DeleteMessage, CanDelete, SenderOf
<1>2. /\ Sound(chats[u]) /\ m \in Messages
      /\ chats'[u] = d /\ \A w \in Users : w # u => chats'[w] = chats[w]
      /\ ContentIn(chats[u], m).deleted_by = {}
  BY <1>1, ContentOf DEF Typed, CopiesTyped, ContentIn
<1>3. /\ Touched(chats[u], d) /\ ContentIn(d, m).version = ContentIn(chats[u], m).version
      /\ ContentIn(d, m).deleted_by = {u}
      /\ SameBut(chats[u], d, m)
  BY <1>1, <1>2, DeletedIs, DeletedAlike DEF SameBut
<1>4. CallOf(u, c) /\ c.kind = "delete" /\ c.message = m
  <2>1. c = [kind |-> "delete", args |-> <<>>, attempt |-> 0, message |-> m, n |-> 0]
    BY DEF DeleteCall, Call
  <2>2. "delete" \in Kinds /\ m \in Messages \cup {<<>>} /\ c.message = m
    BY <1>2, <2>1 DEF Kinds
  <2> HIDE DEF c
  <2> QED BY <2>1, <2>2, SmallCallIs
<1> HIDE DEF d
<1>5. \A w \in Users : ReadsStep(w)
  BY <1>2, <1>3, SameReads DEF Touched
<1>6. Other(u) \in Users /\ Other(u) # u /\ Other(Other(u)) = u /\ (m[1] = u \/ m[1] = Other(u))
  BY <1>2, OtherIs DEF Messages
<1>7. CASE m[1] = u
  <2>1. Calling(u, c) /\ c \in Calls
    BY <1>1, <1>4, <1>7 DEF CallOf
  <2>2. /\ Made(u, c) /\ \A w \in Users : w # u => Still(w)
        /\ \A w \in Users : QueueStep(w) /\ \A x : x # m => Aside(w, x)
    BY <1>1, <1>4, <2>1, CallAbout
  <2> HIDE DEF c
  <2>3. \A w \in Users : \A x : x # m => UpdateStep(w, x)
    <3>1. missed \subseteq missed' /\ \A w \in Users : \A x : x # m => Aside(w, x)
      BY <1>1, <2>2
    <3> QED BY <1>1, <1>3, <3>1, OthersUpdate
  <2>4. Changes(u, m, "delete")
    BY <1>2, <1>3, <1>4, <1>6, <2>2 DEF Changes, Made, IsAbout, Content, Late, Alike
  <2>5. Undoes(Other(u), m) => Undoes(Other(u), m)'
    BY <1>6, <2>2 DEF Undoes, Still
  <2>6. UpdateStep(u, m)
    BY <1>1, <2>4, <2>5 DEF UpdateStep
  <2> QED BY <1>5, <1>7, <2>2, <2>3, <2>6 DEF Tells
<1>8. CASE m[1] # u
  <2>1. \A w \in Users : Still(w)
    BY <1>1, <1>8 DEF Still
  <2>2. \A w \in Users : QueueStep(w) /\ \A x : Aside(w, x)
    BY <2>1, StillAside
  <2>3. \A w \in Users : \A x : x # m => UpdateStep(w, x)
    <3>1. missed \subseteq missed' /\ \A w \in Users : \A x : x # m => Aside(w, x)
      BY <1>1, <2>2
    <3> QED BY <1>1, <1>3, <3>1, OthersUpdate
  <2>4. Unconcerned(Other(u), m)
    BY <1>2, <1>3, <1>6, <2>1 DEF Unconcerned, Content, Alike, QueueLeft, Late, Still
  <2>5. Undoes(u, m) => Undoes(u, m)'
    BY <2>1 DEF Undoes, Still
  <2>6. UpdateStep(Other(u), m)
    BY <1>1, <1>6, <2>4, <2>5 DEF UpdateStep
  <2> QED BY <1>5, <1>6, <1>8, <2>2, <2>3, <2>6 DEF Tells
<1> QED BY <1>7, <1>8

\* or undeletes it, and tells.
LEMMA UndeleteTells ==
    ASSUME Typed, Shaped, NEW u \in Users, NEW m, UndeleteMessage(u, m)
    PROVE  Tells
<1> DEFINE d == Undeleted(chats[u], m)
           c == UndeleteCall(m)
<1>1. /\ Has(chats[u], m) /\ chats' = [chats EXCEPT ![u] = d] /\ Calling(u, c)
      /\ chats[u].content[m].deleted_by = {u}
      /\ UNCHANGED <<resends, missed>>
  BY DEF UndeleteMessage, CanUndelete, history
<1>2. /\ Sound(chats[u]) /\ m \in Messages
      /\ chats'[u] = d /\ \A w \in Users : w # u => chats'[w] = chats[w]
      /\ ContentIn(chats[u], m).deleted_by = {u}
  BY <1>1, ContentOf DEF Typed, CopiesTyped, ContentIn
<1>3. /\ Touched(chats[u], d) /\ ContentIn(d, m).version = ContentIn(chats[u], m).version
      /\ ContentIn(d, m).deleted_by = {}
      /\ SameBut(chats[u], d, m)
  BY <1>1, <1>2, UndeletedIs, UndeletedAlike DEF SameBut
<1>4. CallOf(u, c) /\ c.kind = "undelete" /\ c.message = m
  <2>1. c = [kind |-> "undelete", args |-> <<>>, attempt |-> 0, message |-> m, n |-> 0]
    BY DEF UndeleteCall, Call
  <2>2. "undelete" \in Kinds /\ m \in Messages \cup {<<>>} /\ c.message = m
    BY <1>2, <2>1 DEF Kinds
  <2> HIDE DEF c
  <2> QED BY <2>1, <2>2, SmallCallIs
<1> HIDE DEF c, d
<1>5. \A w \in Users : ReadsStep(w)
  BY <1>2, <1>3, SameReads DEF Touched
<1>6. Other(u) \in Users /\ Other(u) # u /\ Other(Other(u)) = u /\ (m[1] = u \/ m[1] = Other(u))
  BY <1>2, OtherIs DEF Messages
<1>7. /\ Made(u, c) /\ \A w \in Users : w # u => Still(w)
      /\ \A w \in Users : QueueStep(w) /\ \A x : x # m => Aside(w, x)
  BY <1>1, <1>4, CallAbout DEF CallOf
<1>8. \A w \in Users : \A x : x # m => UpdateStep(w, x)
  <2>1. missed \subseteq missed' /\ \A w \in Users : \A x : x # m => Aside(w, x)
    BY <1>1, <1>7
  <2> QED BY <1>1, <1>3, <2>1, OthersUpdate
<1>9. CASE m[1] = u
  <2>1. Changes(u, m, "undelete")
    BY <1>2, <1>3, <1>4, <1>6, <1>7 DEF Changes, Made, IsAbout, Content, Late, Alike
  <2>2. Undoes(Other(u), m) => Undoes(Other(u), m)'
    BY <1>6, <1>7 DEF Undoes, Still
  <2>3. UpdateStep(u, m)
    BY <1>1, <2>1, <2>2 DEF UpdateStep
  <2> QED BY <1>5, <1>7, <1>8, <1>9, <2>3 DEF Tells
<1>10. CASE m[1] # u
  <2>1. Undoes(u, m)'
    <3>1. Grown(calls[u], c, calls'[u]) /\ Len(calls[u]) \in Nat
      BY <1>7, QueuesAre DEF Made
    <3>2. \E i \in 1 .. Len(calls'[u]) : calls'[u][i] = c
      BY <3>1, GrownHas
    <3> QED BY <1>4, <3>2 DEF Undoes, IsAbout
  <2>2. Unconcerned(Other(u), m)
    BY <1>2, <1>3, <1>6, <1>7, <2>1 DEF Unconcerned, Content, Alike, QueueLeft, Late, Still
  <2>3. UpdateStep(Other(u), m)
    BY <1>1, <1>6, <2>1, <2>2 DEF UpdateStep
  <2> QED BY <1>5, <1>6, <1>7, <1>8, <1>10, <2>3 DEF Tells
<1> QED BY <1>9, <1>10

\* Calls are handled: the oldest is gone.
LEMMA OldestGone ==
    ASSUME Typed, NEW u \in Users, calls[u] # <<>>, calls' = [calls EXCEPT ![u] = Tail(@)],
           UNCHANGED resends
    PROVE  /\ Gone(u, 1) /\ Head(calls[u]) = calls[u][1] /\ CallOf(u, calls[u][1])
           /\ 1 \in 1 .. Len(calls[u]) /\ \A w \in Users : w # u => Still(w)
<1>1. calls'[u] = Tail(calls[u]) /\ \A w \in Users : w # u => calls'[w] = calls[w]
  BY QueuesAre
<1>2. Shrunk(calls[u], 1, calls'[u]) /\ Head(calls[u]) = calls[u][1]
  <2>1. calls[u] \in Seq(Calls)
    BY QueuesAre
  <2> HIDE DEF Calls
  <2> QED BY <1>1, <2>1, TailShrinks
<1>3. 1 \in 1 .. Len(calls[u])
  BY <1>2 DEF Shrunk
<1> QED BY <1>1, <1>2, <1>3, QueuesAre DEF Gone, Still

\* Messages or a receipt are handled: no message changes.
LEMMA PlainHandled ==
    ASSUME Typed, NEW u \in Users, calls[u] # <<>>, calls' = [calls EXCEPT ![u] = Tail(@)],
           UNCHANGED resends, calls[u][1].kind \in {"send", "read"},
           calls[u][1].kind = "read" =>
              chats'[Other(u)] = ReadByThem(chats[Other(u)], calls[u][1].n)
    PROVE  \A w \in Users : QueueStep(w) /\ \A m : Aside(w, m)
<1>1. /\ Gone(u, 1) /\ 1 \in 1 .. Len(calls[u]) /\ \A w \in Users : w # u => Still(w)
  BY OldestGone
<1>2. \A m : ~Concerns(calls[u][1], m)
  BY DEF Concerns, IsEvent, IsAbout
<1>3. QueueStep(u) /\ \A m : Aside(u, m)
  BY <1>1, <1>2 DEF QueueStep, Aside
<1> QED BY <1>1, <1>3, OneQueue

\* Messages arrive.
LEMMA HandleSendTells ==
    ASSUME Typed, Shaped, NEW v \in Users, NEW u \in Users, u = Other(v),
           calls[u] # <<>>, calls[u][1].kind = "send", CallOf(u, calls[u][1]),
           calls' = [calls EXCEPT ![u] = Tail(@)], HandleSend(v, calls[u][1]),
           UNCHANGED <<resends, missed>>
    PROVE  Tells
<1> DEFINE call == calls[u][1]
<1>1. \A w \in Users : QueueStep(w) /\ \A m : Aside(w, m)
  BY PlainHandled
<1>2. call.args \in Seq(Args)
  BY DEF CallOf, Mine
<1>3. CASE UNCHANGED chats
  BY <1>1, <1>3, CopiesAlike, AsideTells
<1>4. CASE chats' = [chats EXCEPT ![v] = ReceivedAll(@, call.args)]
  <2> HIDE DEF call
  <2>1. \A w \in Users : AllAlike(chats[w], chats'[w]) /\ ReadsStep(w)
    BY <1>2, <1>4, ReceivedTells
  <2> QED BY <1>1, <2>1, AsideTells
<1> QED BY <1>3, <1>4 DEF HandleSend

\* A receipt arrives.
LEMMA HandleReadTells ==
    ASSUME Typed, Shaped, NEW v \in Users, NEW u \in Users, u = Other(v), v = Other(u),
           calls[u] # <<>>, calls[u][1].kind = "read", CallOf(u, calls[u][1]),
           calls' = [calls EXCEPT ![u] = Tail(@)], HandleRead(v, calls[u][1]),
           UNCHANGED <<resends, missed>>
    PROVE  Tells
<1> DEFINE n == calls[u][1].n
           d == ReadByThem(chats[v], n)
<1>1. /\ chats' = [chats EXCEPT ![v] = d] /\ chats'[v] = d /\ Sound(chats[v])
      /\ n \in Nat
  BY DEF HandleRead, Typed, CopiesTyped, CallOf, Calls
<1>2. \A w \in Users : QueueStep(w) /\ \A m : Aside(w, m)
  BY <1>1, PlainHandled
<1> HIDE DEF n
<1>3. /\ d.log = chats[v].log /\ d.content = chats[v].content /\ d.unread = chats[v].unread
      /\ d.read_by_me = chats[v].read_by_me
      /\ d.read_by_them >= chats[v].read_by_them
  <2>1. chats[v].read_by_them \in Nat /\ Len(chats[v].log) \in Nat
    BY <1>1, CopyIs DEF Sound
  <2>2. ReadUpTo(chats[v].read_by_them, n, Len(chats[v].log)) >= chats[v].read_by_them
    BY <1>1, <2>1, ReadUpToIs
  <2> QED BY <1>1, <2>2, ReadByThemIs DEF SameMessages
<1> HIDE DEF d
<1>4. AllAlike(chats[v], d) /\ ReadsStep(v)
  BY <1>1, <1>3, SameContents DEF ReadsStep
<1> QED BY <1>1, <1>2, <1>4, OneCopyAlike, AsideTells

\* A message is deleted for both by its sender only.
RightDeletes ==
    \A u \in Users : \A m \in Messages : m[1] = u => DeletedByTheRight(u, m)

\* The copy that a change by u of message m leaves.
UpdateIs(u, c, m, chat, d) ==
    LET before == ContentIn(chat, m)
        after == ContentIn(d, m)
    IN  \/ /\ IsAbout(c, "edit", m) /\ m[1] = u
           /\ after.version = c.n /\ after.deleted_by = before.deleted_by
        \/ /\ after.version = before.version
           /\ \/ /\ IsAbout(c, "delete", m) /\ m[1] = u
                 /\ before.deleted_by = {} /\ after.deleted_by = {u}
              \/ /\ IsAbout(c, "undelete", m)
                 /\ before.deleted_by = {u} /\ after.deleted_by = {}
LEMMA AppliedIs ==
    ASSUME Typed, NEW v \in Users, NEW u \in Users, u = Other(v), NEW c,
           c.kind \in {"edit", "delete", "undelete"}, CallOf(u, c), Applies(v, c),
           NEW m, m = c.message, NEW d, d = Updated(chats[v], u, c)
    PROVE  /\ Touched(chats[v], d) /\ SameBut(chats[v], d, m) /\ m \in Messages
           /\ UpdateIs(u, c, m, chats[v], d)
<1>1. Sound(chats[v]) /\ c.n \in Nat
  BY DEF Typed, CopiesTyped, CallOf, Calls
<1>2. Has(chats[v], m)
  BY DEF Applies, CanEdit, CanDelete, CanUndelete
<1>3. m \in Messages /\ ContentIn(chats[v], m) = chats[v].content[m]
  BY <1>1, <1>2, ContentOf DEF ContentIn
<1>4. CASE c.kind = "edit"
  <2>1. d = Edited(chats[v], m, c.n) /\ m[1] = u /\ IsAbout(c, "edit", m)
    BY <1>4 DEF Applies, CanEdit, Updated, SenderOf, IsAbout
  <2>2. Touched(chats[v], d) /\ SameBut(chats[v], d, m)
    BY <1>1, <1>2, <2>1, EditedIs, EditedAlike DEF SameBut
  <2>3. /\ ContentIn(d, m).version = c.n
        /\ ContentIn(d, m).deleted_by = ContentIn(chats[v], m).deleted_by
    BY <1>1, <1>2, <2>1, EditedAlike
  <2> QED BY <1>3, <2>1, <2>2, <2>3 DEF UpdateIs
<1>5. CASE c.kind = "delete"
  <2>1. /\ d = Deleted(chats[v], u, m) /\ m[1] = u /\ IsAbout(c, "delete", m)
        /\ chats[v].content[m].deleted_by = {}
    BY <1>5 DEF Applies, CanDelete, Updated, SenderOf, IsAbout
  <2>2. Touched(chats[v], d) /\ SameBut(chats[v], d, m)
    BY <1>1, <1>2, <2>1, DeletedIs, DeletedAlike DEF SameBut
  <2>3. /\ ContentIn(d, m).version = ContentIn(chats[v], m).version
        /\ ContentIn(d, m).deleted_by = {u}
    BY <1>1, <1>2, <2>1, DeletedAlike
  <2> QED BY <1>3, <2>1, <2>2, <2>3 DEF UpdateIs
<1>6. CASE c.kind = "undelete"
  <2>1. /\ d = Undeleted(chats[v], m) /\ IsAbout(c, "undelete", m)
        /\ chats[v].content[m].deleted_by = {u}
    BY <1>6 DEF Applies, CanUndelete, Updated, IsAbout
  <2>2. Touched(chats[v], d) /\ SameBut(chats[v], d, m)
    BY <1>1, <1>2, <2>1, UndeletedIs, UndeletedAlike DEF SameBut
  <2>3. /\ ContentIn(d, m).version = ContentIn(chats[v], m).version
        /\ ContentIn(d, m).deleted_by = {}
    BY <1>1, <1>2, <2>1, UndeletedAlike
  <2> QED BY <1>3, <2>1, <2>2, <2>3 DEF UpdateIs
<1> QED BY <1>4, <1>5, <1>6

\* A change arrives and takes effect,
LEMMA AppliedTells ==
    ASSUME Typed, Shaped, RightDeletes, NEW v \in Users, NEW u \in Users,
           Other(v) = u, Other(u) = v, u # v, NEW c, c = calls[u][1],
           Gone(u, 1), 1 \in 1 .. Len(calls[u]), \A w \in Users : w # u => Still(w),
           \A w \in Users : QueueStep(w),
           NEW m \in Messages, m = c.message, NEW d, chats' = [chats EXCEPT ![v] = d],
           Touched(chats[v], d), SameBut(chats[v], d, m), UpdateIs(u, c, m, chats[v], d),
           missed' = missed
    PROVE  Tells
<1>1. chats'[v] = d /\ \A w \in Users : w # v => chats'[w] = chats[w]
  BY DEF Typed, CopiesTyped
<1>2. m[1] = u
  <2>1. m[1] = u \/ m[1] = v
    <3>1. m[1] \in Users
      BY DEF Messages
    <3> QED BY <3>1, OtherIs
  <2>2. CASE m[1] = v
    <3>1. ContentIn(chats[v], m).deleted_by \in {{}, {v}}
      BY <2>2 DEF RightDeletes, DeletedByTheRight, Content
    <3> QED BY <2>2, <3>1 DEF UpdateIs
  <2> QED BY <2>1, <2>2
<1>3. \A w \in Users : ReadsStep(w)
  BY <1>1, SameReads DEF Touched
<1>4. \A w \in Users : \A x : x # m => UpdateStep(w, x)
  <2>1. \A x : x # m => ~Concerns(c, x)
    BY DEF Concerns, IsEvent, IsAbout
  <2>2. \A x : x # m => Aside(u, x)
    BY <2>1 DEF Aside
  <2>3. \A w \in Users : \A x : x # m => Aside(w, x)
    BY <2>2, StillAside
  <2>4. missed \subseteq missed'
    OBVIOUS
  <2> QED BY <2>3, <2>4, OthersUpdate
<1>5. IsHandled(u, m)
  <2>1. Shrunk(calls[u], 1, calls'[u]) /\ Late(u, m)' = Late(u, m)
    BY DEF Gone, Late
  <2>2. Alike(Content(u, m), Content(u, m)')
    BY <1>1 DEF Alike, Content
  <2>3. Content(v, m) = ContentIn(chats[v], m) /\ Content(v, m)' = ContentIn(d, m)
    BY <1>1 DEF Content
  <2> QED BY <2>1, <2>2, <2>3 DEF IsHandled, UpdateIs
<1>6. Undoes(v, m) => Undoes(v, m)'
  BY DEF Undoes, Still
<1>7. UpdateStep(u, m)
  BY <1>5, <1>6 DEF UpdateStep
<1>8. ASSUME NEW w \in Users, NEW x \in Messages, x[1] = w PROVE UpdateStep(w, x)
  BY <1>2, <1>4, <1>7, <1>8
<1> QED BY <1>3, <1>8 DEF Tells

\* or none.
LEMMA HandleUpdateTells ==
    ASSUME Typed, Shaped, RightDeletes, NEW v \in Users, NEW u \in Users,
           u = Other(v), v = Other(u), calls[u] # <<>>,
           calls[u][1].kind \in {"edit", "delete", "undelete"}, CallOf(u, calls[u][1]),
           calls' = [calls EXCEPT ![u] = Tail(@)], HandleUpdate(v, calls[u][1]),
           UNCHANGED resends
    PROVE  Tells
<1> DEFINE call == calls[u][1]
           m == call.message
           d == Updated(chats[v], u, call)
<1>1. Gone(u, 1) /\ 1 \in 1 .. Len(calls[u]) /\ \A w \in Users : w # u => Still(w)
  BY OldestGone
<1>2. \A w \in Users : QueueStep(w)
  BY <1>1, StillAside DEF QueueStep
<1>3. CASE ~Applies(v, call)
  <2>1. UNCHANGED chats /\ missed' = missed \cup {m}
    BY <1>3 DEF HandleUpdate
  <2>2. \A x : Concerns(call, x) => x \in missed'
    BY <2>1 DEF Concerns, IsEvent, IsAbout
  <2>3. \A x : Aside(u, x)
    BY <1>1, <2>2 DEF Aside
  <2>4. \A w \in Users : QueueStep(w) /\ \A x : Aside(w, x)
    BY <1>1, <1>2, <2>3, OneQueue
  <2>5. missed \subseteq missed'
    BY <2>1
  <2> QED BY <2>1, <2>4, <2>5, CopiesAlike, AsideTells
<1>4. CASE Applies(v, call)
  <2>1. /\ chats' = [chats EXCEPT ![v] = d] /\ missed' = missed
    BY <1>4 DEF HandleUpdate
  <2>2. /\ Touched(chats[v], d) /\ SameBut(chats[v], d, m) /\ m \in Messages
        /\ UpdateIs(u, call, m, chats[v], d)
    BY <1>4, AppliedIs
  <2>3. Other(v) = u /\ Other(u) = v /\ u # v
    BY OtherIs
  <2> HIDE DEF call, m, d
  <2>4. call = calls[u][1] /\ m = call.message
    BY DEF call, m
  <2> QED BY <1>1, <1>2, <2>1, <2>2, <2>3, <2>4, AppliedTells
<1> QED BY <1>3, <1>4

\* The oldest call is handled.
LEMMA HandleTells ==
    ASSUME Typed, Shaped, RightDeletes, NEW v \in Users, Handle(v)
    PROVE  Tells
<1> DEFINE u == Other(v)
<1>1. u \in Users /\ Other(u) = v
  BY OtherIs
<1>2. /\ calls[u] # <<>> /\ calls' = [calls EXCEPT ![u] = Tail(@)] /\ UNCHANGED resends
  BY DEF Handle
<1>3. Head(calls[u]) = calls[u][1] /\ CallOf(u, calls[u][1])
  BY <1>1, <1>2, OldestGone
<1>4. \/ /\ calls[u][1].kind = "send" /\ HandleSend(v, calls[u][1]) /\ UNCHANGED missed
      \/ /\ calls[u][1].kind = "read" /\ HandleRead(v, calls[u][1]) /\ UNCHANGED missed
      \/ /\ calls[u][1].kind \in {"edit", "delete", "undelete"} /\ HandleUpdate(v, calls[u][1])
  BY <1>3 DEF Handle
<1>5. u = Other(v) /\ v = Other(u)
  BY <1>1
<1> HIDE DEF u
<1> QED BY <1>1, <1>2, <1>3, <1>4, <1>5, HandleSendTells, HandleReadTells, HandleUpdateTells

\* Every step that deletes no copy tells what it should.
LEMMA EveryStepTells ==
    ASSUME Typed, Shaped, RightDeletes, Typed', cleared' = {}, [Next]_vars
    PROVE  Tells
<1>1. CASE UNCHANGED vars
  BY <1>1, CopiesAlike, NothingTold DEF vars
<1>2. CASE Next
  <2> SUFFICES ASSUME NEW u \in Users,
                \/ SendMessage(u) \/ SendAfterLookup(u) \/ LookupFails(u)
                \/ BlockUser(u)
                \/ \E block \in BOOLEAN : DeleteChat(u, block)
                \/ \E index \in 1 .. Len(chats[u].log) : MarkRead(u, index)
                \/ \E m \in ToSet(chats[u].log) :
                      EditMessage(u, m) \/ DeleteMessage(u, m) \/ UndeleteMessage(u, m)
                \/ \E a \in BagToSet(answers[u]) : AnswerArrives(u, a)
                \/ \E n \in BagToSet(retries[u]) : Retry(u, n)
                \/ \E m \in BagToSet(hard_deletes[u]) : HardDelete(u, m)
                \/ Handle(u)
                \/ \E call \in BagToSet(verifying[u]) : Verified(u, call)
                \/ \E i \in DOMAIN calls[u] : Reject(u, i)
                \/ \E call \in BagToSet(resends[u]) : Resend(u, call)
               PROVE  Tells
    BY <1>2 DEF Next
  <2>1. ASSUME SendMessage(u) \/ SendAfterLookup(u) PROVE Tells
    <3>1. CASE SendImpl(u)
      <4>1. UNCHANGED <<resends, missed>> /\ Mine(u, chats'[u].unconfirmed)
        BY <2>1 DEF SendMessage, SendAfterLookup, Typed, CopiesTyped
      <4> QED BY <3>1, <4>1, SendImplTells
    <3>2. CASE UNCHANGED <<chats, calls>>
      <4>1. UNCHANGED <<chats, calls, resends, missed>>
        BY <2>1, <3>2 DEF SendMessage, SendAfterLookup
      <4> QED BY <4>1, CopiesAlike, NothingTold
    <3> QED BY <2>1, <3>1, <3>2 DEF SendMessage, SendAfterLookup
  <2>2. ASSUME LookupFails(u) \/ BlockUser(u) PROVE Tells
    <3>1. UNCHANGED <<chats, calls, resends, missed>>
      BY <2>2 DEF LookupFails, BlockUser, history
    <3> QED BY <3>1, CopiesAlike, NothingTold
  <2>3. ASSUME NEW block \in BOOLEAN, DeleteChat(u, block) PROVE Tells
    BY <2>3 DEF DeleteChat
  <2>4. ASSUME \E index \in 1 .. Len(chats[u].log) : MarkRead(u, index) PROVE Tells
    BY <2>4, MarkReadTells
  <2>5. ASSUME \E m \in ToSet(chats[u].log) :
                  EditMessage(u, m) \/ DeleteMessage(u, m) \/ UndeleteMessage(u, m)
        PROVE  Tells
    BY <2>5, EditTells, DeleteTells, UndeleteTells
  <2>6. ASSUME \/ \E a \in BagToSet(answers[u]) : AnswerArrives(u, a)
               \/ \E n \in BagToSet(retries[u]) : Retry(u, n)
               \/ \E m \in BagToSet(hard_deletes[u]) : HardDelete(u, m)
        PROVE  Tells
    BY <2>6, AnswerArrivesTells, RetryTells, HardDeleteTells
  <2>7. ASSUME \/ Handle(u)
               \/ \E call \in BagToSet(verifying[u]) : Verified(u, call)
               \/ \E i \in DOMAIN calls[u] : Reject(u, i)
               \/ \E call \in BagToSet(resends[u]) : Resend(u, call)
        PROVE  Tells
    BY <2>7, HandleTells, VerifiedTells, RejectTells, ResendTells
  <2> QED BY <2>1, <2>2, <2>3, <2>4, <2>5, <2>6, <2>7
<1> QED BY <1>1, <1>2

-----------------------------------------------------------------------------
(* What v has read, it tells *)

\* The messages of the other user come from its copy; those that are not read are listed
\* as unread;
FromHome(v) ==
    \A p \in 1 .. Len(chats[v].log) : chats[v].log[p][1] = Other(v) =>
        \E i \in 1 .. Len(chats[Other(v)].log) : chats[Other(v)].log[i] = chats[v].log[p]
UnreadIsListed(v) ==
    \A p \in 1 .. Len(chats[v].log) :
        p > chats[v].read_by_me /\ chats[v].log[p][1] = Other(v) =>
            \E e \in chats[v].unread : e.ours = p
\* and of those that are read the other user knows, or will know - from a receipt, or from
\* a later message of v that it does not have yet.
Lacks(u, m) == \A i \in 1 .. Len(chats[u].log) : chats[u].log[i] # m
WillKnow(v, p, i) ==
    \/ i <= chats[Other(v)].read_by_them
    \/ \E n \in Receipts(v) : i <= n
    \/ \E q \in p + 1 .. Len(chats[v].log) :
          chats[v].log[q][1] = v /\ Lacks(Other(v), chats[v].log[q])
ReadIsTold(v) ==
    \A p \in 1 .. Len(chats[v].log) : \A i \in 1 .. Len(chats[Other(v)].log) :
        /\ p <= chats[v].read_by_me /\ chats[v].log[p] = chats[Other(v)].log[i]
        /\ chats[v].log[p][1] = Other(v)
        => WillKnow(v, p, i)

\* A receipt is on its way until the other user has taken note of it.
LEMMA ReceiptsLast ==
    ASSUME Typed, Typed', NEW v \in Users, QueueStep(v), NEW n \in Receipts(v)
    PROVE  n \in Receipts(v)' \/ chats'[Other(v)] = ReadByThem(chats[Other(v)], n)
<1> DEFINE q == calls[v]
           r == calls'[v]
           bag == resends[v]
           goal == n \in Receipts(v)' \/ chats'[Other(v)] = ReadByThem(chats[Other(v)], n)
<1>1. /\ Len(q) \in Nat /\ IsABag(bag) /\ ToSet(q) = {q[i] : i \in 1 .. Len(q)}
  BY QueuesAre DEF ToSet
<1>2. ToSet(r) = {r[i] : i \in 1 .. Len(r)}
  <2>1. r \in Seq(Calls)
    BY DEF Typed, QueuesTyped, CallsTyped
  <2> HIDE DEF r, Calls
  <2> QED BY <2>1 DEF ToSet
<1>3. PICK c \in ToSet(q) \cup DOMAIN bag : c.kind = "read" /\ c.n = n
  BY DEF Receipts
<1>4. ASSUME c \in ToSet(r) \cup DOMAIN resends'[v] PROVE n \in Receipts(v)'
  BY <1>3, <1>4 DEF Receipts
<1> HIDE DEF q, r, bag
<1>5. ASSUME NEW d, Grown(q, d, r) PROVE ToSet(r) = ToSet(q) \cup {d}
  <2>1. /\ \A i \in 1 .. Len(q) : i \in 1 .. Len(r) /\ r[i] = q[i]
        /\ \E i \in 1 .. Len(r) : r[i] = d
        /\ \A i \in 1 .. Len(r) : r[i] = d \/ \E j \in 1 .. Len(q) : r[i] = q[j]
    BY <1>1, <1>5, GrownHas
  <2> QED BY <1>1, <1>2, <2>1
<1>6. ASSUME NEW k \in 1 .. Len(q), Shrunk(q, k, r) PROVE ToSet(q) \subseteq ToSet(r) \cup {q[k]}
  <2>1. \A j \in 1 .. Len(q) : j = k \/ \E i \in 1 .. Len(r) : r[i] = q[j]
    BY <1>1, <1>6, ShrunkHas
  <2> QED BY <1>1, <1>2, <2>1
<1>7. CASE Still(v)
  BY <1>3, <1>4, <1>7 DEF Still, q, r, bag
<1>8. ASSUME NEW d, Made(v, d) PROVE goal
  BY <1>3, <1>4, <1>5, <1>8 DEF Made, q, r, bag
<1>9. ASSUME NEW d, Repeated(v, d) PROVE goal
  <2>1. Grown(q, d, r) /\ resends'[v] = TakeFrom(bag, d)
    BY <1>9 DEF Repeated, q, r, bag
  <2>2. DOMAIN bag \subseteq DOMAIN resends'[v] \cup {d}
    BY <1>1, <2>1, TakeFromIs
  <2> QED BY <1>3, <1>4, <1>5, <2>1, <2>2
<1>10. ASSUME NEW k \in 1 .. Len(q), Rejected(v, k) PROVE goal
  <2>1. Shrunk(q, k, r) /\ resends'[v] = AddTo(bag, q[k])
    BY <1>10 DEF Rejected, q, r, bag
  <2>2. DOMAIN resends'[v] = DOMAIN bag \cup {q[k]}
    BY <1>1, <2>1, AddToIs
  <2> QED BY <1>3, <1>4, <1>6, <2>1, <2>2
<1>11. ASSUME NEW k \in 1 .. Len(q), Gone(v, k),
              q[k].kind = "read" => chats'[Other(v)] = ReadByThem(chats[Other(v)], q[k].n)
       PROVE  goal
  <2>1. Shrunk(q, k, r) /\ resends'[v] = bag
    BY <1>11 DEF Gone, q, r, bag
  <2>2. c = q[k] \/ c \in ToSet(r) \cup DOMAIN resends'[v]
    BY <1>3, <1>6, <2>1
  <2> QED BY <1>3, <1>4, <1>11, <2>2
<1> QED BY <1>7, <1>8, <1>9, <1>10, <1>11 DEF QueueStep, q

\* The places of a copy, while none is deleted.
LEMMA PlacesAre ==
    ASSUME Typed, Good, cleared' = {}, NEW u \in Users
    PROVE  /\ Len(chats[u].log) \in Nat /\ Len(chats'[u].log) \in Nat
           /\ Len(chats[u].log) <= Len(chats'[u].log)
           /\ chats[u].read_by_me \in Nat /\ chats'[u].read_by_me \in Nat
           /\ chats[u].read_by_me <= Len(chats[u].log)
           /\ chats'[u].read_by_me >= chats[u].read_by_me
           /\ chats[u].read_by_them \in Nat /\ chats'[u].read_by_them \in Nat
           /\ \A i \in 1 .. Len(chats[u].log) :
                 i \in 1 .. Len(chats'[u].log) /\ chats'[u].log[i] = chats[u].log[i]
           /\ \A i, j \in 1 .. Len(chats[u].log) : chats[u].log[i] = chats[u].log[j] => i = j
           /\ \A i, j \in 1 .. Len(chats'[u].log) : chats'[u].log[i] = chats'[u].log[j] => i = j
<1>1. Sound(chats[u]) /\ Sound(chats'[u]) /\ u \notin cleared'
  BY DEF Good, Step, CopyStep, Typed, CopiesTyped
<1>2. /\ Len(chats[u].log) \in Nat /\ Len(chats'[u].log) \in Nat
      /\ chats[u].read_by_me \in Nat /\ chats'[u].read_by_me \in Nat
      /\ chats[u].read_by_them \in Nat /\ chats'[u].read_by_them \in Nat
      /\ DOMAIN chats[u].log = 1 .. Len(chats[u].log)
      /\ DOMAIN chats'[u].log = 1 .. Len(chats'[u].log)
  BY <1>1, CopyIs DEF Sound
<1>3. Len(chats[u].log) <= Len(chats'[u].log)
  BY <1>1, LogsGrow DEF Extends, Good
<1>4. chats[u].read_by_me <= Len(chats[u].log)
  BY <1>1 DEF Sound
<1>5. /\ \A i, j \in 1 .. Len(chats[u].log) : chats[u].log[i] = chats[u].log[j] => i = j
      /\ \A i, j \in 1 .. Len(chats'[u].log) : chats'[u].log[i] = chats'[u].log[j] => i = j
  BY <1>1, <1>2 DEF Sound, Distinct
<1> QED BY <1>2, <1>3, <1>4, <1>5, MessagesStay

\* A message of the other user that is new in a copy was in the other user's.
LEMMA NewFromHome ==
    ASSUME Typed, Good, cleared' = {}, NEW v \in Users, FromHome(v),
           BatchesPointHome(Other(v)), NEW p \in 1 .. Len(chats'[v].log),
           chats'[v].log[p][1] = Other(v)
    PROVE  \E i \in 1 .. Len(chats[Other(v)].log) : chats[Other(v)].log[i] = chats'[v].log[p]
<1> DEFINE u == Other(v)
<1>1. Step /\ u # v
  BY OtherIs DEF Good
<1>2. CASE p \in 1 .. Len(chats[v].log) /\ chats'[v].log[p] = chats[v].log[p]
  BY <1>2 DEF FromHome
<1>3. ASSUME NEW args \in Waiting(u), CameWith(args, Len(args), chats'[v], p)
      PROVE  \E i \in 1 .. Len(chats[u].log) : chats[u].log[i] = chats'[v].log[p]
  <2>1. PICK j \in 1 .. Len(args) : chats'[v].log[p] = args[j].message
    BY <1>3 DEF CameWith
  <2> QED BY <2>1 DEF BatchesPointHome, PointsInto
<1> QED BY <1>1, <1>2, <1>3, NewMessages

\* So all messages of the other user come from its copy.
LEMMA FromHomeStays ==
    ASSUME Typed, Good, cleared' = {}, NEW v \in Users, FromHome(v), BatchesPointHome(Other(v))
    PROVE  FromHome(v)'
<1> SUFFICES ASSUME NEW p \in 1 .. Len(chats'[v].log), chats'[v].log[p][1] = Other(v)
             PROVE  \E i \in 1 .. Len(chats'[Other(v)].log) :
                       chats'[Other(v)].log[i] = chats'[v].log[p]
  BY DEF FromHome
<1>1. PICK i \in 1 .. Len(chats[Other(v)].log) : chats[Other(v)].log[i] = chats'[v].log[p]
  BY NewFromHome
<1> QED BY <1>1, OtherIs, MessagesStay

\* Two messages that v has from u are in the same order in both copies.
LEMMA SameOrder ==
    ASSUME OrderInv, cleared = {}, refused = {}, NEW v \in Users, NEW u \in Users, u = Other(v),
           NEW a \in 1 .. Len(chats[v].log), NEW b \in 1 .. Len(chats[v].log), a < b,
           NEW i \in 1 .. Len(chats[u].log), NEW j \in 1 .. Len(chats[u].log),
           chats[v].log[a] = chats[u].log[i], chats[v].log[b] = chats[u].log[j],
           chats[v].log[a][1] = u, chats[v].log[b][1] = u
    PROVE  i < j
<1>1. Typed /\ MessagesInOrder
  BY OrderImplies DEF OrderInv, LossInv
<1>2. /\ a \in DOMAIN chats[v].log /\ b \in DOMAIN chats[v].log
      /\ i \in DOMAIN chats[u].log /\ j \in DOMAIN chats[u].log
      /\ i \in Int /\ j \in Int
      /\ chats[v].log[a] \in Messages /\ chats[v].log[b] \in Messages
  BY <1>1, CopiesAre
<1> DEFINE m == chats[v].log[a]
           n == chats[v].log[b]
<1>3. m[2] < n[2]
  BY <1>1, <1>2 DEF MessagesInOrder
<1>4. m[2] \in Nat /\ n[2] \in Nat
  BY <1>2 DEF Messages
<1>5. CASE i = j
  BY <1>3, <1>4, <1>5
<1>6. CASE j < i
  <2>1. n[2] < m[2]
    BY <1>1, <1>2, <1>6 DEF MessagesInOrder
  <2> QED BY <1>3, <1>4, <2>1
<1> QED BY <1>2, <1>5, <1>6

\* What is unread stays listed: a receipt takes those off that were read before.
LEMMA UnreadStaysListed ==
    ASSUME OrderInv, Good, cleared' = {}, cleared = {}, refused = {}, NEW v \in Users,
           UnreadIsListed(v), UnreadIsTrue(v), ReadsStep(v)
    PROVE  UnreadIsListed(v)'
<1> DEFINE u == Other(v)
           new == chats'[v].log
<1>0. Typed /\ Step /\ u \in Users /\ u # v
  BY OtherIs DEF OrderInv, LossInv, Good
<1> SUFFICES ASSUME NEW p \in 1 .. Len(new), p > chats'[v].read_by_me, new[p][1] = u
             PROVE  \E e \in chats'[v].unread : e.ours = p
  BY DEF UnreadIsListed
<1>1. CASE p \in 1 .. Len(chats[v].log) /\ new[p] = chats[v].log[p]
  <2>1. p > chats[v].read_by_me
    BY <1>0, PlacesAre
  <2>2. PICK e \in chats[v].unread : e.ours = p
    BY <1>1, <2>1 DEF UnreadIsListed
  <2>3. CASE chats[v].unread \subseteq chats'[v].unread
    BY <2>2, <2>3
  <2>4. ASSUME NEW t \in Nat, ReadsTo(v, t) PROVE e \in chats'[v].unread
    <3>1. ~(e.ours <= chats'[v].read_by_me)
      BY <1>0, <2>2, PlacesAre
    <3>2. e.theirs > t => e \in chats'[v].unread
      BY <2>4, <3>1 DEF ReadsTo
    <3>3. /\ e.ours \in 1 .. Len(chats[v].log) /\ e.theirs \in 1 .. Len(chats[u].log)
          /\ chats[v].log[e.ours] = chats[u].log[e.theirs] /\ chats[v].log[e.ours][1] = u
      BY DEF UnreadIsTrue
    <3>4. ASSUME NEW d \in chats[v].unread, d.ours <= chats'[v].read_by_me, d.theirs = t
          PROVE  e.theirs > t
      <4>1. /\ d.ours \in 1 .. Len(chats[v].log) /\ d.theirs \in 1 .. Len(chats[u].log)
            /\ chats[v].log[d.ours] = chats[u].log[d.theirs] /\ chats[v].log[d.ours][1] = u
        BY DEF UnreadIsTrue
      <4>2. d.ours < e.ours
        BY <1>0, <2>2, <3>4, <4>1, PlacesAre
      <4>3. d.theirs < e.theirs
        BY <1>0, <3>3, <4>1, <4>2, SameOrder
      <4> QED BY <3>3, <3>4, <4>1, <4>3
    <3>5. t = 0 => e.theirs > t
      BY <3>3
    <3> QED BY <2>4, <3>2, <3>4, <3>5 DEF ReadsTo
  <2> QED BY <2>2, <2>3, <2>4 DEF ReadsStep
<1>2. CASE new[p] = <<v, sent[v] + 1>>
  BY <1>0, <1>2
<1>3. ASSUME NEW args, CameWith(args, Len(args), chats'[v], p)
      PROVE  \E e \in chats'[v].unread : e.ours = p
  <2>1. PICK j \in 1 .. Len(args) : [ours |-> p, theirs |-> args[j].index] \in chats'[v].unread
    BY <1>3 DEF CameWith
  <2> QED BY <2>1
<1> QED BY <1>0, <1>1, <1>2, <1>3, NewMessages

\* The number of a message of v in the other user's copy.
LEMMA KnownAreSent ==
    ASSUME Typed, Good, cleared' = {}, NEW v \in Users, FromHome(Other(v)), BatchesPointHome(v)
    PROVE  \A i \in 1 .. Len(chats'[Other(v)].log) :
              chats'[Other(v)].log[i] # <<v, sent[v] + 1>>
<1> DEFINE u == Other(v)
           m == <<v, sent[v] + 1>>
<1>1. u \in Users /\ Other(u) = v /\ sent[v] \in Nat
  BY OtherIs, CopiesAre
<1> SUFFICES ASSUME NEW i \in 1 .. Len(chats'[u].log), chats'[u].log[i] = m PROVE FALSE
  OBVIOUS
<1>2. PICK j \in 1 .. Len(chats[v].log) : chats[v].log[j] = m
  <2>1. m[1] = v
    OBVIOUS
  <2> HIDE DEF m
  <2> QED BY <1>1, <2>1, NewFromHome
<1>3. m[1] = v /\ m[2] = sent[v] + 1
  OBVIOUS
<1>4. m[2] <= sent[v]
  BY <1>2, <1>3 DEF Typed, CopiesTyped
<1> QED BY <1>1, <1>3, <1>4

\* What was known, or would be, will be.
LEMMA KnowledgeStays ==
    ASSUME Typed, Typed', Good, cleared' = {}, NEW v \in Users, QueueStep(v),
           NEW u \in Users, Other(v) = u, Other(u) = v, ReadsStep(u),
           NEW p \in 1 .. Len(chats[v].log), NEW i \in 1 .. Len(chats[u].log),
           WillKnow(v, p, i)
    PROVE  WillKnow(v, p, i)'
<1>1. /\ i \in Nat /\ i <= Len(chats[u].log) /\ Len(chats[u].log) \in Nat
      /\ chats[u].read_by_them \in Nat
      /\ chats'[u].read_by_them \in Nat /\ Len(chats'[u].log) \in Nat
      /\ Len(chats[u].log) <= Len(chats'[u].log)
  BY PlacesAre
<1>2. Step
  BY DEF Good
<1>3. CASE i <= chats[u].read_by_them
  <2>1. i <= chats'[u].read_by_them
    BY <1>1, <1>3 DEF ReadsStep
  <2> QED BY <2>1 DEF WillKnow
<1>4. ASSUME NEW n \in Receipts(v), i <= n PROVE WillKnow(v, p, i)'
  <2>1. CASE n \in Receipts(v)'
    BY <1>4, <2>1 DEF WillKnow
  <2>2. CASE chats'[u] = ReadByThem(chats[u], n)
    <3>1. n \in Nat
      <4>1. PICK c \in ToSet(calls[v]) \cup DOMAIN resends[v] : c.n = n
        BY DEF Receipts
      <4>2. c \in Calls
        BY <4>1, QueuesAre DEF CallOf, Typed, QueuesTyped, CallsTyped
      <4> QED BY <4>1, <4>2 DEF Calls
    <3>2. chats'[u].read_by_them = ReadUpTo(chats[u].read_by_them, n, Len(chats[u].log))
      <4>1. Sound(chats[u])
        BY DEF Typed, CopiesTyped
      <4> QED BY <2>2, <3>1, <4>1, ReadByThemIs
    <3>3. i <= chats'[u].read_by_them
      <4> DEFINE current == chats[u].read_by_them
                 latest == Len(chats[u].log)
      <4>1. current \in Nat /\ latest \in Nat /\ i \in Nat /\ i <= n /\ i <= latest
        BY <1>1, <1>4
      <4>2. chats'[u].read_by_them = ReadUpTo(current, n, latest)
        BY <3>2
      <4> HIDE DEF current, latest
      <4>3. ReadUpTo(current, n, latest) \in Nat /\ ReadUpTo(current, n, latest) >= i
        BY <3>1, <4>1, ReadUpToIs
      <4> QED BY <4>1, <4>2, <4>3
    <3> QED BY <3>3 DEF WillKnow
  <2> QED BY <1>4, <2>1, <2>2, ReceiptsLast
<1>5. ASSUME NEW q \in p + 1 .. Len(chats[v].log), chats[v].log[q][1] = v,
             Lacks(u, chats[v].log[q])
      PROVE  WillKnow(v, p, i)'
  <2>1. q \in 1 .. Len(chats[v].log) /\ p \in Nat
    BY PlacesAre
  <2>2. q \in 1 .. Len(chats'[v].log) /\ chats'[v].log[q] = chats[v].log[q]
    BY <2>1, PlacesAre
  <2>3. q \in p + 1 .. Len(chats'[v].log)
    BY <2>1, <2>2
  <2>4. CASE Lacks(u, chats[v].log[q])'
    BY <1>5, <2>2, <2>3, <2>4 DEF WillKnow
  <2>5. ASSUME NEW j \in 1 .. Len(chats'[u].log), chats'[u].log[j] = chats'[v].log[q]
        PROVE  WillKnow(v, p, i)'
    <3>1. chats'[u].log[j] = chats[v].log[q] /\ chats'[u].log[j][1] = v /\ u # v
      BY <1>5, <2>2, <2>5, OtherIs
    <3>2. ~(j \in 1 .. Len(chats[u].log) /\ chats'[u].log[j] = chats[u].log[j])
      BY <1>5, <3>1 DEF Lacks
    <3>3. chats'[u].log[j] # <<u, sent[u] + 1>>
      BY <3>1
    <3>4. PICK args : Taken(chats[u], args, Len(args), chats'[u])
                      /\ j \in Len(chats[u].log) + 1 .. Len(chats'[u].log)
      BY <1>2, <3>2, <3>3, NewMessages
    <3>5. Len(chats'[u].log) # Len(chats[u].log)
      BY <1>1, <3>4
    <3>6. chats'[u].read_by_them = Len(chats'[u].log)
      BY <3>4, <3>5 DEF Taken
    <3>7. i <= chats'[u].read_by_them
      BY <1>1, <3>6
    <3> QED BY <3>7 DEF WillKnow
  <2> QED BY <2>2, <2>4, <2>5 DEF Lacks
<1> QED BY <1>3, <1>4, <1>5 DEF WillKnow

\* What is read the other user knows, or will know.
LEMMA ReadStaysTold ==
    ASSUME Typed, Typed', Good, cleared' = {}, refused = {}, NEW v \in Users, QueueStep(v),
           NEW u \in Users, Other(v) = u, Other(u) = v, ReadsStep(u), ReadsStep(v),
           FromHome(u), FromHome(v), BatchesPointHome(u), BatchesPointHome(v),
           UnreadIsListed(v), UnreadIsTrue(v), ReadIsTold(v)
    PROVE  ReadIsTold(v)'
<1> SUFFICES ASSUME NEW p \in 1 .. Len(chats'[v].log), NEW i \in 1 .. Len(chats'[u].log),
                    p <= chats'[v].read_by_me, chats'[v].log[p] = chats'[u].log[i],
                    chats'[v].log[p][1] = u
             PROVE  WillKnow(v, p, i)'
  BY DEF ReadIsTold
<1>1. Step /\ u # v
  BY OtherIs DEF Good
<1>2. p \in 1 .. Len(chats[v].log) /\ chats'[v].log[p] = chats[v].log[p]
  <2>1. CASE chats'[v].log[p] = <<v, sent[v] + 1>>
    BY <1>1, <2>1
  <2>2. ASSUME NEW args, Taken(chats[v], args, Len(args), chats'[v]),
               p \in Len(chats[v].log) + 1 .. Len(chats'[v].log)
        PROVE  FALSE
    <3>1. chats'[v].read_by_me = chats[v].read_by_me
      BY <2>2 DEF Taken
    <3> QED BY <2>2, <3>1, PlacesAre
  <2> QED BY <1>1, <2>1, <2>2, NewMessages
<1>3. i \in 1 .. Len(chats[u].log) /\ chats[u].log[i] = chats[v].log[p]
  <2>1. PICK j \in 1 .. Len(chats[u].log) : chats[u].log[j] = chats[v].log[p]
    BY <1>2 DEF FromHome
  <2>2. j \in 1 .. Len(chats'[u].log) /\ chats'[u].log[j] = chats'[u].log[i]
    BY <1>2, <2>1, PlacesAre
  <2>3. j = i
    BY <2>2, PlacesAre
  <2> QED BY <2>1, <2>3
<1>4. CASE p <= chats[v].read_by_me
  <2>1. WillKnow(v, p, i)
    BY <1>2, <1>3, <1>4 DEF ReadIsTold
  <2> QED BY <1>2, <1>3, <2>1, KnowledgeStays
<1>5. CASE p > chats[v].read_by_me
  <2>1. chats'[v].read_by_me # chats[v].read_by_me
    BY <1>5, PlacesAre
  <2>2. CASE chats'[v].log = Append(chats[v].log, <<v, sent[v] + 1>>)
    <3> DEFINE n == Len(chats[v].log)
               m == <<v, sent[v] + 1>>
    <3>1. chats[v].log \in Seq(Messages) /\ n \in Nat /\ m \in Messages /\ m[1] = v
      BY CopiesAre DEF Messages
    <3>2. \A j \in 1 .. Len(chats'[u].log) : chats'[u].log[j] # m
      BY KnownAreSent
    <3> HIDE DEF m
    <3>3. Len(chats'[v].log) = n + 1 /\ chats'[v].log[n + 1] = m
      BY <2>2, <3>1 DEF m
    <3>4. n + 1 \in p + 1 .. Len(chats'[v].log)
      BY <1>2, <3>1, <3>3
    <3> HIDE DEF n
    <3> QED BY <3>1, <3>2, <3>3, <3>4 DEF WillKnow, Lacks
  <2>3. ASSUME NEW t \in Nat, ReadsTo(v, t) PROVE WillKnow(v, p, i)'
    <3>1. PICK e \in chats[v].unread : e.ours = p
      BY <1>2, <1>5 DEF UnreadIsListed
    <3>2. e.theirs \in 1 .. Len(chats[u].log) /\ chats[v].log[p] = chats[u].log[e.theirs]
      BY <3>1 DEF UnreadIsTrue
    <3>3. e.theirs = i
      BY <1>3, <3>2, PlacesAre
    <3>4. i <= t /\ t # 0
      BY <1>3, <2>3, <3>1, <3>3 DEF ReadsTo
    <3>5. t \in Receipts(v)'
      BY <2>3, <3>4 DEF ReadsTo
    <3> QED BY <3>4, <3>5 DEF WillKnow
  <2> QED BY <2>1, <2>2, <2>3 DEF ReadsStep
<1> QED BY <1>2, <1>4, <1>5, PlacesAre

-----------------------------------------------------------------------------
(* When all is quiet the copies agree *)

\* What is so while no copy is deleted.
UpdatesAgree == \A u \in Users : \A m \in Messages : m[1] = u => Agreed(u, m)
ReadsAgree ==
    \A v \in Users : FromHome(v) /\ (refused = {} => UnreadIsListed(v) /\ ReadIsTold(v))
QuietInv ==
    ReadInv /\ (cleared = {} => Shaped /\ RightDeletes /\ UpdatesAgree /\ ReadsAgree)

\* The invariant is kept: on changes,
LEMMA UpdatesStayAgreed ==
    ASSUME Typed, RightDeletes, UpdatesAgree, Tells
    PROVE  RightDeletes' /\ UpdatesAgree'
<1>1. ASSUME NEW u \in Users, NEW m \in Messages, m[1] = u
      PROVE  DeletedByTheRight(u, m)' /\ Agreed(u, m)'
  <2>1. DeletedByTheRight(u, m) /\ Agreed(u, m) /\ UpdateStep(u, m)
    BY <1>1 DEF RightDeletes, UpdatesAgree, Tells
  <2> QED BY <2>1, DeletedByTheRightStays, AgreedStays
<1> QED BY <1>1 DEF RightDeletes, UpdatesAgree, Messages

\* and on what is read.
LEMMA ReadsStayAgreed ==
    ASSUME ReadInv, Typed', Good, cleared' = {}, ReadsAgree, Tells
    PROVE  ReadsAgree'
<1>1. Typed /\ OrderInv /\ cleared = {} /\ (refused' = {} => refused = {})
  BY DEF ReadInv, OrderInv, LossInv, Good, Step
<1> SUFFICES ASSUME NEW v \in Users
             PROVE  FromHome(v)' /\ (refused' = {} => UnreadIsListed(v)' /\ ReadIsTold(v)')
  BY DEF ReadsAgree
<1>2. PICK u \in Users : Other(v) = u /\ Other(u) = v
  BY OtherIs
<1>3. /\ BatchesPointHome(u) /\ BatchesPointHome(v) /\ UnreadIsTrue(v)
      /\ FromHome(u) /\ FromHome(v)
      /\ QueueStep(v) /\ ReadsStep(u) /\ ReadsStep(v)
  BY <1>1 DEF ReadInv, ReadsAgree, Tells
<1>4. FromHome(v)'
  BY <1>1, <1>2, <1>3, FromHomeStays
<1>5. ASSUME refused' = {} PROVE UnreadIsListed(v)' /\ ReadIsTold(v)'
  <2>1. refused = {} /\ UnreadIsListed(v) /\ ReadIsTold(v)
    BY <1>1, <1>5 DEF ReadsAgree
  <2> QED BY <1>1, <1>2, <1>3, <2>1, UnreadStaysListed, ReadStaysTold
<1> QED BY <1>4, <1>5

\* The invariant is inductive,
LEMMA QuietStays ==
    ASSUME QuietInv, [Next]_vars
    PROVE  QuietInv'
<1>1. ReadInv /\ ReadInv' /\ Typed /\ Typed' /\ Good
  <2>1. ReadInv /\ ReadInv'
    BY ReadStep DEF QuietInv
  <2>2. Typed /\ Typed'
    BY <2>1 DEF ReadInv, OrderInv, LossInv
  <2> QED BY <2>1, <2>2, NextSteps
<1>2. ASSUME cleared' = {} PROVE Shaped' /\ RightDeletes' /\ UpdatesAgree' /\ ReadsAgree'
  <2>1. cleared = {}
    BY <1>1, <1>2 DEF Good, Step
  <2>2. Shaped /\ RightDeletes /\ UpdatesAgree /\ ReadsAgree
    BY <2>1 DEF QuietInv
  <2>3. Tells
    BY <1>1, <1>2, <2>2, EveryStepTells
  <2>4. Shaped'
    BY <1>1, <2>2, <2>3, ShapedStays DEF Tells
  <2> QED BY <1>1, <1>2, <2>2, <2>3, <2>4, UpdatesStayAgreed, ReadsStayAgreed
<1> QED BY <1>1, <1>2 DEF QuietInv

\* it holds at first,
LEMMA QuietInit == Init => QuietInv
<1> SUFFICES ASSUME Init PROVE QuietInv
  OBVIOUS
<1>1. ASSUME NEW u \in Users
      PROVE  /\ chats[u].log = <<>> /\ calls[u] = <<>> /\ DOMAIN resends[u] = {}
  BY EmptyBagIs DEF Init, NewChat
<1> HIDE DEF Init
<1>2. Shaped
  BY <1>1 DEF Shaped
<1>3. ASSUME NEW u \in Users, NEW m PROVE DeletedByTheRight(u, m) /\ Agreed(u, m)
  <2> DEFINE v == Other(u)
  <2>1. v \in Users
    BY OtherIs
  <2>2. Content(u, m) = Original /\ Content(v, m) = Original
    BY <1>1, <2>1 DEF Content, ContentIn, Has, ToSet
  <2>3. Original.version = 0 /\ Original.deleted_by = {}
    BY DEF Original
  <2>4. Len(calls[u]) = 0 /\ Late(u, m) = 0
    BY <1>1 DEF Late, CountOf
  <2>5. EditsAgree(m, calls[u], 0, 0)
    BY <2>4 DEF EditsAgree
  <2>6. DeletesAgree(u, m, calls[u], 0, {}, {})
    BY <2>4 DEF DeletesAgree, Alternate, DeletedBefore
  <2> QED BY <2>2, <2>3, <2>4, <2>5, <2>6 DEF DeletedByTheRight, Agreed
<1>4. ASSUME NEW v \in Users PROVE FromHome(v) /\ UnreadIsListed(v) /\ ReadIsTold(v)
  <2>1. Len(chats[v].log) = 0
    BY <1>1
  <2> QED BY <2>1 DEF FromHome, UnreadIsListed, ReadIsTold
<1> QED BY <1>2, <1>3, <1>4, ReadInit DEF QuietInv, RightDeletes, UpdatesAgree, ReadsAgree

\* With nothing on its way, what is left of it.
LEMMA QuietIs ==
    ASSUME Quiet, NEW u \in Users
    PROVE  /\ Len(calls[u]) = 0 /\ DOMAIN resends[u] = {} /\ Receipts(u) = {}
           /\ \A m : ~InHand(u, m) /\ Late(u, m) = 0 /\ ~Undoes(u, m)
<1>1. /\ calls[u] = <<>> /\ resends[u] = EmptyBag /\ retries[u] = EmptyBag
      /\ answers[u] = EmptyBag /\ verifying[Other(u)] = EmptyBag
  BY OtherIs DEF Quiet
<1>2. Len(calls[u]) = 0 /\ DOMAIN calls[u] = {} /\ ToSet(calls[u]) = {}
  BY <1>1 DEF ToSet
<1>3. /\ DOMAIN resends[u] = {} /\ DOMAIN answers[u] = {} /\ DOMAIN verifying[Other(u)] = {}
  BY <1>1, EmptyBagIs
<1>4. Receipts(u) = {}
  BY <1>2, <1>3 DEF Receipts
<1>5. \A m : ~InHand(u, m)
  BY <1>1, <1>2, <1>3 DEF InHand, BagToSet
<1>6. \A m : Late(u, m) = 0 /\ ~Undoes(u, m)
  BY <1>2, <1>3 DEF Late, CountOf, Undoes
<1> QED BY <1>2, <1>3, <1>4, <1>5, <1>6

\* and the copies agree when nothing is on its way: on the messages,
LEMMA QuietOnMessages ==
    ASSUME QuietInv, Quiet, cleared \cup refused \cup abandoned = {}, NEW u \in Users,
           NEW m \in ToSet(chats[u].log)
    PROVE  m \in ToSet(chats[Other(u)].log)
<1>1. Typed /\ NothingLost /\ FromHome(u) /\ cleared = {} /\ refused = {} /\ abandoned = {}
  BY LossImplies DEF QuietInv, ReadInv, OrderInv, LossInv, ReadsAgree
<1>2. PICK p \in 1 .. Len(chats[u].log) : chats[u].log[p] = m
  BY <1>1, CopiesAre DEF ToSet
<1>3. Other(u) \in Users /\ (m[1] = u \/ m[1] = Other(u))
  BY <1>1, <1>2, CopiesAre, OtherIs DEF Messages
<1>4. CASE m[1] = u
  <2>1. u \in Users \ cleared /\ SenderOf(m) = u /\ Other(u) \notin cleared
    BY <1>1, <1>4 DEF SenderOf
  <2>2. ~InHand(u, m)
    BY QuietIs
  <2>3. Has(chats[Other(u)], m)
    BY <1>1, <2>1, <2>2 DEF NothingLost
  <2> QED BY <2>3 DEF Has
<1>5. CASE m[1] = Other(u)
  <2>1. PICK i \in 1 .. Len(chats[Other(u)].log) : chats[Other(u)].log[i] = m
    BY <1>1, <1>2, <1>5 DEF FromHome
  <2> QED BY <1>1, <1>3, <2>1, CopiesAre DEF ToSet
<1> QED BY <1>3, <1>4, <1>5

\* on what is read,
LEMMA QuietOnReads ==
    ASSUME QuietInv, Quiet, cleared \cup refused \cup abandoned = {}, NEW u \in Users,
           NEW v \in Users, Other(u) = v, Other(v) = u,
           NEW m \in ToSet(chats[u].log), m[1] = u, Index(chats[v], m) <= chats[v].read_by_me
    PROVE  Index(chats[u], m) <= chats[u].read_by_them
<1>1. Typed /\ ReadIsTold(v) /\ cleared = {} /\ refused = {}
  BY DEF QuietInv, ReadInv, OrderInv, LossInv, ReadsAgree
<1>2. PICK i \in 1 .. Len(chats[u].log) : chats[u].log[i] = m
  BY <1>1, CopiesAre DEF ToSet
<1>3. PICK p \in 1 .. Len(chats[v].log) : chats[v].log[p] = m
  <2>1. m \in ToSet(chats[v].log)
    BY QuietOnMessages
  <2> QED BY <1>1, <2>1, CopiesAre DEF ToSet
<1>4. Index(chats[u], m) = i /\ Index(chats[v], m) = p
  BY <1>1, <1>2, <1>3, IndexIs DEF Typed, CopiesTyped
<1>5. WillKnow(v, p, i)
  BY <1>1, <1>2, <1>3, <1>4 DEF ReadIsTold
<1>6. Receipts(v) = {}
  BY QuietIs
<1>7. ASSUME NEW q \in p + 1 .. Len(chats[v].log), Lacks(u, chats[v].log[q]) PROVE FALSE
  <2>1. q \in 1 .. Len(chats[v].log)
    BY <1>1, CopiesAre
  <2>2. chats[v].log[q] \in ToSet(chats[v].log)
    BY <1>1, <2>1, CopiesAre DEF ToSet
  <2>3. chats[v].log[q] \in ToSet(chats[u].log)
    BY <2>2, QuietOnMessages
  <2> QED BY <1>1, <1>7, <2>3, CopiesAre DEF ToSet, Lacks
<1> QED BY <1>4, <1>5, <1>6, <1>7 DEF WillKnow

\* and on the content.
LEMMA QuietOnContent ==
    ASSUME QuietInv, Quiet, cleared \cup refused \cup abandoned = {}, NEW u \in Users,
           NEW v \in Users, Other(u) = v, Other(v) = u,
           NEW m \in ToSet(chats[u].log), m[1] = u, m \notin missed,
           chats[v].content[m].deleted_by # {v}
    PROVE  /\ chats[u].content[m].deleted_by \cap {u} = chats[v].content[m].deleted_by
           /\ chats[u].content[m].version = chats[v].content[m].version
<1> DEFINE mine == chats[u].content[m]
           theirs == chats[v].content[m]
           q == calls[u]
<1>1. Typed /\ RightDeletes /\ UpdatesAgree
  BY DEF QuietInv, ReadInv, OrderInv, LossInv
<1>2. m \in Messages
  BY <1>1, CopiesAre DEF ToSet
<1>3. m \in ToSet(chats[v].log)
  BY QuietOnMessages
<1>4. Content(u, m) = mine /\ Content(v, m) = theirs
  BY <1>3 DEF Content, ContentIn, Has
<1>5. DeletedByTheRight(u, m) /\ Agreed(u, m)
  BY <1>1, <1>2 DEF RightDeletes, UpdatesAgree
<1>6. Len(q) = 0 /\ Late(u, m) = 0 /\ ~Undoes(v, m)
  BY QuietIs
<1> HIDE DEF mine, theirs, q
<1>7. /\ EditsAgree(m, q, mine.version, theirs.version)
      /\ DeletesAgree(u, m, q, 0, mine.deleted_by, theirs.deleted_by)
  BY <1>4, <1>5, <1>6 DEF Agreed, q
<1>8. mine.version = theirs.version
  BY <1>6, <1>7 DEF EditsAgree
<1>9. DeletedBefore(q, m, theirs.deleted_by = {u}, Len(q) + 1) <=> theirs.deleted_by = {u}
  BY <1>6 DEF DeletedBefore, Untouched
<1>10. ~Hopeless(q, m, theirs.deleted_by = {u})
  BY <1>6 DEF Hopeless
<1>11. mine.deleted_by = {u} <=> theirs.deleted_by = {u}
  BY <1>7, <1>9, <1>10 DEF DeletesAgree, theirs
<1>12. mine.deleted_by \in {{}, {u}} /\ theirs.deleted_by \in {{}, {u}}
  BY <1>4, <1>5 DEF DeletedByTheRight, theirs
<1> QED BY <1>8, <1>11, <1>12 DEF mine, theirs

\* Together:
LEMMA QuietImplies == QuietInv => QuietCopiesAgree
<1> SUFFICES ASSUME QuietInv, Quiet, cleared \cup refused \cup abandoned = {}, NEW u \in Users
             PROVE  LET mine == chats[u]
                        theirs == chats[Other(u)]
                    IN  /\ ToSet(mine.log) = ToSet(theirs.log)
                        /\ \A m \in ToSet(mine.log) : SenderOf(m) = u =>
                              /\ Index(theirs, m) <= theirs.read_by_me =>
                                    Index(mine, m) <= mine.read_by_them
                              /\ m \notin missed /\ theirs.content[m].deleted_by # {Other(u)} =>
                                    /\ mine.content[m].deleted_by \cap {u}
                                         = theirs.content[m].deleted_by
                                    /\ mine.content[m].version = theirs.content[m].version
  BY DEF QuietCopiesAgree
<1>1. PICK v \in Users : Other(u) = v /\ Other(v) = u
  BY OtherIs
<1>2. ToSet(chats[u].log) = ToSet(chats[v].log)
  BY <1>1, QuietOnMessages
<1>3. ASSUME NEW m \in ToSet(chats[u].log), m[1] = u
      PROVE  /\ Index(chats[v], m) <= chats[v].read_by_me =>
                   Index(chats[u], m) <= chats[u].read_by_them
             /\ m \notin missed /\ chats[v].content[m].deleted_by # {v} =>
                   /\ chats[u].content[m].deleted_by \cap {u} = chats[v].content[m].deleted_by
                   /\ chats[u].content[m].version = chats[v].content[m].version
  BY <1>1, <1>3, QuietOnReads, QuietOnContent
<1> QED BY <1>1, <1>2, <1>3 DEF SenderOf

\* When nothing is on its way between the canisters, no copy was deleted, no message was
\* refused and sending was never given up, the two copies have the same messages, know
\* the same of what has been read, and agree on the content of every message whose edits,
\* deletes and undeletes all found it (c2c_send_messages, c2c_mark_read, c2c_edit_message,
\* c2c_delete_messages, c2c_undelete_messages and the fire-and-forget handler).
THEOREM QuietCopiesStayTogether == Spec => []QuietCopiesAgree
BY QuietInit, QuietStays, QuietImplies, PTL DEF Spec
=============================================================================
