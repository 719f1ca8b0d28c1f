--------------------------- MODULE ConsoleProofs ----------------------------
(***************************************************************************)
(* The client's files and its interactive selection: proofs for any number *)
(* of processes and commands, any tenants, lengths of documents and names  *)
(* of any number of lines.                                                 *)
(***************************************************************************)
EXTENDS Console, FiniteSetTheorems, WellFoundedInduction, TLAPS

-----------------------------------------------------------------------------
(* The inductive invariant: one process *)

\* Which step may come after which in a command.
Follows(a, b) ==
    \/ a = "load" /\ b = "connect"
    \/ a = "connect" /\ b \in KeyRpc \cup {"CreateTenant", "GetTenant", "ListTenants", "GetAction"}
    \/ a = "GetAction" /\ b = "GetKey"
    \/ a = "ListTenants" /\ b = "choose"
    \/ a \in {"GetTenant", "choose", "verify", "check"} /\ b = "open"
    \/ a = "open" /\ b = "write"
    \/ a = "write" /\ b = "rename"

\* What is left of a command; a save is never left half way.
Script(s) ==
    /\ s \in Seq(StepName)
    /\ \A i \in 1 .. Len(s) - 1 : Follows(s[i], s[i + 1])
    /\ s # <<>> => s[Len(s)] \notin {"load", "connect", "choose", "verify", "check", "open", "write"}

\* The next request of the process, perhaps after connecting, is about keys.
AboutKeys(s) ==
    /\ s # <<>>
    /\ \/ Head(s) \in KeyRpc
       \/ Head(s) = "connect" /\ Tail(s) # <<>> /\ Head(Tail(s)) \in KeyRpc

Saves(p) == At(p, "open") \/ At(p, "write") \/ At(p, "rename")

\* The tenant or token the process works on, and the tenant its requests name.
WorksOn(p) ==
    /\ Saves(p) => doc[p] \in tenants \cup Token
    /\ At(p, "verify") \/ At(p, "check") => doc[p] \in Token
    /\ AboutKeys(todo[p]) => asked[p] \in tenants \cup {Typed}
    /\ fd[p] # 0 <=> At(p, "write")

\* The selection, and what it has left behind for the save.
ChoiceInv(p) ==
    /\ rows[p] = <<>> => cursor[p] = 0 /\ offset[p] = 0
    /\ rows[p] # <<>> => At(p, "choose") \/ Saves(p)
    /\ At(p, "choose") =>
         /\ rows[p] # <<>>
         /\ offset[p] <= cursor[p] /\ cursor[p] < offset[p] + viewHeight(p)
         /\ offset[p] + viewHeight(p) <= Len(items(p))
    /\ rows[p] # <<>> /\ ~At(p, "choose") =>
         cursor[p] < Len(rows[p]) /\ doc[p] = rows[p][cursor[p] + 1]

-----------------------------------------------------------------------------
(* The inductive invariant: the files *)

\* The inodes that stand for a file: under its two names, and open for it.
Inodes(f) == ({dir[path(f)], dir[tmpPath(f)]} \cup {fd[p] : p \in Saving(f)}) \ {0}

Whole(d) == [doc |-> d, len |-> Size[d]]

\* A save that is alone finds its own document under the temporary name.
AloneInv(p) ==
    LET f == file(p)
    IN  /\ p \in Saving(f) /\ alone[p] =>
             /\ Saving(f) = {p} /\ dir[tmpPath(f)] # 0
             /\ At(p, "write") => fd[p] = dir[tmpPath(f)] /\ data[fd[p]] = Nothing
             /\ At(p, "rename") => data[dir[tmpPath(f)]] = Whole(doc[p])

\* The two files share no inode, a name stands for one inode of its own, and a
\* file that was saved cleanly is not written to.
FileInv(f) ==
    /\ \A g \in File : g # f => Inodes(f) \cap Inodes(g) = {}
    /\ dir[path(f)] # 0 => dir[path(f)] # dir[tmpPath(f)]
    /\ \A i \in Inodes(f) : data[i].doc \in {None} \cup IF f = "state" THEN tenants ELSE Token
    /\ clean[f] =>
         /\ Parsed(f) = meant[f]
         /\ dir[path(f)] # 0 => \A p \in Process : fd[p] # dir[path(f)]

\* What holds of every process, and what holds of the disk.
Mine(p) == Script(todo[p]) /\ WorksOn(p) /\ ChoiceInv(p)
DiskInv == (\A p \in Process : AloneInv(p)) /\ (\A f \in File : FileInv(f))

ConsoleInv == TypeOK /\ (\A p \in Process : Mine(p)) /\ DiskInv

-----------------------------------------------------------------------------
(* Numbers, and sequences of sequences *)

\* A set of natural numbers that is not empty has a least element.
LEMMA LeastNat ==
    ASSUME NEW T \in SUBSET Nat, T # {}
    PROVE  \E x \in T : \A y \in T : x <= y
<1> DEFINE R == OpToRel(<, Nat)
<1>1. IsWellFoundedOn(R, Nat)
  BY NatLessThanWellFounded, Zenon
<1>2. \A x, y \in Nat : x < y => <<x, y>> \in R
  BY Zenon DEF OpToRel
<1> HIDE DEF R
<1>3. PICK x \in T : \A y \in T : ~ (<<y, x>> \in R)
  BY <1>1, WFMin, Zenon
<1>4. \A y \in T : ~ (y < x)
  BY <1>2, <1>3, Zenon
<1> QED BY <1>3, <1>4

\* What holds of 0 and of the successor of each number it holds of holds up to n.
LEMMA Upwards ==
    ASSUME NEW n \in Nat, NEW S,
           0 \in S,
           \A i \in 0 .. n - 1 : i \in S => i + 1 \in S
    PROVE  0 .. n \subseteq S
<1> SUFFICES ASSUME (0 .. n) \ S # {} PROVE FALSE OBVIOUS
<1>1. PICK x \in (0 .. n) \ S : \A y \in (0 .. n) \ S : x <= y
  <2> DEFINE T == (0 .. n) \ S
  <2>1. T \in SUBSET Nat /\ T # {} OBVIOUS
  <2> HIDE DEF T
  <2>2. \E x \in T : \A y \in T : x <= y BY <2>1, LeastNat, Zenon
  <2> QED BY <2>2, Zenon DEF T
<1>2. x # 0 /\ x - 1 \in 0 .. n - 1 BY <1>1
<1>3. x - 1 \in S BY <1>1, <1>2
<1> QED BY <1>1, <1>2, <1>3

\* The lines of one row.
Row(t) == [j \in 1 .. Lines[t] |-> t]

\* f[i] is what is printed of the first i rows, up to n.
Prints(f, r, n) == f[0] = <<>> /\ \A i \in 1 .. n : f[i] = f[i - 1] \o Row(r[i])

\* There is something after the first of several elements.
LEMMA MoreThanOne ==
    ASSUME NEW S, NEW s \in Seq(S), s # <<>>, Len(s) # 1
    PROVE  Tail(s) # <<>>
<1>1. Len(s) \in Nat \ {0, 1} OBVIOUS
<1>2. Len(Tail(s)) = Len(s) - 1 OBVIOUS
<1>3. Len(Tail(s)) # 0 BY <1>1, <1>2
<1>4. Len(<<>>) = 0 OBVIOUS
<1> QED BY <1>3, <1>4, Zenon

\* A row prints as many lines as Lines says, the first of them the tenant's.
LEMMA RowType ==
    ASSUME NEW t \in TenantId
    PROVE  Row(t) \in Seq(TenantId) /\ Len(Row(t)) \in Nat \ {0} /\ Len(Row(t)) = Lines[t] /\ Row(t)[1] = t
<1>1. PICK l \in Nat \ {0} : l = Lines[t]
  BY ConsoleAssumption, Zenon
<1>2. LET x == [j \in 1 .. l |-> t] IN x \in Seq(TenantId) /\ Len(x) = l /\ x[1] = t
  OBVIOUS
<1> QED BY <1>1, <1>2, Zenon DEF Row

\* The rows can be printed one after the other, and renderRows is what has been
\* printed in the end: the function it recurs on exists.
LEMMA Printed ==
    ASSUME NEW r \in Seq(TenantId), NEW n \in Nat, n = Len(r)
    PROVE  \E f \in [0 .. n -> Seq(TenantId)] : Prints(f, r, n) /\ renderRows(r) = f[n]
<1>0. \A i \in 1 .. n : r[i] \in TenantId
  OBVIOUS
<1>1. ASSUME NEW i \in 1 .. n PROVE Row(r[i]) \in Seq(TenantId)
  BY <1>0, RowType, Zenon
<1> DEFINE G == {m \in 0 .. n : \E g \in [0 .. m -> Seq(TenantId)] : Prints(g, r, m)}
<1>2. 0 \in G
  <2> DEFINE g == [i \in 0 .. 0 |-> <<>>]
  <2>1. g \in [0 .. 0 -> Seq(TenantId)] /\ g[0] = <<>> /\ 1 .. 0 = {} OBVIOUS
  <2> HIDE DEF g
  <2>2. Prints(g, r, 0) BY <2>1, Zenon DEF Prints
  <2>3. 0 \in 0 .. n OBVIOUS
  <2> QED BY <2>1, <2>2, <2>3, Zenon
<1>3. ASSUME NEW m \in 0 .. n - 1, m \in G PROVE m + 1 \in G
  <2>1. PICK g \in [0 .. m -> Seq(TenantId)] : Prints(g, r, m) BY <1>3, Zenon
  <2> DEFINE h == [i \in 0 .. m + 1 |-> IF i = m + 1 THEN g[m] \o Row(r[m + 1]) ELSE g[i]]
  <2>2. h \in [0 .. m + 1 -> Seq(TenantId)]
    <3>1. m + 1 \in 1 .. n /\ g[m] \in Seq(TenantId) OBVIOUS
    <3>2. g[m] \o Row(r[m + 1]) \in Seq(TenantId) BY <1>1, <3>1
    <3> QED BY <3>2
  <2>3. ASSUME NEW i \in 1 .. m + 1 PROVE h[i] = h[i - 1] \o Row(r[i])
    <3>1. CASE i = m + 1
      <4>1. h[i] = g[m] \o Row(r[m + 1]) BY <3>1
      <4>2. i - 1 = m /\ m \in 0 .. m + 1 /\ m # m + 1 BY <3>1
      <4>3. h[m] = g[m] BY <4>2, Zenon
      <4> HIDE DEF h
      <4> QED BY <3>1, <4>1, <4>2, <4>3, Zenon
    <3>2. CASE i \in 1 .. m
      <4>1. h[i] = g[i] BY <3>2
      <4>2. i - 1 \in 0 .. m + 1 /\ i - 1 # m + 1 BY <3>2
      <4>3. h[i - 1] = g[i - 1] BY <4>2, Zenon
      <4>4. g[i] = g[i - 1] \o Row(r[i]) BY <3>2, <2>1, Zenon DEF Prints
      <4> HIDE DEF h
      <4> QED BY <4>1, <4>3, <4>4, Zenon
    <3>3. i = m + 1 \/ i \in 1 .. m OBVIOUS
    <3> QED BY <3>1, <3>2, <3>3, Zenon
  <2>4. h[0] = <<>> BY <2>1 DEF Prints
  <2>5. m + 1 \in 0 .. n OBVIOUS
  <2> HIDE DEF h
  <2>6. Prints(h, r, m + 1) BY <2>3, <2>4, Zenon DEF Prints
  <2> QED BY <2>2, <2>5, <2>6, Zenon
<1>4. n \in G
  <2> HIDE DEF G
  <2>1. 0 .. n \subseteq G BY <1>2, <1>3, Upwards, Zenon
  <2> QED BY <2>1
<1>5. PICK g \in [0 .. n -> Seq(TenantId)] : Prints(g, r, n)
  BY <1>4, Zenon
<1> DEFINE E(f) == f = [i \in 0 .. n |-> IF i = 0 THEN <<>> ELSE f[i - 1] \o Row(r[i])]
           F == CHOOSE f : E(f)
<1>6. E(g)
  <2>1. ASSUME NEW i \in 0 .. n PROVE g[i] = IF i = 0 THEN <<>> ELSE g[i - 1] \o Row(r[i])
    <3>1. i = 0 \/ i \in 1 .. n OBVIOUS
    <3>2. i \in 1 .. n => i # 0 OBVIOUS
    <3> QED BY <1>5, <3>1, <3>2, Zenon DEF Prints
  <2> QED BY <2>1, Zenon
<1>7. E(F)
  <2> HIDE DEF E
  <2> QED BY <1>6, Zenon
<1>8. renderRows(r) = F[n]
  BY Zenon DEF renderRows, Row
<1> HIDE DEF F
<1>9. Prints(F, r, n)
  <2>1. \A i \in 0 .. n : F[i] = IF i = 0 THEN <<>> ELSE F[i - 1] \o Row(r[i]) BY <1>7, Zenon
  <2>2. \A i \in 1 .. n : i \in 0 .. n /\ i # 0 OBVIOUS
  <2>3. 0 \in 0 .. n OBVIOUS
  <2> HIDE DEF E
  <2> QED BY <2>1, <2>2, <2>3, Zenon DEF Prints
<1>10. F \in [0 .. n -> Seq(TenantId)]
  <2> DEFINE T == {i \in 0 .. n : F[i] \in Seq(TenantId)}
  <2>1. 0 \in T
    <3>1. F[0] = <<>> /\ 0 \in 0 .. n BY <1>9 DEF Prints
    <3>2. <<>> \in Seq(TenantId) OBVIOUS
    <3> HIDE DEF E
    <3> QED BY <3>1, <3>2, Zenon
  <2>2. ASSUME NEW i \in 0 .. n - 1, i \in T PROVE i + 1 \in T
    <3>1. i + 1 \in 0 .. n /\ i + 1 \in 1 .. n /\ (i + 1) - 1 = i OBVIOUS
    <3>2. F[i + 1] = F[i] \o Row(r[i + 1]) BY <1>9, <3>1, Zenon DEF Prints
    <3>3. F[i] \in Seq(TenantId) /\ Row(r[i + 1]) \in Seq(TenantId) BY <1>1, <2>2, <3>1, Zenon
    <3>4. F[i] \o Row(r[i + 1]) \in Seq(TenantId) BY <3>3
    <3> QED BY <3>1, <3>2, <3>4, Zenon
  <2>3. 0 .. n \subseteq T
    <3> HIDE DEF T
    <3> QED BY <2>1, <2>2, Upwards, Zenon
  <2>4. \A i \in 0 .. n : F[i] \in Seq(TenantId) BY <2>3, Zenon
  <2> QED BY <2>4, <1>7, Zenon
<1> QED BY <1>8, <1>9, <1>10, Zenon

\* What renderRows makes of a list of tenants: at least one line for each, and
\* the line of a tenant where it is in the list if no name above takes more.
LEMMA Rendered ==
    \A r \in Seq(TenantId) :
        /\ Len(renderRows(r)) \in Nat /\ Len(renderRows(r)) >= Len(r)
        /\ \A c \in Nat : c < Len(r) /\ (\A i \in 1 .. c : Lines[r[i]] = 1)
             => renderRows(r)[c + 1] = r[c + 1]
<1> SUFFICES ASSUME NEW r \in Seq(TenantId)
             PROVE  /\ Len(renderRows(r)) \in Nat /\ Len(renderRows(r)) >= Len(r)
                    /\ \A c \in Nat : c < Len(r) /\ (\A i \in 1 .. c : Lines[r[i]] = 1)
                         => renderRows(r)[c + 1] = r[c + 1]
  BY Zenon
<1>1. PICK n \in Nat : n = Len(r)
  OBVIOUS
<1>2. PICK f \in [0 .. n -> Seq(TenantId)] : Prints(f, r, n) /\ renderRows(r) = f[n]
  BY <1>1, Printed, Zenon
<1>3. \A i \in 1 .. n : r[i] \in TenantId
  BY <1>1
<1>4. ASSUME NEW i \in 0 .. n - 1
      PROVE  /\ i + 1 \in 0 .. n /\ r[i + 1] \in TenantId
             /\ f[i] \in Seq(TenantId) /\ f[i + 1] = f[i] \o Row(r[i + 1])
  <2>1. i + 1 \in 0 .. n /\ i \in 0 .. n /\ i + 1 \in 1 .. n /\ (i + 1) - 1 = i OBVIOUS
  <2>2. f[i + 1] = f[i] \o Row(r[i + 1]) BY <1>2, <2>1, Zenon DEF Prints
  <2> QED BY <1>3, <2>1, <2>2, Zenon
<1>5. Len(f[n]) >= n
  <2> DEFINE T == {i \in 0 .. n : Len(f[i]) >= i}
  <2>1. 0 \in T BY <1>2 DEF Prints
  <2>2. ASSUME NEW i \in 0 .. n - 1, i \in T PROVE i + 1 \in T
    <3>1. PICK a \in Seq(TenantId), t \in TenantId : a = f[i] /\ f[i + 1] = a \o Row(t) /\ Len(a) >= i
      BY <1>4, <2>2, Zenon
    <3>2. Row(t) \in Seq(TenantId) /\ Len(Row(t)) \in Nat \ {0} BY RowType, Zenon
    <3>3. Len(a \o Row(t)) >= i + 1 BY <3>1, <3>2
    <3> QED BY <1>4, <3>1, <3>3, Zenon
  <2>3. 0 .. n \subseteq T
    <3> HIDE DEF T
    <3> QED BY <2>1, <2>2, Upwards, Zenon
  <2> QED BY <2>3
<1>6. ASSUME NEW c \in Nat, c < n, \A i \in 1 .. c : Lines[r[i]] = 1
      PROVE  f[n][c + 1] = r[c + 1]
  <2> DEFINE Reaches(i, l) == IF i <= c THEN Len(l) = i ELSE c + 1 <= Len(l) /\ l[c + 1] = r[c + 1]
             T == {i \in 0 .. n : Reaches(i, f[i])}
  <2>1. 0 \in T BY <1>2 DEF Prints
  <2>2. ASSUME NEW i \in 0 .. n - 1, i \in T PROVE i + 1 \in T
    <3>1. PICK a \in Seq(TenantId), t \in TenantId :
             a = f[i] /\ t = r[i + 1] /\ f[i + 1] = a \o Row(t) /\ Reaches(i, a)
      BY <1>4, <2>2, Zenon
    <3>2. PICK b \in Seq(TenantId) : b = Row(t) /\ Len(b) \in Nat \ {0} /\ Len(b) = Lines[t] /\ b[1] = t
      BY RowType, Zenon
    <3>3. PICK l \in Seq(TenantId) : l = a \o b /\ f[i + 1] = l
      <4>1. a \o b \in Seq(TenantId) OBVIOUS
      <4> QED BY <3>1, <3>2, <4>1, Zenon
    <3>4. /\ Len(a) \in Nat /\ Len(l) = Len(a) + Len(b)
          /\ \A j \in 1 .. Len(a) : l[j] = a[j]
          /\ \A j \in 1 .. Len(b) : l[Len(a) + j] = b[j]
      BY <3>3
    <3>5. Reaches(i + 1, l)
      <4>1. CASE i + 1 <= c
        <5>1. Len(a) = i BY <3>1, <4>1
        <5>2. Len(b) = 1 BY <1>6, <3>1, <3>2, <4>1
        <5>3. Len(l) = i + 1 BY <3>4, <5>1, <5>2, Zenon
        <5> QED BY <4>1, <5>3, Zenon
      <4>2. CASE i = c
        <5>1. Len(a) = i /\ 1 \in 1 .. Len(b) BY <3>1, <3>2, <4>2
        <5>2. l[i + 1] = t BY <3>2, <3>4, <5>1, Zenon
        <5>3. ~(i + 1 <= c) /\ c + 1 <= Len(l) BY <3>2, <3>4, <4>2, <5>1
        <5> QED BY <3>1, <4>2, <5>2, <5>3, Zenon
      <4>3. CASE i > c
        <5>1. c + 1 <= Len(a) /\ a[c + 1] = r[c + 1] BY <3>1, <4>3
        <5>2. l[c + 1] = a[c + 1] BY <3>4, <5>1
        <5>3. ~(i + 1 <= c) /\ c + 1 <= Len(l) BY <3>2, <3>4, <4>3, <5>1
        <5> QED BY <5>1, <5>2, <5>3, Zenon
      <4>4. i + 1 <= c \/ i = c \/ i > c OBVIOUS
      <4> QED BY <4>1, <4>2, <4>3, <4>4, Zenon
    <3> HIDE DEF Reaches
    <3> QED BY <1>4, <3>3, <3>5, Zenon
  <2>3. 0 .. n \subseteq T
    <3> HIDE DEF T
    <3> QED BY <2>1, <2>2, Upwards, Zenon
  <2>4. Reaches(n, f[n]) BY <2>3
  <2> QED BY <1>6, <2>4
<1>7. Len(f[n]) \in Nat
  OBVIOUS
<1> QED BY <1>1, <1>2, <1>5, <1>6, <1>7, Zenon

-----------------------------------------------------------------------------
(* Commands *)

\* Every command is a sequence of steps as Script says, and those about keys
\* come to their request through loading the tenant, unless it was typed.
LEMMA Commands ==
    /\ \A c \in {getKeyCmd(TRUE), activateKeyCmd(TRUE)} :
         Script(c) /\ c # <<>> /\ Head(c) = "connect"
    /\ \A c \in {getKeyCmd(FALSE), activateKeyCmd(FALSE), announceKeyCmd} :
         Script(c) /\ c # <<>> /\ Head(c) = "load"
    /\ \A c \in {createTenantCmd, getTenantsCmd, selectTenantInteractive, getTenantCmd,
                 selectTenantCmd} \cup {actionStatusCmd(i) : i \in targetInfo} :
         Script(c) /\ c # <<>> /\ Head(c) = "connect" /\ ~AboutKeys(c)
    /\ Script(mtlsLoginCmd) /\ mtlsLoginCmd # <<>> /\ Head(mtlsLoginCmd) = "verify"
    /\ Script(noAuthLoginCmd) /\ noAuthLoginCmd # <<>> /\ Head(noAuthLoginCmd) = "check"
<1> USE DEF Script, Follows, KeyRpc, StepName
<1>1. Script(getKeyCmd(TRUE)) /\ getKeyCmd(TRUE) # <<>> /\ Head(getKeyCmd(TRUE)) = "connect"
  BY DEF getKeyCmd, tenantOf
<1>2. /\ Script(activateKeyCmd(TRUE)) /\ activateKeyCmd(TRUE) # <<>>
      /\ Head(activateKeyCmd(TRUE)) = "connect"
  BY DEF activateKeyCmd, tenantOf
<1>3. Script(getKeyCmd(FALSE)) /\ getKeyCmd(FALSE) # <<>> /\ Head(getKeyCmd(FALSE)) = "load"
  BY DEF getKeyCmd, tenantOf
<1>4. /\ Script(activateKeyCmd(FALSE)) /\ activateKeyCmd(FALSE) # <<>>
      /\ Head(activateKeyCmd(FALSE)) = "load"
  BY DEF activateKeyCmd, tenantOf
<1>5. Script(announceKeyCmd) /\ announceKeyCmd # <<>> /\ Head(announceKeyCmd) = "load"
  BY DEF announceKeyCmd
<1> DEFINE Other(c) == Script(c) /\ c # <<>> /\ Head(c) = "connect" /\ ~AboutKeys(c)
<1>6. Other(createTenantCmd)
  BY DEF createTenantCmd, AboutKeys
<1>7. Other(getTenantsCmd)
  BY DEF getTenantsCmd, AboutKeys
<1>8. Other(getTenantCmd)
  BY DEF getTenantCmd, AboutKeys
<1>9. Other(selectTenantCmd)
  BY DEF selectTenantCmd, Save, AboutKeys
<1>10. Other(selectTenantInteractive)
  BY DEF selectTenantInteractive, Save, AboutKeys
<1>11. Other(actionStatusCmd(<<>>))
  BY DEF actionStatusCmd, AboutKeys
<1>12. Other(actionStatusCmd(<<"GetKey">>))
  BY DEF actionStatusCmd, AboutKeys
<1>13. Script(mtlsLoginCmd) /\ mtlsLoginCmd # <<>> /\ Head(mtlsLoginCmd) = "verify"
  BY DEF mtlsLoginCmd, Save
<1>14. Script(noAuthLoginCmd) /\ noAuthLoginCmd # <<>> /\ Head(noAuthLoginCmd) = "check"
  BY DEF noAuthLoginCmd, Save
<1>15. \A c \in {createTenantCmd, getTenantsCmd, selectTenantInteractive, getTenantCmd,
                 selectTenantCmd} \cup {actionStatusCmd(i) : i \in targetInfo} : Other(c)
  <2> HIDE DEF Other
  <2> QED BY <1>6, <1>7, <1>8, <1>9, <1>10, <1>11, <1>12, Zenon DEF targetInfo
<1> HIDE DEF Script, Follows, KeyRpc, StepName
<1> QED BY <1>1, <1>2, <1>3, <1>4, <1>5, <1>13, <1>14, <1>15, Zenon

\* What is left after a step is again as Script says, and starts with a step
\* that may follow it; a command does not end in the middle of a save.
LEMMA Onward ==
    ASSUME NEW s, Script(s), s # <<>>
    PROVE  /\ Script(Tail(s))
           /\ Tail(s) # <<>> => Follows(Head(s), Head(Tail(s)))
           /\ Tail(s) = <<>> => Head(s) \notin {"load", "connect", "choose", "verify", "check", "open", "write"}
<1>1. s \in Seq(StepName) /\ Len(s) \in Nat \ {0} /\ Head(s) = s[1]
  BY DEF Script
<1> DEFINE t == Tail(s)
<1>2. /\ t \in Seq(StepName) /\ Len(t) = Len(s) - 1
      /\ \A i \in 1 .. Len(t) : t[i] = s[i + 1]
  BY <1>1
<1>3. t # <<>> => Head(t) = t[1] /\ Len(t) >= 1
  BY <1>2
<1> HIDE DEF t
<1>4. t = <<>> => Len(t) = 0
  OBVIOUS
<1>5. ASSUME NEW i \in 1 .. Len(t) - 1 PROVE Follows(t[i], t[i + 1])
  <2>1. i + 1 \in 1 .. Len(s) - 1 /\ t[i] = s[i + 1] /\ t[i + 1] = s[(i + 1) + 1]
    BY <1>1, <1>2
  <2>2. Follows(s[i + 1], s[(i + 1) + 1]) BY <2>1, Zenon DEF Script
  <2> QED BY <2>1, <2>2, Zenon
<1>6. t # <<>> => t[Len(t)] = s[Len(s)]
  BY <1>1, <1>2, <1>3
<1>7. Script(t)
  BY <1>2, <1>5, <1>6, Zenon DEF Script
<1>8. t # <<>> => Follows(Head(s), Head(t))
  <2> SUFFICES ASSUME t # <<>> PROVE Follows(Head(s), Head(t)) OBVIOUS
  <2>1. 1 \in 1 .. Len(s) - 1 /\ t[1] = s[1 + 1] BY <1>1, <1>2, <1>3
  <2>2. Follows(s[1], s[1 + 1]) BY <2>1, Zenon DEF Script
  <2> QED BY <1>1, <1>3, <2>1, <2>2, Zenon
<1>9. t = <<>> => s[Len(s)] = Head(s)
  <2>1. t = <<>> => Len(s) = 1 BY <1>1, <1>2, <1>4
  <2> QED BY <1>1, <2>1, Zenon
<1> QED BY <1>7, <1>8, <1>9, Zenon DEF Script, t

-----------------------------------------------------------------------------
(* The invariant and the properties *)

\* There are four names; the inodes are numbers from 1.
LEMMA FourNames ==
    /\ IsFiniteSet(Name) /\ Cardinality(Name) = 4
    /\ Inode \subseteq Nat \ {0} /\ {1, 2} \subseteq Inode
<1> DEFINE A == {} \cup {"state.lock"}
           B == A \cup {".state.tmp"}
           C == B \cup {"token.json"}
           D == C \cup {".tmp"}
<1>1. "state.lock" \notin {} /\ ".state.tmp" \notin A /\ "token.json" \notin B /\ ".tmp" \notin C
  OBVIOUS
<1>2. D = Name
  BY Zenon DEF Name
<1>3. IsFiniteSet(A) /\ Cardinality(A) = 1
  BY <1>1, FS_EmptySet, FS_AddElement
<1> HIDE DEF A
<1>4. IsFiniteSet(B) /\ Cardinality(B) = 2
  BY <1>1, <1>3, FS_AddElement
<1> HIDE DEF B
<1>5. IsFiniteSet(C) /\ Cardinality(C) = 3
  BY <1>1, <1>4, FS_AddElement
<1> HIDE DEF C
<1>6. IsFiniteSet(D) /\ Cardinality(D) = 4
  BY <1>1, <1>5, FS_AddElement
<1>7. Cardinality(Process) \in Nat
  BY ConsoleAssumption, FS_CardinalityType, Zenon
<1>8. Cardinality(Name) = 4
  BY <1>2, <1>6, Zenon
<1>9. Inode \subseteq Nat \ {0} /\ {1, 2} \subseteq Inode
  BY <1>7, <1>8 DEF Inode
<1> QED BY <1>2, <1>6, <1>9, Zenon

\* As long as a name stands for nothing there is a free inode, and NewInode is one.
LEMMA FreeInode ==
    ASSUME TypeOK, 0 \in InUse
    PROVE  NewInode \in Inode /\ NewInode \notin InUse
<1>1. IsFiniteSet(Name) /\ IsFiniteSet(Process)
  BY FourNames, ConsoleAssumption, Zenon
<1> DEFINE n == Cardinality(Name)  m == Cardinality(Process)
<1>2. n \in Nat /\ m \in Nat
  BY <1>1, FS_CardinalityType, Zenon
<1>3. /\ IsFiniteSet(Range(dir)) /\ Cardinality(Range(dir)) \in Nat /\ Cardinality(Range(dir)) <= n
  <2>1. dir \in Surjection(Name, Range(dir)) BY Zenon DEF TypeOK, Surjection, Range
  <2> QED BY <1>1, <2>1, FS_Surjection, FS_CardinalityType, Zenon
<1>4. /\ IsFiniteSet(Range(fd)) /\ Cardinality(Range(fd)) \in Nat /\ Cardinality(Range(fd)) <= m
  <2>1. fd \in Surjection(Process, Range(fd)) BY Zenon DEF TypeOK, Surjection, Range
  <2> QED BY <1>1, <2>1, FS_Surjection, FS_CardinalityType, Zenon
<1>5. IsFiniteSet(InUse) /\ Cardinality(InUse) \in Nat /\ Cardinality(InUse) <= n + m
  <2> DEFINE X == Range(dir)  Y == Range(fd)
  <2>1. IsFiniteSet(X \cup Y) /\ Cardinality(X \cup Y) = Cardinality(X) + Cardinality(Y) - Cardinality(X \cap Y)
    BY <1>3, <1>4, FS_Union, Zenon
  <2>2. Cardinality(X \cap Y) \in Nat /\ Cardinality(X \cup Y) \in Nat
    BY <1>3, <2>1, FS_Intersection, FS_CardinalityType, Zenon
  <2> HIDE DEF X, Y
  <2>3. Cardinality(X \cup Y) <= n + m
    <3>1. Cardinality(X) \in Nat /\ Cardinality(Y) \in Nat /\ Cardinality(X) <= n /\ Cardinality(Y) <= m
      BY <1>3, <1>4, Zenon DEF X, Y
    <3> HIDE DEF n, m
    <3> QED BY <1>2, <2>1, <2>2, <3>1
  <2> QED BY <2>1, <2>2, <2>3, Zenon DEF InUse, X, Y
<1>6. IsFiniteSet(InUse \ {0}) /\ Cardinality(InUse \ {0}) = Cardinality(InUse) - 1
  BY <1>5, FS_RemoveElement, Zenon
<1>7. Inode \ InUse # {}
  <2> SUFFICES ASSUME Inode \subseteq InUse PROVE FALSE OBVIOUS
  <2>1. Inode \in SUBSET (InUse \ {0}) BY <1>2 DEF Inode
  <2>2. Cardinality(Inode) <= Cardinality(InUse \ {0}) BY <1>6, <2>1, FS_Subset, Zenon
  <2>3. Cardinality(Inode) = n + m
    <3> DEFINE k == n + m
    <3>1. k \in Nat /\ Inode = 1 .. k BY <1>2 DEF Inode
    <3> HIDE DEF k
    <3>2. Cardinality(1 .. k) = IF 1 > k THEN 0 ELSE k - 1 + 1 BY <3>1, FS_Interval
    <3>3. Cardinality(Inode) = k BY <3>1, <3>2
    <3> QED BY <3>3, Zenon DEF k
  <2> HIDE DEF n, m
  <2> QED BY <1>2, <1>5, <1>6, <2>2, <2>3
<1>8. \E i \in Inode \ InUse : \A j \in Inode \ InUse : i <= j
  <2> DEFINE T == Inode \ InUse
  <2>1. T \in SUBSET Nat /\ T # {} BY <1>2, <1>7 DEF Inode
  <2> HIDE DEF T
  <2>2. \E i \in T : \A j \in T : i <= j BY <2>1, LeastNat, Zenon
  <2> QED BY <2>2, Zenon DEF T
<1> QED BY <1>8, Zenon DEF NewInode

\* What the processes other than p hold, and that tenants are never dropped.
Only(p) ==
    /\ tenants \subseteq tenants'
    /\ \A q \in Process \ {p} :
         /\ todo'[q] = todo[q] /\ doc'[q] = doc[q] /\ asked'[q] = asked[q] /\ fd'[q] = fd[q]
         /\ rows'[q] = rows[q] /\ cursor'[q] = cursor[q] /\ offset'[q] = offset[q]

\* A step of p leaves what holds of the others.
LEMMA OthersKeep ==
    ASSUME NEW p \in Process, Only(p), NEW q \in Process \ {p}, Mine(q)
    PROVE  Mine(q)'
<1>1. /\ todo'[q] = todo[q] /\ doc'[q] = doc[q] /\ asked'[q] = asked[q] /\ fd'[q] = fd[q]
      /\ rows'[q] = rows[q] /\ cursor'[q] = cursor[q] /\ offset'[q] = offset[q]
      /\ tenants \subseteq tenants'
  BY Zenon DEF Only
<1>2. Script(todo[q])'
  BY <1>1, Zenon DEF Mine
<1>3. \A x : At(q, x)' <=> At(q, x)
  BY <1>1, Zenon DEF At
<1>4. Saves(q)' <=> Saves(q)
  BY <1>3, Zenon DEF Saves
<1>5. WorksOn(q)'
  BY <1>1, <1>3, <1>4, Zenon DEF Mine, WorksOn
<1>6. items(q)' = items(q) /\ viewHeight(q)' = viewHeight(q)
  BY <1>1, Zenon DEF items, viewHeight
<1>7. ChoiceInv(q)'
  BY <1>1, <1>3, <1>4, <1>6, Zenon DEF Mine, ChoiceInv
<1> QED BY <1>2, <1>5, <1>7, Zenon DEF Mine

\* A step of p that touches no file and is outside of a save leaves what holds
\* of the disk.
LEMMA DiskKeeps ==
    ASSUME ConsoleInv, NEW p \in Process, Only(p),
           dir' = dir, data' = data, fd' = fd, meant' = meant, clean' = clean,
           \A q \in Process \ {p} : alone'[q] = alone[q],
           ~At(p, "write"), ~At(p, "rename"), ~At(p, "write")', ~At(p, "rename")'
    PROVE  DiskInv'
<1>1. \A q \in Process \ {p} : todo'[q] = todo[q] /\ doc'[q] = doc[q] /\ file(q)' = file(q)
  BY Zenon DEF Only, file
<1>2. \A q \in Process \ {p} : \A x : At(q, x)' <=> At(q, x)
  BY <1>1, Zenon DEF At
<1>3. ASSUME NEW f \in File PROVE Saving(f)' = Saving(f) /\ p \notin Saving(f)
  BY <1>1, <1>2 DEF Saving
<1>4. ASSUME NEW q \in Process PROVE AloneInv(q)'
  <2>1. CASE q = p BY <2>1, Zenon DEF AloneInv, Saving
  <2>2. CASE q # p
    <3>1. AloneInv(q) BY Zenon DEF ConsoleInv, DiskInv
    <3>2. file(q) \in File BY Zenon DEF file, File
    <3>3. Saving(file(q))' = Saving(file(q)) BY <1>1, <1>3, <2>2, <3>2, Zenon
    <3> QED BY <1>1, <1>2, <2>2, <3>1, <3>3, Zenon DEF AloneInv, Whole
  <2> QED BY <2>1, <2>2, Zenon
<1>5. ASSUME NEW f \in File PROVE FileInv(f)'
  <2>1. \A g \in File : Inodes(g)' = Inodes(g) BY <1>3, Zenon DEF Inodes
  <2>2. tenants \subseteq tenants' BY Zenon DEF Only
  <2>3. FileInv(f) BY Zenon DEF ConsoleInv, DiskInv
  <2>4. Parsed(f)' = Parsed(f) BY Zenon DEF Parsed
  <2> QED BY <2>1, <2>2, <2>3, <2>4, Zenon DEF FileInv
<1> QED BY <1>4, <1>5, Zenon DEF DiskInv

\* The invariant implies the four properties.
LEMMA InvGivesProperties ==
    ASSUME ConsoleInv
    PROVE  FileIsWhole /\ SelectedExists /\ WindowHoldsCursor /\ HighlightedIsSaved
<1>1. FileIsWhole
  BY Zenon DEF ConsoleInv, DiskInv, FileInv, FileIsWhole
<1>2. Parsed("state") \in tenants \cup {None}
  BY Zenon DEF ConsoleInv, DiskInv, FileInv, Parsed, Inodes, File
<1>3. ASSUME NEW p \in Process, NEW rpc \in KeyRpc, At(p, rpc)
      PROVE  asked[p] \in tenants \cup {Typed}
  BY <1>3, Zenon DEF ConsoleInv, Mine, WorksOn, AboutKeys, At
<1>4. WindowHoldsCursor
  BY Zenon DEF ConsoleInv, Mine, ChoiceInv, WindowHoldsCursor
<1>5. ASSUME NEW p \in Process, rows[p] # <<>>, ~At(p, "choose"),
             \A i \in 1 .. cursor[p] : Lines[rows[p][i]] = 1
      PROVE  doc[p] = items(p)[cursor[p] + 1]
  <2>1. cursor[p] < Len(rows[p]) /\ doc[p] = rows[p][cursor[p] + 1]
    BY <1>5, Zenon DEF ConsoleInv, Mine, ChoiceInv
  <2>2. rows[p] \in Seq(TenantId) /\ cursor[p] \in Nat
    BY DEF ConsoleInv, TypeOK
  <2>3. items(p)[cursor[p] + 1] = rows[p][cursor[p] + 1]
    BY <1>5, <2>1, <2>2, Rendered, Zenon DEF items
  <2> QED BY <2>1, <2>3, Zenon
<1> QED BY <1>1, <1>2, <1>3, <1>4, <1>5, Zenon DEF SelectedExists, HighlightedIsSaved

\* The client starts with no process and files that were saved cleanly.
LEMMA InitInv ==
    ASSUME Init PROVE ConsoleInv
<1>1. PICK t \in tenants \cup {None}, k \in Token \cup {None} :
         /\ meant = [f \in File |-> IF f = "state" THEN t ELSE k]
         /\ dir = [n \in Name |-> CASE n = path("state") /\ t # None -> 1
                                    [] n = path("token") /\ k # None -> 2
                                    [] OTHER -> 0]
         /\ data = [i \in Inode |-> CASE i = 1 /\ t # None -> [doc |-> t, len |-> Size[t]]
                                      [] i = 2 /\ k # None -> [doc |-> k, len |-> Size[k]]
                                      [] OTHER -> Nothing]
  BY Zenon DEF Init
<1>2. /\ todo = [p \in Process |-> <<>>] /\ doc = [p \in Process |-> None]
      /\ asked = [p \in Process |-> None] /\ fd = [p \in Process |-> 0]
      /\ rows = [p \in Process |-> <<>>] /\ cursor = [p \in Process |-> 0]
      /\ offset = [p \in Process |-> 0] /\ hung = [p \in Process |-> FALSE]
      /\ alone = [p \in Process |-> FALSE] /\ clean = [f \in File |-> TRUE]
      /\ tenants \in SUBSET TenantId
  BY Zenon DEF Init
<1>3. t \in TenantId \cup {None} /\ Nothing \in [doc : Doc \cup {None}, len : Nat]
  BY <1>2, Zenon DEF Nothing
<1>4. /\ t # None => t \in TenantId /\ t \in Doc /\ Size[t] \in Nat
      /\ k # None => k \in Token /\ k \in Doc /\ Size[k] \in Nat
  BY <1>3, ConsoleAssumption, Zenon DEF Doc
<1>5. data \in [Inode -> [doc : Doc \cup {None}, len : Nat]]
  BY <1>1, <1>3, <1>4, Zenon
<1>6. dir \in [Name -> Inode \cup {0}]
  BY <1>1, FourNames, Zenon DEF path
<1>7. meant \in [File -> Doc \cup {None}]
  BY <1>1, <1>4, Zenon
<1>8. TypeOK
  BY <1>2, <1>5, <1>6, <1>7, ConsoleAssumption DEF TypeOK
<1>9. ASSUME NEW p \in Process PROVE Mine(p)
  <2>1. todo[p] = <<>> /\ rows[p] = <<>> /\ fd[p] = 0 /\ cursor[p] = 0 /\ offset[p] = 0
    BY <1>2, Zenon
  <2>2. Script(<<>>)
    BY DEF Script
  <2> QED BY <2>1, <2>2, Zenon DEF Mine, WorksOn, ChoiceInv, At, Saves, AboutKeys
<1>10. ASSUME NEW f \in File PROVE Saving(f) = {}
  BY <1>2, Zenon DEF Saving, At
<1>11. /\ dir["state.lock"] = IF t # None THEN 1 ELSE 0
       /\ dir["token.json"] = IF k # None THEN 2 ELSE 0
       /\ dir[".state.tmp"] = 0 /\ dir[".tmp"] = 0
  BY <1>1, Zenon DEF path, Name
<1>12. /\ t # None => data[1] = [doc |-> t, len |-> Size[t]]
       /\ k # None => data[2] = [doc |-> k, len |-> Size[k]]
  BY <1>1, FourNames
<1>13. Inodes("state") \subseteq {1} /\ Inodes("token") \subseteq {2}
  BY <1>10, <1>11, Zenon DEF Inodes, path, tmpPath, File
<1>14. \A f \in File : clean[f] /\ \A q \in Process : fd[q] # dir[path(f)] \/ dir[path(f)] = 0
  BY <1>2, Zenon
<1>15. Parsed("state") = t /\ Parsed("token") = k
  BY <1>4, <1>11, <1>12 DEF Parsed, path
<1>16. meant["state"] = t /\ meant["token"] = k
  BY <1>1, Zenon DEF File
<1>17. \A f \in File : Parsed(f) = meant[f]
  BY <1>15, <1>16, Zenon DEF File
<1>18. \A f, g \in File : g # f => Inodes(f) \cap Inodes(g) = {}
  BY <1>13 DEF File
<1>19. \A f \in File : dir[path(f)] # 0 => dir[path(f)] # dir[tmpPath(f)]
  BY <1>11, Zenon DEF path, tmpPath, File
<1>20. \A i \in Inodes("state") : data[i].doc \in {None} \cup tenants
  BY <1>10, <1>11, <1>12, <1>13, <1>1 DEF Inodes, path, tmpPath, File
<1>21. \A i \in Inodes("token") : data[i].doc \in {None} \cup Token
  BY <1>10, <1>11, <1>12, <1>13, <1>1 DEF Inodes, path, tmpPath, File
<1>22. \A f \in File : \A i \in Inodes(f) :
         data[i].doc \in {None} \cup IF f = "state" THEN tenants ELSE Token
  BY <1>20, <1>21, Zenon DEF File
<1>23. \A f \in File : FileInv(f)
  BY <1>14, <1>17, <1>18, <1>19, <1>22, Zenon DEF FileInv
<1>24. \A p \in Process : AloneInv(p)
  BY <1>2, Zenon DEF AloneInv
<1> QED BY <1>8, <1>9, <1>23, <1>24, Zenon DEF ConsoleInv, DiskInv

-----------------------------------------------------------------------------
(* Steps outside of a save *)

\* The part of the type invariant that is about the processes.
ProcessTypes ==
    /\ todo \in [Process -> Seq(StepName)] /\ rows \in [Process -> Seq(tenants)]
    /\ doc \in [Process -> Doc \cup {None}] /\ asked \in [Process -> TenantId \cup {None, Typed}]
    /\ fd \in [Process -> Inode \cup {0}]
    /\ cursor \in [Process -> Nat] /\ offset \in [Process -> Nat]
    /\ hung \in [Process -> BOOLEAN] /\ alone \in [Process -> BOOLEAN]

\* A step of p outside of a save keeps the invariant if it keeps what holds of p.
LEMMA QuietStep ==
    ASSUME ConsoleInv, NEW p \in Process, Only(p), Mine(p)', ProcessTypes', tenants' \subseteq TenantId,
           UNCHANGED disk, fd' = fd, meant' = meant, clean' = clean,
           \A q \in Process \ {p} : alone'[q] = alone[q],
           ~At(p, "write"), ~At(p, "rename"), ~At(p, "write")', ~At(p, "rename")'
    PROVE  ConsoleInv'
<1>1. TypeOK'
  BY Zenon DEF ConsoleInv, TypeOK, ProcessTypes, disk
<1>2. \A q \in Process : Mine(q)'
  BY OthersKeep, Zenon DEF ConsoleInv
<1>3. DiskInv'
  BY DiskKeeps, Zenon DEF disk
<1> QED BY <1>1, <1>2, <1>3, Zenon DEF ConsoleInv

\* What holds of a process that has ended.
LEMMA Ended ==
    ASSUME ConsoleInv, NEW p \in Process, Exit(p), tenants' = tenants
    PROVE  /\ Only(p) /\ Mine(p)' /\ ProcessTypes'
           /\ \A q \in Process \ {p} : alone'[q] = alone[q]
           /\ \A x : ~At(p, x)'
           /\ fd' = Closed(p) /\ (~At(p, "write") => fd' = fd)
<1>1. TypeOK
  BY Zenon DEF ConsoleInv
<1>2. /\ todo'[p] = <<>> /\ rows'[p] = <<>> /\ fd'[p] = 0 /\ cursor'[p] = 0 /\ offset'[p] = 0
  BY <1>1, Zenon DEF TypeOK, Exit, Closed
<1>3. Only(p) /\ \A q \in Process \ {p} : alone'[q] = alone[q]
  BY <1>1, Zenon DEF TypeOK, Exit, Closed, Only
<1>4. Script(<<>>)
  BY DEF Script
<1>5. \A x : ~At(p, x)'
  BY <1>2, Zenon DEF At
<1>6. Mine(p)'
  BY <1>2, <1>4, <1>5, Zenon DEF Mine, WorksOn, ChoiceInv, Saves, AboutKeys
<1>7. ProcessTypes'
  BY <1>1 DEF TypeOK, Exit, Closed, ProcessTypes
<1>8. ~At(p, "write") => fd' = fd
  <2>1. ~At(p, "write") => fd[p] = 0
    BY Zenon DEF ConsoleInv, Mine, WorksOn
  <2>2. fd \in [Process -> Inode \cup {0}] /\ fd' = [fd EXCEPT ![p] = 0]
    BY <1>1, Zenon DEF TypeOK, Exit, Closed
  <2> QED BY <2>1, <2>2, Zenon
<1> QED BY <1>3, <1>5, <1>6, <1>7, <1>8, Zenon DEF Exit

\* Where a process stands after a step.
LEMMA Proceeds ==
    ASSUME ConsoleInv, NEW p \in Process, todo[p] # <<>>, Proceed(p)
    PROVE  /\ todo' \in [Process -> Seq(StepName)]
           /\ \A q \in Process \ {p} : todo'[q] = todo[q]
           /\ Script(todo[p])'
           /\ \A x : At(p, x)' => Follows(Head(todo[p]), x)
           /\ todo'[p] = Tail(todo[p])
           /\ todo'[p] = <<>> =>
                Head(todo[p]) \notin {"load", "connect", "choose", "verify", "check", "open", "write"}
           /\ AboutKeys(todo[p])' =>
                \/ Head(todo[p]) = "connect" /\ AboutKeys(todo[p])
                \/ Head(todo[p]) \in {"GetAction", "load"}
<1>1. TypeOK /\ Script(todo[p])
  BY Zenon DEF ConsoleInv, Mine
<1>2. todo'[p] = Tail(todo[p]) /\ \A q \in Process \ {p} : todo'[q] = todo[q]
  BY <1>1, Zenon DEF TypeOK, Proceed
<1>3. todo' \in [Process -> Seq(StepName)]
  BY <1>1 DEF TypeOK, Proceed
<1>4. PICK s : s = todo[p]
  OBVIOUS
<1>5. /\ Script(Tail(s))
      /\ Tail(s) # <<>> => Follows(Head(s), Head(Tail(s)))
      /\ Tail(s) = <<>> => Head(s) \notin {"load", "connect", "choose", "verify", "check", "open", "write"}
  BY <1>1, <1>4, Onward, Zenon
<1>6. \A x : At(p, x)' => Follows(Head(todo[p]), x)
  BY <1>2, <1>4, <1>5, Zenon DEF At
<1>7. AboutKeys(Tail(s)) =>
                \/ Head(s) = "connect" /\ AboutKeys(s)
                \/ Head(s) \in {"GetAction", "load"}
  BY <1>1, <1>4, <1>5, Zenon DEF AboutKeys, Follows, KeyRpc
<1> QED BY <1>2, <1>3, <1>4, <1>5, <1>6, <1>7, Zenon

\* A step that goes on or ends the command keeps the invariant, if the tenant
\* that is to be saved has been found.
LEMMA CheckStep ==
    ASSUME ConsoleInv, NEW p \in Process, NEW ok \in BOOLEAN, Check(p, ok), todo[p] # <<>>,
           Head(todo[p]) \notin {"load", "GetAction", "choose", "open", "write", "rename"} \/ ~ok,
           Head(todo[p]) \notin {"write", "rename"},
           Head(todo[p]) = "ListTenants" /\ ok => Len(todo[p]) = 1,
           Head(todo[p]) = "GetTenant" /\ ok => doc[p] \in tenants
    PROVE  ConsoleInv'
<1>1. UNCHANGED <<started, tenants, disk, meant, clean>> /\ TypeOK
  BY Zenon DEF Check, ConsoleInv
<1>2. ~At(p, "write") /\ ~At(p, "rename")
  BY Zenon DEF At
<1>3. CASE ~ok
  <2>1. Exit(p) BY <1>3, Zenon DEF Check
  <2> QED BY <1>1, <1>2, <2>1, Ended, QuietStep, Zenon DEF TypeOK
<1>4. CASE ok
  <2>1. Proceed(p) /\ UNCHANGED <<doc, asked, fd, choice, alone>>
    BY <1>4, Zenon DEF Check
  <2> DEFINE h == Head(todo[p])
  <2>2. h \notin {"load", "GetAction", "choose", "open", "write", "rename"}
    BY <1>4, Zenon
  <2>3. /\ todo' \in [Process -> Seq(StepName)] /\ \A q \in Process \ {p} : todo'[q] = todo[q]
        /\ Script(todo[p])'
        /\ \A x : At(p, x)' => Follows(h, x)
        /\ todo'[p] = Tail(todo[p])
        /\ AboutKeys(todo[p])' => AboutKeys(todo[p])
    BY <2>1, <2>2, Proceeds, Zenon
  <2>4. ~At(p, "write")' /\ ~At(p, "rename")' /\ ~At(p, "verify")' /\ ~At(p, "check")'
    BY <2>2, <2>3, Zenon DEF Follows, KeyRpc
  <2>5. ~At(p, "choose")'
    <3>1. At(p, "choose")' => h = "ListTenants" BY <2>2, <2>3, Zenon DEF Follows, KeyRpc
    <3>2. h = "ListTenants" => todo'[p] = <<>>
      <4>1. todo[p] \in Seq(StepName) BY <1>1, Zenon DEF TypeOK
      <4> QED BY <4>1, <1>4, <2>3
    <3> QED BY <3>1, <3>2, Zenon DEF At
  <2>6. At(p, "open")' => doc[p] \in tenants \cup Token
    <3>1. At(p, "open")' => h \in {"GetTenant", "verify", "check"} BY <2>2, <2>3, Zenon DEF Follows, KeyRpc
    <3>2. h \in {"verify", "check"} => doc[p] \in Token BY Zenon DEF ConsoleInv, Mine, WorksOn, At
    <3> QED BY <1>4, <3>1, <3>2, Zenon
  <2>7. rows[p] = <<>> /\ cursor[p] = 0 /\ offset[p] = 0 /\ fd[p] = 0
    BY <2>2, Zenon DEF ConsoleInv, Mine, ChoiceInv, WorksOn, Saves, At
  <2>8. WorksOn(p)'
    <3>1. AboutKeys(todo[p])' => asked[p] \in tenants \cup {Typed}
      BY <2>3, Zenon DEF ConsoleInv, Mine, WorksOn
    <3> QED BY <1>1, <2>1, <2>4, <2>6, <2>7, <3>1, Zenon DEF WorksOn, Saves
  <2>9. ChoiceInv(p)'
    BY <2>1, <2>5, <2>7, SMTT(20) DEF ChoiceInv, choice
  <2>10. Only(p)
    BY <1>1, <2>1, <2>3, Zenon DEF Only, choice
  <2>11. ProcessTypes'
    BY <1>1, <2>1, <2>3, Zenon DEF ProcessTypes, TypeOK, choice
  <2> QED BY <1>1, <1>2, <2>1, <2>3, <2>4, <2>8, <2>9, <2>10, <2>11, QuietStep, Zenon DEF Mine, TypeOK
<1> QED BY <1>3, <1>4, Zenon

\* A process without a step to do is as it was at the start.
LEMMA Idle ==
    ASSUME ConsoleInv, NEW p \in Process, todo[p] = <<>>
    PROVE  rows[p] = <<>> /\ cursor[p] = 0 /\ offset[p] = 0 /\ fd[p] = 0
BY Zenon DEF ConsoleInv, Mine, ChoiceInv, WorksOn, Saves, At

\* Starting a command keeps the invariant, if its argument is a token where it
\* logs in and the tenant was typed where it asks for keys without loading it.
LEMMA RunStep ==
    ASSUME ConsoleInv, NEW p \in Process, NEW c, NEW d \in Doc \cup {None}, NEW t \in {None, Typed},
           Run(p, c, d, t), Script(c), c # <<>>,
           Head(c) \in {"load", "connect", "verify", "check"},
           Head(c) \in {"verify", "check"} => d \in Token,
           AboutKeys(c) => t = Typed
    PROVE  ConsoleInv'
<1>1. TypeOK /\ todo[p] = <<>> /\ UNCHANGED <<tenants, disk, fd, choice, ghosts>>
  BY Zenon DEF ConsoleInv, Run
<1>2. /\ todo'[p] = c /\ \A q \in Process \ {p} : todo'[q] = todo[q]
      /\ doc'[p] = d /\ \A q \in Process \ {p} : doc'[q] = doc[q]
      /\ asked'[p] = t /\ \A q \in Process \ {p} : asked'[q] = asked[q]
  BY <1>1, Zenon DEF TypeOK, Run
<1>3. \A x : At(p, x)' <=> x = Head(c)
  BY <1>2, Zenon DEF At
<1>4. \A x : ~At(p, x)
  BY <1>1, Zenon DEF At
<1>5. rows[p] = <<>> /\ cursor[p] = 0 /\ offset[p] = 0 /\ fd[p] = 0
  BY <1>1, Idle, Zenon
<1>6. WorksOn(p)'
  BY <1>1, <1>2, <1>3, <1>5, Zenon DEF WorksOn, Saves
<1>7. ChoiceInv(p)'
  BY <1>1, <1>3, <1>5, Zenon DEF ChoiceInv, choice
<1>8. Mine(p)'
  BY <1>2, <1>6, <1>7, Zenon DEF Mine
<1>9. Only(p)
  BY <1>1, <1>2, Zenon DEF Only, choice
<1>10. ProcessTypes'
  <2>1. c \in Seq(StepName) BY Zenon DEF Script
  <2> QED BY <1>1, <2>1, Zenon DEF TypeOK, ProcessTypes, Run, choice, ghosts
<1>11. ~At(p, "write") /\ ~At(p, "rename") /\ ~At(p, "write")' /\ ~At(p, "rename")'
  BY <1>3, <1>4, Zenon
<1> QED BY <1>1, <1>8, <1>9, <1>10, <1>11, QuietStep, Zenon DEF ghosts, TypeOK

\* Every command starts so.
LEMMA StartStep ==
    ASSUME ConsoleInv, NEW p \in Process, Start(p)
    PROVE  ConsoleInv'
<1>1. CASE \E c \in {getKeyCmd(TRUE), activateKeyCmd(TRUE)} : Run(p, c, None, Typed)
  BY <1>1, Commands, RunStep, Zenon
<1>2. CASE \E c \in {getKeyCmd(FALSE), activateKeyCmd(FALSE), announceKeyCmd} : Run(p, c, None, None)
  <2>1. PICK c \in {getKeyCmd(FALSE), activateKeyCmd(FALSE), announceKeyCmd} : Run(p, c, None, None)
    BY <1>2, Zenon
  <2>2. Script(c) /\ c # <<>> /\ Head(c) = "load" BY Commands, Zenon
  <2>3. ~AboutKeys(c) BY <2>2, Zenon DEF AboutKeys, KeyRpc
  <2> QED BY <2>1, <2>2, <2>3, RunStep, Zenon
<1>3. CASE \E c \in {createTenantCmd, getTenantsCmd, selectTenantInteractive} : Run(p, c, None, None)
  BY <1>3, Commands, RunStep, Zenon
<1>4. CASE \E i \in targetInfo : Run(p, actionStatusCmd(i), None, None)
  <2>1. PICK c \in {actionStatusCmd(i) : i \in targetInfo} : Run(p, c, None, None) BY <1>4, Zenon
  <2> QED BY <2>1, Commands, RunStep, Zenon
<1>5. CASE \E c \in {getTenantCmd, selectTenantCmd}, t \in TenantId : Run(p, c, t, None)
  <2>1. PICK c \in {getTenantCmd, selectTenantCmd}, t \in TenantId : Run(p, c, t, None) BY <1>5, Zenon
  <2>2. t \in Doc BY Zenon DEF Doc
  <2> QED BY <2>1, <2>2, Commands, RunStep, Zenon
<1>6. CASE Run(p, mtlsLoginCmd, "mtls", None)
  <2>1. ~AboutKeys(mtlsLoginCmd) BY Commands, Zenon DEF AboutKeys, KeyRpc
  <2> QED BY <1>6, <2>1, Commands, RunStep, Zenon DEF Token, Doc
<1>7. CASE Run(p, noAuthLoginCmd, "no-auth", None)
  <2>1. ~AboutKeys(noAuthLoginCmd) BY Commands, Zenon DEF AboutKeys, KeyRpc
  <2> QED BY <1>7, <2>1, Commands, RunStep, Zenon DEF Token, Doc
<1> QED BY <1>1, <1>2, <1>3, <1>4, <1>5, <1>6, <1>7, Zenon DEF Start

\* A step that sets what the requests are about to a tenant that exists, or that
\* adds a tenant, keeps the invariant.
LEMMA AskStep ==
    ASSUME ConsoleInv, NEW p \in Process, Proceed(p), todo[p] # <<>>,
           Head(todo[p]) \in {"load", "GetAction", "CreateTenant"},
           tenants \subseteq tenants', tenants' \subseteq TenantId,
           asked' \in [Process -> TenantId \cup {None, Typed}],
           \A q \in Process \ {p} : asked'[q] = asked[q],
           Head(todo[p]) # "CreateTenant" => asked'[p] \in tenants,
           UNCHANGED <<disk, doc, fd, choice, ghosts>>
    PROVE  ConsoleInv'
<1> DEFINE h == Head(todo[p])
<1>1. TypeOK
  BY Zenon DEF ConsoleInv
<1>2. /\ todo' \in [Process -> Seq(StepName)] /\ \A q \in Process \ {p} : todo'[q] = todo[q]
      /\ Script(todo[p])'
      /\ \A x : At(p, x)' => Follows(h, x)
      /\ AboutKeys(todo[p])' => h # "CreateTenant"
  BY Proceeds, Zenon
<1>3. /\ ~At(p, "write")' /\ ~At(p, "rename")' /\ ~At(p, "verify")' /\ ~At(p, "check")'
      /\ ~At(p, "choose")' /\ ~At(p, "open")'
  BY <1>2, Zenon DEF Follows, KeyRpc
<1>4. rows[p] = <<>> /\ cursor[p] = 0 /\ offset[p] = 0 /\ fd[p] = 0
  BY Zenon DEF ConsoleInv, Mine, ChoiceInv, WorksOn, Saves, At
<1>5. WorksOn(p)'
  BY <1>2, <1>3, <1>4, Zenon DEF WorksOn, Saves
<1>6. ChoiceInv(p)'
  BY <1>3, <1>4, Zenon DEF ChoiceInv, choice
<1>7. Only(p)
  BY <1>2, Zenon DEF Only, choice
<1>8. ProcessTypes'
  <2>1. rows' \in [Process -> Seq(tenants')]
    <3>1. rows' = rows /\ rows \in [Process -> Seq(tenants)] BY <1>1, Zenon DEF TypeOK, choice
    <3>2. ASSUME NEW q \in Process PROVE rows[q] \in Seq(tenants')
      <4>1. rows[q] \in Seq(tenants) BY <3>1, Zenon
      <4> QED BY <4>1
    <3> QED BY <3>1, <3>2, Zenon
  <2> QED BY <1>1, <1>2, <2>1, Zenon DEF TypeOK, ProcessTypes, choice, ghosts
<1>9. ~At(p, "write") /\ ~At(p, "rename")
  BY Zenon DEF At
<1>10. Mine(p)'
  BY <1>2, <1>5, <1>6, Zenon DEF Mine
<1> QED BY <1>3, <1>7, <1>8, <1>9, <1>10, QuietStep, Zenon DEF ghosts, disk

\* The steps that ask the server or look at the files.
LEMMA RequestStep ==
    ASSUME ConsoleInv, NEW p \in Process,
           \/ selectedTenantID(p) \/ newConnection(p) \/ Verify(p) \/ CheckToken(p)
           \/ CallKeyService(p) \/ CreateTenant(p) \/ GetTenant(p) \/ GetAction(p)
    PROVE  ConsoleInv'
<1>1. TypeOK
  BY Zenon DEF ConsoleInv
<1>2. CASE selectedTenantID(p)
  <2>1. At(p, "load") /\ UNCHANGED <<started, tenants, disk, meant, clean>>
    BY <1>2, Zenon DEF selectedTenantID
  <2>2. CASE Parsed("state") = None
    <3>1. Exit(p) BY <1>2, <2>2, Zenon DEF selectedTenantID
    <3>2. ~At(p, "write") /\ ~At(p, "rename") BY <2>1, Zenon DEF At
    <3> QED BY <1>1, <2>1, <3>1, <3>2, Ended, QuietStep, Zenon DEF TypeOK
  <2>3. CASE Parsed("state") # None
    <3>1. asked' = [asked EXCEPT ![p] = Parsed("state")] /\ Proceed(p) /\ UNCHANGED <<doc, fd, choice, alone>>
      BY <1>2, <2>3, Zenon DEF selectedTenantID
    <3>2. Parsed("state") \in tenants BY <2>3, InvGivesProperties, Zenon DEF SelectedExists
    <3>3. /\ asked' \in [Process -> TenantId \cup {None, Typed}] /\ asked'[p] \in tenants
          /\ \A q \in Process \ {p} : asked'[q] = asked[q]
      BY <1>1, <3>1, <3>2, Zenon DEF TypeOK
    <3> QED BY <1>1, <2>1, <3>1, <3>3, AskStep, Zenon DEF At, TypeOK, ghosts
  <2> QED BY <2>2, <2>3, Zenon
<1>3. CASE newConnection(p)
  <2>1. PICK ok \in Validity(Parsed("token")) : Check(p, ok) BY <1>3, Zenon DEF newConnection
  <2>2. At(p, "connect") /\ ok \in BOOLEAN BY <1>3, <2>1, Zenon DEF newConnection, Validity, verifyCertChain
  <2> QED BY <2>1, <2>2, CheckStep, Zenon DEF At
<1>4. CASE Verify(p)
  BY <1>4, CheckStep, Zenon DEF Verify, verifyCertChain, At
<1>5. CASE CheckToken(p)
  <2> DEFINE good == dir["token.json"] = 0 \/ Parsed("token") = "mtls"
  <2>1. PICK ok \in BOOLEAN : ok = good BY Zenon
  <2>2. Check(p, ok) /\ At(p, "check") BY <1>5, <2>1, Zenon DEF CheckToken
  <2> QED BY <2>2, CheckStep, Zenon DEF At
<1>6. CASE CallKeyService(p)
  BY <1>6, CheckStep, Zenon DEF CallKeyService, At, KeyRpc
<1>7. CASE CreateTenant(p)
  <2>1. At(p, "CreateTenant") BY <1>7, Zenon DEF CreateTenant
  <2>2. CASE Check(p, FALSE) BY <2>1, <2>2, CheckStep, Zenon DEF At
  <2>3. CASE /\ \E t \in TenantId \ tenants : tenants' = tenants \cup {t}
             /\ Proceed(p)
             /\ UNCHANGED <<started, disk, doc, asked, fd, choice, ghosts>>
    BY <1>1, <2>1, <2>3, AskStep, Zenon DEF At, TypeOK
  <2> QED BY <1>7, <2>2, <2>3, Zenon DEF CreateTenant
<1>8. CASE GetTenant(p)
  <2>1. PICK ok \in BOOLEAN : ok <=> doc[p] \in tenants BY Zenon
  <2>2. Check(p, ok) /\ At(p, "GetTenant") BY <1>8, <2>1, Zenon DEF GetTenant, Check
  <2> QED BY <2>1, <2>2, CheckStep, Zenon DEF At
<1>9. CASE GetAction(p)
  <2>1. At(p, "GetAction") BY <1>9, Zenon DEF GetAction
  <2>2. CASE Check(p, FALSE) BY <2>1, <2>2, CheckStep, Zenon DEF At
  <2>3. CASE /\ \E t \in tenants : asked' = [asked EXCEPT ![p] = t]
             /\ Proceed(p)
             /\ UNCHANGED <<started, tenants, disk, doc, fd, choice, ghosts>>
    <3>1. /\ asked' \in [Process -> TenantId \cup {None, Typed}] /\ asked'[p] \in tenants
          /\ \A q \in Process \ {p} : asked'[q] = asked[q]
      BY <1>1, <2>3, Zenon DEF TypeOK
    <3> QED BY <1>1, <2>1, <2>3, <3>1, AskStep, Zenon DEF At, TypeOK
  <2> QED BY <1>9, <2>2, <2>3, Zenon DEF GetAction
<1> QED BY <1>2, <1>3, <1>4, <1>5, <1>6, <1>7, <1>8, <1>9, Zenon

\* The tenants are listed for a selection that has its cursor on the first line.
LEMMA ListTenantsStep ==
    ASSUME ConsoleInv, NEW p \in Process, ListTenants(p)
    PROVE  ConsoleInv'
<1>1. TypeOK /\ At(p, "ListTenants") /\ todo[p] # <<>> /\ Head(todo[p]) = "ListTenants"
  BY Zenon DEF ConsoleInv, ListTenants, At
<1>2. CASE Len(todo[p]) = 1
  BY <1>1, <1>2, CheckStep, Zenon DEF ListTenants
<1>3. CASE Len(todo[p]) # 1 /\ tenants = {}
  <2>1. Check(p, FALSE) BY <1>3, Zenon DEF ListTenants
  <2> QED BY <1>1, <2>1, CheckStep, Zenon
<1>4. CASE Len(todo[p]) # 1 /\ tenants # {}
  <2>1. PICK r \in Bijection(1 .. Cardinality(tenants), tenants) : rows' = [rows EXCEPT ![p] = r]
    BY <1>4, Zenon DEF ListTenants
  <2>2. Proceed(p) /\ UNCHANGED <<started, tenants, disk, doc, asked, fd, cursor, offset, hung, ghosts>>
    BY <1>4, Zenon DEF ListTenants
  <2>3. r \in Seq(tenants) /\ r \in Seq(TenantId) /\ r # <<>> /\ Len(r) \in Nat \ {0}
    <3>1. IsFiniteSet(tenants) BY <1>1, ConsoleAssumption, FS_Subset, Zenon DEF TypeOK
    <3>2. PICK n : n = Cardinality(tenants) OBVIOUS
    <3>3. n \in Nat \ {0} BY <1>4, <3>1, <3>2, FS_CardinalityType, FS_EmptySet, Zenon
    <3>4. r \in [1 .. n -> tenants] BY <3>2, Zenon DEF Bijection, Injection
    <3>5. r \in [1 .. n -> TenantId] BY <1>1, <3>4, Zenon DEF TypeOK
    <3> QED BY <3>3, <3>4, <3>5
  <2>4. /\ todo' \in [Process -> Seq(StepName)] /\ \A q \in Process \ {p} : todo'[q] = todo[q]
        /\ Script(todo[p])'
        /\ \A x : At(p, x)' => Follows("ListTenants", x)
        /\ todo'[p] = Tail(todo[p])
        /\ ~AboutKeys(todo[p])'
    BY <1>1, <2>2, Proceeds, Zenon
  <2>5. todo'[p] # <<>>
    <3>1. todo[p] \in Seq(StepName) BY <1>1, Zenon DEF TypeOK
    <3>2. PICK t \in Seq(StepName) : t = todo[p] BY <3>1, Zenon
    <3>3. t # <<>> /\ Len(t) # 1 BY <1>1, <1>4, <3>2, Zenon
    <3> QED BY <2>4, <3>2, <3>3, MoreThanOne, Zenon
  <2>6. \A x : At(p, x)' <=> x = "choose"
    <3>1. \A x : At(p, x)' => x = "choose" BY <2>4, Zenon DEF Follows, KeyRpc
    <3>2. \E x : At(p, x)' BY <2>5, Zenon DEF At
    <3> QED BY <3>1, <3>2, Zenon
  <2>7. rows[p] = <<>> /\ cursor[p] = 0 /\ offset[p] = 0 /\ fd[p] = 0
    BY <1>1, Zenon DEF ConsoleInv, Mine, ChoiceInv, WorksOn, Saves, At
  <2>8. /\ rows'[p] = r /\ \A q \in Process \ {p} : rows'[q] = rows[q]
        /\ rows' \in [Process -> Seq(tenants)]
    BY <1>1, <2>1, <2>3, Zenon DEF TypeOK
  <2>9. Len(items(p)') \in Nat /\ Len(items(p)') >= Len(r)
    BY <2>3, <2>8, Rendered, Zenon DEF items
  <2>10. viewHeight(p)' \in Nat \ {0} /\ viewHeight(p)' <= Len(r)
    BY <2>3, <2>8, ConsoleAssumption DEF viewHeight
  <2>11. ChoiceInv(p)'
    <3>1. cursor'[p] = 0 /\ offset'[p] = 0 /\ rows'[p] # <<>> BY <2>2, <2>3, <2>7, <2>8, Zenon
    <3>2. 0 < 0 + viewHeight(p)' /\ 0 + viewHeight(p)' <= Len(items(p)')
      BY <2>3, <2>9, <2>10
    <3> QED BY <2>6, <3>1, <3>2 DEF ChoiceInv
  <2>12. WorksOn(p)'
    BY <2>2, <2>4, <2>6, <2>7, Zenon DEF WorksOn, Saves
  <2>13. Only(p)
    BY <2>2, <2>4, <2>8, Zenon DEF Only
  <2>14. ProcessTypes'
    BY <1>1, <2>2, <2>4, <2>8, Zenon DEF ProcessTypes, TypeOK, ghosts
  <2>15. ~At(p, "write") /\ ~At(p, "rename") /\ ~At(p, "write")' /\ ~At(p, "rename")' /\ Mine(p)'
    BY <1>1, <2>4, <2>6, <2>11, <2>12, Zenon DEF At, Mine
  <2> QED BY <1>1, <2>2, <2>13, <2>14, <2>15, QuietStep, Zenon DEF ghosts, TypeOK
<1> QED BY <1>2, <1>3, <1>4, Zenon

\* Moving the cursor within the lines, the window with it, keeps the invariant.
LEMMA MoveStep ==
    ASSUME ConsoleInv, NEW p \in Process, At(p, "choose"),
           NEW c \in Nat, NEW o \in Nat, o <= c, c < o + viewHeight(p), o + viewHeight(p) <= Len(items(p)),
           cursor' = [cursor EXCEPT ![p] = c], offset' = [offset EXCEPT ![p] = o],
           hung' \in [Process -> BOOLEAN],
           UNCHANGED <<tenants, disk, todo, doc, asked, fd, rows, ghosts>>
    PROVE  ConsoleInv'
<1>1. TypeOK
  BY Zenon DEF ConsoleInv
<1>2. /\ cursor'[p] = c /\ offset'[p] = o
      /\ \A q \in Process \ {p} : cursor'[q] = cursor[q] /\ offset'[q] = offset[q]
  BY <1>1, Zenon DEF TypeOK
<1>3. \A x : At(p, x)' <=> At(p, x)
  BY Zenon DEF At
<1>4. Script(todo[p])' /\ WorksOn(p)'
  BY <1>3, Zenon DEF ConsoleInv, Mine, WorksOn, Saves
<1>5. items(p)' = items(p) /\ viewHeight(p)' = viewHeight(p)
  BY Zenon DEF items, viewHeight
<1>6. ChoiceInv(p)'
  <2>1. rows[p] # <<>> BY Zenon DEF ConsoleInv, Mine, ChoiceInv
  <2> QED BY <1>2, <1>3, <1>5, <2>1, Zenon DEF ChoiceInv
<1>7. Only(p) /\ ProcessTypes'
  BY <1>1, <1>2, Zenon DEF Only, ProcessTypes, TypeOK, ghosts
<1>8. ~At(p, "write") /\ ~At(p, "rename") /\ ~At(p, "write")' /\ ~At(p, "rename")'
  BY <1>3, Zenon DEF At
<1> QED BY <1>1, <1>4, <1>6, <1>7, <1>8, QuietStep, Zenon DEF Mine, TypeOK, ghosts

\* What the user does in a selection.
LEMMA UserStep ==
    ASSUME ConsoleInv, NEW p \in Process,
           moveUp(p) \/ moveDown(p) \/ Enter(p) \/ Escape(p) \/ HangUp(p)
    PROVE  ConsoleInv'
<1>1. TypeOK /\ At(p, "choose") /\ todo[p] # <<>> /\ Head(todo[p]) = "choose"
  BY Zenon DEF ConsoleInv, moveUp, moveDown, Enter, Escape, HangUp, Pressed, At
<1>2. /\ rows[p] # <<>> /\ rows[p] \in Seq(tenants) /\ cursor[p] \in Nat /\ offset[p] \in Nat
      /\ offset[p] <= cursor[p] /\ cursor[p] < offset[p] + viewHeight(p)
      /\ offset[p] + viewHeight(p) <= Len(items(p))
  BY <1>1, Zenon DEF ConsoleInv, Mine, ChoiceInv, TypeOK
<1>3. viewHeight(p) \in Nat \ {0}
  <2>1. PICK r \in Seq(tenants) : r = rows[p] /\ r # <<>> BY <1>2, Zenon
  <2>2. Len(r) \in Nat \ {0} BY <2>1
  <2> QED BY <2>1, <2>2, ConsoleAssumption, Zenon DEF viewHeight
<1>4. Len(items(p)) \in Nat
  <2>1. rows[p] \in Seq(TenantId) BY <1>1, <1>2 DEF TypeOK
  <2> QED BY <1>2, <2>1, Rendered, Zenon DEF items
<1>5. CASE moveUp(p)
  <2>1. /\ cursor[p] > 0 /\ cursor' = [cursor EXCEPT ![p] = @ - 1]
        /\ offset' = [offset EXCEPT ![p] = IF cursor'[p] < @ THEN cursor'[p] ELSE @]
        /\ UNCHANGED <<tenants, disk, todo, doc, asked, fd, rows, hung, ghosts>>
    BY <1>5, Zenon DEF moveUp
  <2>2. PICK c \in Nat : c = cursor[p] - 1 BY <1>2, <2>1
  <2>3. PICK o \in Nat : o = IF c < offset[p] THEN c ELSE offset[p] BY <1>2, Zenon
  <2>4. cursor' = [cursor EXCEPT ![p] = c] /\ offset' = [offset EXCEPT ![p] = o]
    BY <1>1, <2>1, <2>2, <2>3, Zenon DEF TypeOK
  <2>5. o <= c /\ c < o + viewHeight(p) /\ o + viewHeight(p) <= Len(items(p))
    BY <1>2, <1>3, <1>4, <2>2, <2>3
  <2> QED BY <1>1, <2>1, <2>4, <2>5, MoveStep, Zenon DEF TypeOK
<1>6. CASE moveDown(p)
  <2>1. /\ cursor[p] < Len(items(p)) - 1 /\ cursor' = [cursor EXCEPT ![p] = @ + 1]
        /\ offset' = [offset EXCEPT ![p] =
                        IF cursor'[p] >= @ + viewHeight(p) THEN cursor'[p] - viewHeight(p) + 1 ELSE @]
        /\ UNCHANGED <<tenants, disk, todo, doc, asked, fd, rows, hung, ghosts>>
    BY <1>6, Zenon DEF moveDown
  <2>2. PICK c \in Nat : c = cursor[p] + 1 BY <1>2
  <2>3. PICK o \in Nat : o = IF c >= offset[p] + viewHeight(p) THEN c - viewHeight(p) + 1 ELSE offset[p]
    BY <1>2, <1>3
  <2>4. cursor' = [cursor EXCEPT ![p] = c] /\ offset' = [offset EXCEPT ![p] = o]
    BY <1>1, <2>1, <2>2, <2>3, Zenon DEF TypeOK
  <2>5. o <= c /\ c < o + viewHeight(p) /\ o + viewHeight(p) <= Len(items(p))
    <3>1. PICK v \in Nat \ {0} : v = viewHeight(p) BY <1>3, Zenon
    <3>2. PICK l \in Nat : l = Len(items(p)) BY <1>4, Zenon
    <3>3. PICK x \in Nat : x = offset[p] BY <1>2, Zenon
    <3>4. PICK y \in Nat : y = cursor[p] BY <1>2, Zenon
    <3>5. x <= y /\ y < x + v /\ x + v <= l
      BY <1>2, <3>1, <3>2, <3>3, <3>4, Zenon
    <3>6. y < l - 1 /\ c = y + 1
      BY <2>1, <2>2, <3>2, <3>4, Zenon
    <3>7. o = IF c >= x + v THEN c - v + 1 ELSE x
      BY <2>3, <3>1, <3>3, Zenon
    <3>8. o <= c /\ c < o + v /\ o + v <= l
      BY <3>5, <3>6, <3>7
    <3> QED BY <3>1, <3>2, <3>8, Zenon
  <2> QED BY <1>1, <2>1, <2>4, <2>5, MoveStep, Zenon DEF TypeOK
<1>7. CASE HangUp(p)
  <2>1. /\ hung' = [hung EXCEPT ![p] = TRUE] /\ cursor' = [cursor EXCEPT ![p] = 0]
        /\ offset' = [offset EXCEPT ![p] = 0]
        /\ UNCHANGED <<tenants, disk, todo, doc, asked, fd, rows, ghosts>>
    BY <1>7, Zenon DEF HangUp
  <2>2. hung' \in [Process -> BOOLEAN] BY <1>1, <2>1, Zenon DEF TypeOK
  <2>3. 0 <= 0 /\ 0 < 0 + viewHeight(p) /\ 0 + viewHeight(p) <= Len(items(p)) /\ 0 \in Nat
    BY <1>2, <1>3, <1>4
  <2> QED BY <1>1, <2>1, <2>2, <2>3, MoveStep, Zenon
<1>8. CASE Escape(p)
  <2>1. Check(p, FALSE) BY <1>8, Zenon DEF Escape
  <2> QED BY <1>1, <2>1, CheckStep, Zenon
<1>9. CASE Enter(p)
  <2>1. UNCHANGED <<started, tenants, disk, meant, clean>> /\ ~At(p, "write") /\ ~At(p, "rename")
    BY <1>1, <1>9, Zenon DEF Enter, At
  <2>2. CASE ~(cursor[p] < Len(rows[p]))
    <3>1. Exit(p) BY <1>9, <2>2, Zenon DEF Enter
    <3> QED BY <1>1, <2>1, <3>1, Ended, QuietStep, Zenon DEF TypeOK
  <2>3. CASE cursor[p] < Len(rows[p])
    <3> DEFINE d == rows[p][cursor[p] + 1]
    <3>1. doc' = [doc EXCEPT ![p] = d] /\ Proceed(p) /\ UNCHANGED <<asked, fd, choice, alone>>
      BY <1>9, <2>3, Zenon DEF Enter, Chosen
    <3>2. d \in tenants BY <1>2, <2>3
    <3>3. d \in Doc BY <1>1, <3>2, Zenon DEF TypeOK, Doc
    <3> HIDE DEF d
    <3>4. /\ todo' \in [Process -> Seq(StepName)] /\ \A q \in Process \ {p} : todo'[q] = todo[q]
          /\ Script(todo[p])'
          /\ \A x : At(p, x)' => Follows("choose", x)
          /\ todo'[p] # <<>>
          /\ ~AboutKeys(todo[p])'
      BY <1>1, <3>1, Proceeds, Zenon
    <3>5. \A x : At(p, x)' <=> x = "open"
      <4>1. \A x : At(p, x)' => x = "open" BY <3>4, Zenon DEF Follows, KeyRpc
      <4>2. \E x : At(p, x)' BY <3>4, Zenon DEF At
      <4> QED BY <4>1, <4>2, Zenon
    <3>6. /\ doc'[p] = d /\ \A q \in Process \ {p} : doc'[q] = doc[q]
          /\ doc' \in [Process -> Doc \cup {None}]
      BY <1>1, <3>1, <3>3, Zenon DEF TypeOK
    <3>7. fd[p] = 0 BY <2>1, Zenon DEF ConsoleInv, Mine, WorksOn
    <3>8. WorksOn(p)' BY <2>1, <3>1, <3>2, <3>4, <3>5, <3>6, <3>7, Zenon DEF WorksOn, Saves
    <3>9. ChoiceInv(p)'
      BY <1>2, <2>3, <3>1, <3>5, <3>6, Zenon DEF ChoiceInv, choice, Saves, d
    <3>10. Only(p) /\ ProcessTypes'
      BY <1>1, <2>1, <3>1, <3>4, <3>6, Zenon DEF Only, ProcessTypes, TypeOK, choice
    <3>11. ~At(p, "write")' /\ ~At(p, "rename")' /\ Mine(p)'
      BY <3>4, <3>5, <3>8, <3>9, Zenon DEF Mine
    <3> QED BY <1>1, <2>1, <3>1, <3>10, <3>11, QuietStep, Zenon DEF TypeOK
  <2> QED BY <2>2, <2>3, Zenon
<1> QED BY <1>5, <1>6, <1>7, <1>8, <1>9, Zenon

-----------------------------------------------------------------------------
(* Saves *)

\* Who saves, after a step of p.
LEMMA OthersSave ==
    ASSUME NEW p \in Process, Only(p), NEW q \in Process \ {p}
    PROVE  /\ file(q)' = file(q) /\ doc'[q] = doc[q] /\ fd'[q] = fd[q]
           /\ At(q, "write")' <=> At(q, "write")
           /\ At(q, "rename")' <=> At(q, "rename")
           /\ \A f \in File : q \in Saving(f)' <=> q \in Saving(f)
<1>1. todo'[q] = todo[q] /\ doc'[q] = doc[q] /\ fd'[q] = fd[q]
  BY Zenon DEF Only
<1>2. file(q)' = file(q)
  BY <1>1, Zenon DEF file
<1>3. At(q, "write")' <=> At(q, "write")
  BY <1>1, Zenon DEF At
<1>4. At(q, "rename")' <=> At(q, "rename")
  BY <1>1, Zenon DEF At
<1>5. \A f \in File : q \in Saving(f)' <=> q \in Saving(f)
  BY <1>2, <1>3, <1>4, Zenon DEF Saving
<1> QED BY <1>1, <1>2, <1>3, <1>4, <1>5, Zenon

\* The inodes of a file are inodes, and used ones.
LEMMA InodesUsed ==
    ASSUME TypeOK, NEW f \in File
    PROVE  /\ Inodes(f) \subseteq Inode /\ Inodes(f) \subseteq InUse
           /\ path(f) \in Name /\ tmpPath(f) \in Name /\ path(f) # tmpPath(f)
           /\ \A g \in File \ {f} : {path(f), tmpPath(f)} \cap {path(g), tmpPath(g)} = {}
<1>1. path(f) \in Name /\ tmpPath(f) \in Name /\ path(f) # tmpPath(f)
  BY Zenon DEF path, tmpPath, Name
<1>2. \A g \in File \ {f} : {path(f), tmpPath(f)} \cap {path(g), tmpPath(g)} = {}
  BY DEF path, tmpPath, File
<1>3. Saving(f) \subseteq Process
  BY Zenon DEF Saving
<1>4. Inodes(f) \subseteq InUse
  BY <1>1, <1>3 DEF Inodes, InUse, Range, TypeOK
<1>5. Inodes(f) \subseteq Inode
  BY <1>1, <1>3 DEF Inodes, TypeOK
<1> QED BY <1>1, <1>2, <1>4, <1>5, Zenon

\* A process is about one of the two files, and saves a document that belongs there.
LEMMA FileOf ==
    ASSUME NEW p \in Process
    PROVE  file(p) \in File /\ (p \in Saving(file(p)) <=> At(p, "write") \/ At(p, "rename"))
BY Zenon DEF file, File, Saving

\* The end of a process is no harm to the files: what it had open under no name
\* is gone, the rest is as it was.
LEMMA DiskShrinks ==
    ASSUME ConsoleInv, NEW p \in Process, Only(p), TypeOK',
           dir' = dir, meant' = meant, clean' = clean,
           \A q \in Process \ {p} : alone'[q] = alone[q],
           ~At(p, "write")', ~At(p, "rename")', fd'[p] = 0,
           \A i \in Inode : i \in InUse' => data'[i] = data[i]
    PROVE  DiskInv'
<1>1. \A q \in Process \ {p} :
          /\ file(q)' = file(q) /\ doc'[q] = doc[q] /\ fd'[q] = fd[q]
          /\ At(q, "write")' <=> At(q, "write")
          /\ At(q, "rename")' <=> At(q, "rename")
          /\ \A f \in File : q \in Saving(f)' <=> q \in Saving(f)
  BY OthersSave, Zenon
<1>2. ASSUME NEW f \in File PROVE Saving(f)' = Saving(f) \ {p}
  <2>1. p \notin Saving(f)' BY Zenon DEF Saving
  <2>2. Saving(f)' \subseteq Process /\ Saving(f) \subseteq Process BY Zenon DEF Saving
  <2> QED BY <1>1, <2>1, <2>2, Zenon
<1>3. ASSUME NEW f \in File
      PROVE  /\ Inodes(f)' \subseteq Inodes(f)
             /\ \A i \in Inodes(f)' : data'[i] = data[i]
  <2>1. Inodes(f)' \subseteq Inodes(f)
    <3>1. \A q \in Saving(f)' : q \in Saving(f) /\ fd'[q] = fd[q]
      BY <1>1, <1>2, Zenon DEF Saving
    <3> QED BY <3>1, Zenon DEF Inodes
  <2>2. Inodes(f)' \subseteq Inode' /\ Inodes(f)' \subseteq InUse'
    <3>1. Saving(f)' \subseteq Process /\ path(f) \in Name /\ tmpPath(f) \in Name
      BY Zenon DEF Saving, path, tmpPath, Name
    <3> QED BY <3>1 DEF Inodes, InUse, Range, TypeOK
  <2> QED BY <2>1, <2>2, Zenon DEF Inode
<1>4. ASSUME NEW f \in File, dir[path(f)] # 0 PROVE data'[dir[path(f)]] = data[dir[path(f)]]
  BY <1>3, <1>4, Zenon DEF Inodes
<1>5. ASSUME NEW f \in File PROVE FileInv(f)'
  <2>1. FileInv(f) /\ tenants \subseteq tenants' BY Zenon DEF ConsoleInv, DiskInv, Only
  <2>2. Parsed(f)' = Parsed(f) BY <1>4, Zenon DEF Parsed
  <2>3. \A g \in File : g # f => Inodes(f)' \cap Inodes(g)' = {} BY <1>3, <2>1, Zenon DEF FileInv
  <2>4. \A i \in Inodes(f)' : data'[i].doc \in {None} \cup IF f = "state" THEN tenants' ELSE Token
    BY <1>3, <2>1, Zenon DEF FileInv
  <2>5. clean'[f] /\ dir'[path(f)] # 0 => \A q \in Process : fd'[q] # dir'[path(f)]
    BY <1>1, <2>1, Zenon DEF FileInv
  <2> QED BY <2>1, <2>2, <2>3, <2>4, <2>5, Zenon DEF FileInv
<1>6. ASSUME NEW q \in Process PROVE AloneInv(q)'
  <2>1. CASE q = p
    <3>1. \A g : p \notin Saving(g)' BY Zenon DEF Saving
    <3> QED BY <2>1, <3>1, Zenon DEF AloneInv
  <2>2. CASE q # p
    <3>0. AloneInv(q) BY Zenon DEF ConsoleInv, DiskInv
    <3>1. PICK f \in File : f = file(q) /\ file(q)' = f
      BY <1>1, <2>2, FileOf, Zenon
    <3>2. Saving(f)' = Saving(f) \ {p} BY <1>2, Zenon
    <3>3. dir[tmpPath(f)] # 0 => data'[dir[tmpPath(f)]] = data[dir[tmpPath(f)]]
      BY <1>3, Zenon DEF Inodes
    <3> SUFFICES ASSUME q \in Saving(f)', alone'[q]
                 PROVE  /\ Saving(f)' = {q} /\ dir'[tmpPath(f)] # 0
                        /\ At(q, "write")' => fd'[q] = dir'[tmpPath(f)] /\ data'[fd'[q]] = Nothing
                        /\ At(q, "rename")' => data'[dir'[tmpPath(f)]] = Whole(doc'[q])
      BY <3>1, Zenon DEF AloneInv, Whole
    <3>4. /\ Saving(f) = {q} /\ dir[tmpPath(f)] # 0
          /\ At(q, "write") => fd[q] = dir[tmpPath(f)] /\ data[fd[q]] = Nothing
          /\ At(q, "rename") => data[dir[tmpPath(f)]] = Whole(doc[q])
      BY <2>2, <3>0, <3>1, <3>2, Zenon DEF AloneInv
    <3> QED BY <1>1, <2>2, <3>2, <3>3, <3>4, Zenon
  <2> QED BY <2>1, <2>2, Zenon
<1> QED BY <1>5, <1>6, Zenon DEF DiskInv

\* A process is killed, or its step fails.
LEMMA StopStep ==
    ASSUME ConsoleInv, NEW p \in Process, Stop(p)
    PROVE  ConsoleInv'
<1>1. /\ TypeOK /\ Exit(p) /\ UNCHANGED <<started, tenants, dir, meant, clean>>
      /\ Keep(data, dir, Closed(p))
  BY Zenon DEF ConsoleInv, Stop
<1>2. /\ Only(p) /\ Mine(p)' /\ ProcessTypes'
      /\ \A q \in Process \ {p} : alone'[q] = alone[q]
      /\ \A x : ~At(p, x)'
      /\ fd' = Closed(p)
  BY <1>1, Ended, Zenon
<1>3. data' \in [Inode -> [doc : Doc \cup {None}, len : Nat]]
  <2>1. Nothing \in [doc : Doc \cup {None}, len : Nat] BY Zenon DEF Nothing
  <2> QED BY <1>1, <2>1, Zenon DEF TypeOK, Keep
<1>4. TypeOK'
  BY <1>1, <1>2, <1>3, Zenon DEF TypeOK, ProcessTypes
<1>5. \A i \in Inode : i \in InUse' => data'[i] = data[i]
  BY <1>1, <1>2, Zenon DEF Keep, InUse
<1>6. fd'[p] = 0
  BY <1>1, <1>2, Zenon DEF Closed, TypeOK
<1>7. DiskInv'
  BY <1>1, <1>2, <1>4, <1>5, <1>6, DiskShrinks, Zenon
<1>8. \A q \in Process : Mine(q)'
  BY <1>2, OthersKeep, Zenon DEF ConsoleInv
<1> QED BY <1>4, <1>7, <1>8, Zenon DEF ConsoleInv

\* The temporary file is opened, new or empty again.
LEMMA OpenStep ==
    ASSUME ConsoleInv, NEW p \in Process, Open(p)
    PROVE  ConsoleInv'
<1>1. TypeOK /\ At(p, "open") /\ todo[p] # <<>> /\ Head(todo[p]) = "open"
  BY Zenon DEF ConsoleInv, Open, At
<1>2. PICK f \in File : f = file(p)
  BY FileOf, Zenon
<1>3. /\ path(f) \in Name /\ tmpPath(f) \in Name /\ path(f) # tmpPath(f)
      /\ \A g \in File \ {f} : {path(f), tmpPath(f)} \cap {path(g), tmpPath(g)} = {}
      /\ \A g \in File : Inodes(g) \subseteq Inode /\ Inodes(g) \subseteq InUse
      /\ \A g \in File : path(g) \in Name /\ tmpPath(g) \in Name
  BY <1>1, InodesUsed, Zenon
<1>4. PICK i \in Inode : /\ i = IF dir[tmpPath(f)] = 0 THEN NewInode ELSE dir[tmpPath(f)]
                         /\ i # 0 /\ ((i \in Inodes(f) /\ i = dir[tmpPath(f)]) \/ i \notin InUse)
  <2>1. CASE dir[tmpPath(f)] = 0
    <3>1. 0 \in InUse BY <1>1, <1>3, <2>1, Zenon DEF InUse, Range, TypeOK
    <3>2. NewInode \in Inode /\ NewInode \notin InUse BY <1>1, <3>1, FreeInode, Zenon
    <3>3. NewInode # 0 BY <3>2, FourNames, Zenon
    <3> QED BY <2>1, <3>2, <3>3, Zenon
  <2>2. CASE dir[tmpPath(f)] # 0
    <3>1. dir[tmpPath(f)] \in Inodes(f) BY <2>2, Zenon DEF Inodes
    <3> QED BY <1>3, <2>2, <3>1, Zenon
  <2> QED BY <2>1, <2>2, Zenon
<1>5. /\ dir' = [dir EXCEPT ![tmpPath(f)] = i] /\ fd' = [fd EXCEPT ![p] = i]
      /\ data' = [data EXCEPT ![i] = Nothing]
      /\ alone' = [q \in Process |-> IF q = p THEN Saving(f) = {} ELSE alone[q] /\ q \notin Saving(f)]
      /\ Proceed(p)
      /\ UNCHANGED <<started, tenants, doc, asked, choice, meant, clean>>
  BY <1>2, <1>4, Zenon DEF Open
<1>6. /\ todo' \in [Process -> Seq(StepName)] /\ \A q \in Process \ {p} : todo'[q] = todo[q]
      /\ Script(todo[p])'
      /\ \A x : At(p, x)' => Follows("open", x)
      /\ todo'[p] # <<>> /\ ~AboutKeys(todo[p])'
  BY <1>1, <1>5, Proceeds, Zenon
<1>7. \A x : At(p, x)' <=> x = "write"
  <2>1. \A x : At(p, x)' => x = "write" BY <1>6, Zenon DEF Follows, KeyRpc
  <2>2. \E x : At(p, x)' BY <1>6, Zenon DEF At
  <2> QED BY <2>1, <2>2, Zenon
<1>8. /\ dir'[tmpPath(f)] = i /\ \A n \in Name : n # tmpPath(f) => dir'[n] = dir[n]
      /\ fd'[p] = i /\ \A q \in Process \ {p} : fd'[q] = fd[q]
      /\ data'[i] = Nothing /\ \A j \in Inode : j # i => data'[j] = data[j]
  BY <1>1, <1>3, <1>5, Zenon DEF TypeOK
<1>9. TypeOK'
  <2>1. Nothing \in [doc : Doc \cup {None}, len : Nat] BY Zenon DEF Nothing
  <2>2. alone' \in [Process -> BOOLEAN] BY <1>1, <1>5, Zenon DEF TypeOK
  <2>3. data' \in [Inode -> [doc : Doc \cup {None}, len : Nat]] BY <1>1, <1>5, <2>1, Zenon DEF TypeOK
  <2> QED BY <1>1, <1>5, <1>6, <2>2, <2>3, Zenon DEF TypeOK, choice
<1>10. Only(p)
  BY <1>5, <1>6, <1>8, Zenon DEF Only, choice
<1>11. WorksOn(p)' /\ ChoiceInv(p)'
  <2>1. doc[p] \in tenants \cup Token BY <1>1, Zenon DEF ConsoleInv, Mine, WorksOn, Saves
  <2>2. WorksOn(p)' BY <1>4, <1>5, <1>6, <1>7, <1>8, <2>1, Zenon DEF WorksOn, Saves
  <2>3. ~At(p, "choose") BY <1>1, Zenon DEF At
  <2>4. ChoiceInv(p)' BY <1>5, <1>7, <2>3, Zenon DEF ConsoleInv, Mine, ChoiceInv, choice, Saves
  <2> QED BY <2>2, <2>4, Zenon
<1>12. \A q \in Process : Mine(q)'
  BY <1>6, <1>10, <1>11, OthersKeep, Zenon DEF ConsoleInv, Mine
<1>13. \A q \in Process \ {p} :
          /\ file(q)' = file(q) /\ doc'[q] = doc[q] /\ fd'[q] = fd[q]
          /\ At(q, "write")' <=> At(q, "write")
          /\ At(q, "rename")' <=> At(q, "rename")
          /\ \A g \in File : q \in Saving(g)' <=> q \in Saving(g)
  BY <1>10, OthersSave, Zenon
<1>14. file(p)' = f
  BY <1>2, <1>5, Zenon DEF file
<1>15. /\ Saving(f)' = Saving(f) \cup {p} /\ \A g \in File \ {f} : Saving(g)' = Saving(g)
       /\ p \notin Saving(f)
  <2>1. p \in Saving(f)' /\ \A g \in File \ {f} : p \notin Saving(g)' BY <1>7, <1>14, Zenon DEF Saving
  <2>2. \A g \in File : p \notin Saving(g) BY <1>1, Zenon DEF Saving, At
  <2>3. \A g \in File : Saving(g)' \subseteq Process /\ Saving(g) \subseteq Process BY Zenon DEF Saving
  <2>4. \A q \in Process : q \in Saving(f)' <=> q \in Saving(f) \/ q = p BY <1>13, <2>1, Zenon
  <2>5. \A g \in File \ {f} : \A q \in Process : q \in Saving(g)' <=> q \in Saving(g)
    BY <1>13, <2>1, <2>2, Zenon
  <2>6. Saving(f)' = Saving(f) \cup {p} BY <2>3, <2>4, Zenon
  <2>7. \A g \in File \ {f} : Saving(g)' = Saving(g) BY <2>3, <2>5, Zenon
  <2> QED BY <2>2, <2>6, <2>7, Zenon
<1>16. Inodes(f)' \subseteq Inodes(f) \cup {i} /\ \A g \in File \ {f} : Inodes(g)' = Inodes(g) /\ i \notin Inodes(g)
  <2>1. \A g \in File : \A q \in Saving(g) : q \in Process \ {p}
    BY <1>2, <1>15, Zenon DEF Saving
  <2>2. Inodes(f)' \subseteq Inodes(f) \cup {i}
    <3>1. dir'[path(f)] = dir[path(f)] /\ dir'[tmpPath(f)] = i BY <1>3, <1>8, Zenon
    <3>2. \A q \in Saving(f)' : q \in Saving(f) \/ q = p BY <1>15, Zenon
    <3>3. \A q \in Saving(f)' : (q \in Saving(f) /\ fd'[q] = fd[q]) \/ fd'[q] = i
      BY <1>8, <2>1, <3>2, Zenon
    <3> QED BY <3>1, <3>3, Zenon DEF Inodes
  <2>3. ASSUME NEW g \in File \ {f} PROVE Inodes(g)' = Inodes(g) /\ i \notin Inodes(g)
    <3>1. Saving(g)' = Saving(g) BY <1>15, Zenon
    <3>2. dir'[path(g)] = dir[path(g)] /\ dir'[tmpPath(g)] = dir[tmpPath(g)] BY <1>3, <1>8, Zenon
    <3>3. \A q \in Saving(g) : fd'[q] = fd[q] BY <1>8, <2>1, Zenon
    <3>4. Inodes(g)' = Inodes(g) BY <3>1, <3>2, <3>3, Zenon DEF Inodes
    <3>5. Inodes(f) \cap Inodes(g) = {} BY Zenon DEF ConsoleInv, DiskInv, FileInv
    <3> QED BY <1>3, <1>4, <3>4, <3>5, Zenon
  <2> QED BY <2>2, <2>3, Zenon
<1>17. ASSUME NEW g \in File PROVE FileInv(g)'
  <2>1. FileInv(g) BY Zenon DEF ConsoleInv, DiskInv
  <2>2. dir'[path(g)] = dir[path(g)] BY <1>3, <1>8, Zenon
  <2>3. dir[path(g)] # 0 => dir[path(g)] # i /\ dir[path(g)] \in Inode
    <3>1. dir[path(g)] # 0 => dir[path(g)] \in Inodes(g) BY Zenon DEF Inodes
    <3> QED BY <1>3, <1>4, <1>16, <2>1, <3>1, Zenon DEF FileInv
  <2>4. \A h \in File : h # g => Inodes(g)' \cap Inodes(h)' = {}
    <3>1. \A h \in File : h # g => Inodes(g) \cap Inodes(h) = {} BY <2>1, Zenon DEF FileInv
    <3> QED BY <1>16, <3>1
  <2>5. dir'[path(g)] # 0 => dir'[path(g)] # dir'[tmpPath(g)]
    BY <1>3, <1>8, <2>1, <2>2, <2>3, Zenon DEF FileInv
  <2>6. \A j \in Inodes(g)' : data'[j].doc \in {None} \cup IF g = "state" THEN tenants' ELSE Token
    <3>1. ASSUME NEW j \in Inodes(g)' PROVE data'[j].doc \in {None} \cup IF g = "state" THEN tenants ELSE Token
      <4>1. CASE j = i BY <1>8, <4>1 DEF Nothing
      <4>2. CASE j # i
        <5>1. j \in Inodes(g) /\ j \in Inode BY <1>3, <1>16, <4>2
        <5> QED BY <1>8, <2>1, <4>2, <5>1, Zenon DEF FileInv
      <4> QED BY <4>1, <4>2, Zenon
    <3> QED BY <1>5, <3>1, Zenon
  <2>7. Parsed(g)' = Parsed(g) BY <1>8, <2>2, <2>3, Zenon DEF Parsed
  <2>8. clean[g] /\ dir[path(g)] # 0 => \A q \in Process : fd'[q] # dir[path(g)]
    BY <1>8, <2>1, <2>3, Zenon DEF FileInv
  <2> QED BY <1>5, <2>1, <2>2, <2>4, <2>5, <2>6, <2>7, <2>8, Zenon DEF FileInv
<1>18. ASSUME NEW q \in Process PROVE AloneInv(q)'
  <2>1. CASE q = p
    <3>1. alone'[p] => Saving(f)' = {p} BY <1>5, <1>15, Zenon
    <3> QED BY <1>4, <1>7, <1>8, <1>14, <2>1, <3>1, Zenon DEF AloneInv
  <2>2. CASE q # p
    <3>1. PICK g \in File : g = file(q) /\ file(q)' = g BY <1>13, <2>2, FileOf, Zenon
    <3> SUFFICES ASSUME q \in Saving(g)', alone'[q]
                 PROVE  /\ Saving(g)' = {q} /\ dir'[tmpPath(g)] # 0
                        /\ At(q, "write")' => fd'[q] = dir'[tmpPath(g)] /\ data'[fd'[q]] = Nothing
                        /\ At(q, "rename")' => data'[dir'[tmpPath(g)]] = Whole(doc'[q])
      BY <3>1, Zenon DEF AloneInv
    <3>2. q \in Saving(g) /\ alone[q] /\ q \notin Saving(f) BY <1>5, <1>13, <2>2, Zenon
    <3>3. g # f BY <3>2, Zenon
    <3>4. /\ Saving(g) = {q} /\ dir[tmpPath(g)] # 0
          /\ At(q, "write") => fd[q] = dir[tmpPath(g)] /\ data[fd[q]] = Nothing
          /\ At(q, "rename") => data[dir[tmpPath(g)]] = Whole(doc[q])
      BY <3>1, <3>2, Zenon DEF ConsoleInv, DiskInv, AloneInv
    <3>5. dir'[tmpPath(g)] = dir[tmpPath(g)] BY <1>3, <1>8, <3>3, Zenon
    <3>6. dir[tmpPath(g)] \in Inodes(g) BY <3>4, Zenon DEF Inodes
    <3>7. data'[dir[tmpPath(g)]] = data[dir[tmpPath(g)]] BY <1>3, <1>8, <1>16, <3>3, <3>6, ZenonT(30)
    <3>8. Saving(g)' = Saving(g) BY <1>15, <3>3, Zenon
    <3> QED BY <1>13, <2>2, <3>4, <3>5, <3>7, <3>8, Zenon
  <2> QED BY <2>1, <2>2, Zenon
<1> QED BY <1>9, <1>12, <1>17, <1>18, Zenon DEF ConsoleInv, DiskInv

\* The document is written to the inode that was opened, whatever its name is now.
LEMMA WriteStep ==
    ASSUME ConsoleInv, NEW p \in Process, Write(p)
    PROVE  ConsoleInv'
<1>1. TypeOK /\ At(p, "write") /\ todo[p] # <<>> /\ Head(todo[p]) = "write"
  BY Zenon DEF ConsoleInv, Write, At
<1>2. PICK f \in File : f = file(p)
  BY FileOf, Zenon
<1>3. /\ \A g \in File : Inodes(g) \subseteq Inode /\ Inodes(g) \subseteq InUse
      /\ \A g \in File : path(g) \in Name /\ tmpPath(g) \in Name
  BY <1>1, InodesUsed, Zenon
<1>4. PICK i \in Inode : i = fd[p] /\ i # 0 /\ i \in Inodes(f)
  <2>1. fd[p] # 0 BY <1>1, Zenon DEF ConsoleInv, Mine, WorksOn
  <2>2. fd[p] \in Inodes(f) BY <1>1, <1>2, <2>1, FileOf, Zenon DEF Inodes
  <2> QED BY <1>3, <2>1, <2>2, Zenon
<1>5. PICK d \in Doc : d = doc[p] /\ d \in IF f = "state" THEN tenants ELSE Token
  <2>1. doc[p] \in tenants \cup Token BY <1>1, Zenon DEF ConsoleInv, Mine, WorksOn, Saves
  <2> QED BY <1>1, <1>2, <2>1, Zenon DEF file, Doc, TypeOK
<1>6. PICK n \in Nat : n = (IF data[i].len > Size[d] THEN data[i].len ELSE Size[d])
  BY <1>1, ConsoleAssumption, Zenon DEF TypeOK
<1>7. /\ fd' = Closed(p) /\ Proceed(p)
      /\ UNCHANGED <<started, tenants, dir, doc, asked, choice, ghosts>>
      /\ Keep([data EXCEPT ![i] = [doc |-> d, len |-> n]], dir, Closed(p))
  BY <1>4, <1>5, <1>6, Zenon DEF Write
<1>8. /\ todo' \in [Process -> Seq(StepName)] /\ \A q \in Process \ {p} : todo'[q] = todo[q]
      /\ Script(todo[p])'
      /\ \A x : At(p, x)' => Follows("write", x)
      /\ todo'[p] # <<>> /\ ~AboutKeys(todo[p])'
  BY <1>1, <1>7, Proceeds, Zenon
<1>9. \A x : At(p, x)' <=> x = "rename"
  <2>1. \A x : At(p, x)' => x = "rename" BY <1>8, Zenon DEF Follows, KeyRpc
  <2>2. \E x : At(p, x)' BY <1>8, Zenon DEF At
  <2> QED BY <2>1, <2>2, Zenon
<1>10. fd'[p] = 0 /\ \A q \in Process \ {p} : fd'[q] = fd[q]
  BY <1>1, <1>7, Zenon DEF TypeOK, Closed
<1>11. \A j \in Inode : j \in InUse' => data'[j] = IF j = i THEN [doc |-> d, len |-> n] ELSE data[j]
  BY <1>1, <1>7, Zenon DEF TypeOK, Keep, InUse
<1>12. TypeOK'
  <2>1. Nothing \in [doc : Doc \cup {None}, len : Nat] BY Zenon DEF Nothing
  <2>2. data' \in [Inode -> [doc : Doc \cup {None}, len : Nat]] BY <1>1, <1>7, <2>1, Zenon DEF TypeOK, Keep
  <2> QED BY <1>1, <1>7, <1>8, <2>2, Zenon DEF TypeOK, choice, ghosts, Closed
<1>13. Only(p)
  BY <1>7, <1>8, <1>10, Zenon DEF Only, choice
<1>14. WorksOn(p)' /\ ChoiceInv(p)'
  <2>1. doc[p] \in tenants \cup Token BY <1>1, Zenon DEF ConsoleInv, Mine, WorksOn, Saves
  <2>2. WorksOn(p)' BY <1>7, <1>8, <1>9, <1>10, <2>1, Zenon DEF WorksOn, Saves
  <2>3. ~At(p, "choose") BY <1>1, Zenon DEF At
  <2>4. ChoiceInv(p)' BY <1>7, <1>9, <2>3, Zenon DEF ConsoleInv, Mine, ChoiceInv, choice, Saves
  <2> QED BY <2>2, <2>4, Zenon
<1>15. \A q \in Process : Mine(q)'
  BY <1>8, <1>13, <1>14, OthersKeep, Zenon DEF ConsoleInv, Mine
<1>16. \A q \in Process \ {p} :
          /\ file(q)' = file(q) /\ doc'[q] = doc[q] /\ fd'[q] = fd[q]
          /\ At(q, "write")' <=> At(q, "write")
          /\ At(q, "rename")' <=> At(q, "rename")
          /\ \A g \in File : q \in Saving(g)' <=> q \in Saving(g)
  BY <1>13, OthersSave, Zenon
<1>17. file(p)' = f
  BY <1>2, <1>7, Zenon DEF file
<1>18. \A g \in File : Saving(g)' = Saving(g)
  <2>1. \A g \in File : p \in Saving(g)' <=> p \in Saving(g) BY <1>1, <1>2, <1>9, <1>17, Zenon DEF Saving
  <2>2. \A g \in File : Saving(g)' \subseteq Process /\ Saving(g) \subseteq Process BY Zenon DEF Saving
  <2>3. \A g \in File : \A q \in Process : q \in Saving(g)' <=> q \in Saving(g) BY <1>16, <2>1, Zenon
  <2> QED BY <2>2, <2>3, Zenon
<1>19. ASSUME NEW g \in File
       PROVE  Inodes(g)' \subseteq Inodes(g) /\ Inodes(g)' \subseteq InUse' /\ Inodes(g)' \subseteq Inode
  <2>1. Saving(g) \subseteq Process /\ Saving(g)' = Saving(g) BY <1>18, Zenon DEF Saving
  <2>2. Inodes(g)' \subseteq Inodes(g)
    <3>1. \A q \in Saving(g) : fd'[q] = fd[q] \/ fd'[q] = 0 BY <1>10, <2>1, Zenon
    <3> QED BY <1>7, <2>1, <3>1, Zenon DEF Inodes
  <2>3. Inodes(g)' \subseteq InUse'
    <3>1. dir'[path(g)] \in InUse' /\ dir'[tmpPath(g)] \in InUse'
      BY <1>3, <1>12, Zenon DEF InUse, Range, TypeOK
    <3>2. \A q \in Saving(g)' : fd'[q] \in InUse' BY <1>12, Zenon DEF Saving, InUse, Range, TypeOK
    <3> QED BY <3>1, <3>2, Zenon DEF Inodes
  <2> QED BY <1>3, <2>2, <2>3, Zenon
<1>20. \A g \in File \ {f} : i \notin Inodes(g)
  BY <1>4, Zenon DEF ConsoleInv, DiskInv, FileInv
<1>21. ASSUME NEW g \in File, dir[path(g)] # 0
       PROVE  dir[path(g)] \in Inodes(g)' /\ dir[path(g)] \in Inode /\ dir[path(g)] \in InUse'
  BY <1>7, <1>19, <1>21, Zenon DEF Inodes
<1>22. ASSUME NEW g \in File PROVE FileInv(g)'
  <2>1. FileInv(g) BY Zenon DEF ConsoleInv, DiskInv
  <2>2. clean[g] => Parsed(g)' = Parsed(g)
    <3>1. clean[g] /\ dir[path(g)] # 0 => dir[path(g)] # i BY <1>4, <2>1, Zenon DEF FileInv
    <3>2. clean[g] /\ dir[path(g)] # 0 => data'[dir[path(g)]] = data[dir[path(g)]]
      BY <1>11, <1>21, <3>1, Zenon
    <3> QED BY <1>7, <3>2, Zenon DEF Parsed
  <2>3. \A h \in File : h # g => Inodes(g)' \cap Inodes(h)' = {} BY <1>19, <2>1, Zenon DEF FileInv
  <2>4. ASSUME NEW j \in Inodes(g)'
        PROVE  data'[j].doc \in {None} \cup IF g = "state" THEN tenants ELSE Token
    <3>1. j \in Inodes(g) /\ j \in Inode /\ j \in InUse' BY <1>19, Zenon
    <3>2. CASE j = i
      <4>1. g = f BY <1>20, <3>1, <3>2, Zenon
      <4>2. data'[j].doc = d BY <1>11, <3>1, <3>2
      <4> QED BY <1>5, <4>1, <4>2, Zenon
    <3>3. CASE j # i BY <1>11, <2>1, <3>1, <3>3, Zenon DEF FileInv
    <3> QED BY <3>2, <3>3, Zenon
  <2>5. clean[g] /\ dir[path(g)] # 0 => \A q \in Process : fd'[q] # dir[path(g)]
    BY <1>10, <2>1, Zenon DEF FileInv
  <2> QED BY <1>7, <2>1, <2>2, <2>3, <2>4, <2>5, Zenon DEF FileInv, ghosts
<1>23. ASSUME NEW q \in Process PROVE AloneInv(q)'
  <2>1. PICK g \in File : g = file(q) /\ file(q)' = g BY <1>2, <1>16, <1>17, FileOf, Zenon
  <2> SUFFICES ASSUME q \in Saving(g)', alone'[q]
               PROVE  /\ Saving(g)' = {q} /\ dir'[tmpPath(g)] # 0
                      /\ At(q, "write")' => fd'[q] = dir'[tmpPath(g)] /\ data'[fd'[q]] = Nothing
                      /\ At(q, "rename")' => data'[dir'[tmpPath(g)]] = Whole(doc'[q])
    BY <2>1, Zenon DEF AloneInv, Whole
  <2>2. q \in Saving(g) /\ alone[q] BY <1>7, <1>18, Zenon DEF ghosts
  <2>3. /\ Saving(g) = {q} /\ dir[tmpPath(g)] # 0
        /\ At(q, "write") => fd[q] = dir[tmpPath(g)] /\ data[fd[q]] = Nothing
        /\ At(q, "rename") => data[dir[tmpPath(g)]] = Whole(doc[q])
    BY <2>1, <2>2, Zenon DEF ConsoleInv, DiskInv, AloneInv
  <2>4. Saving(g)' = {q} /\ dir'[tmpPath(g)] = dir[tmpPath(g)] BY <1>7, <1>18, <2>3, Zenon
  <2>5. dir[tmpPath(g)] \in Inodes(g)' BY <2>3, <2>4, Zenon DEF Inodes
  <2>6. CASE q = p
    <3>1. fd[p] = dir[tmpPath(g)] /\ data[i] = Nothing BY <1>1, <1>4, <2>3, <2>6, Zenon
    <3>2. n = Size[d]
      <4>1. Size[d] \in Nat BY ConsoleAssumption, Zenon
      <4>2. data[i].len = 0 BY <3>1 DEF Nothing
      <4> QED BY <1>6, <4>1, <4>2
    <3>3. data'[i] = Whole(d) BY <1>4, <1>11, <1>19, <2>5, <3>1, <3>2, Zenon DEF Whole
    <3> QED BY <1>4, <1>5, <1>7, <1>9, <2>3, <2>4, <2>6, <3>1, <3>3, Zenon
  <2>7. CASE q # p
    <3>1. g # f
      <4>1. p \in Saving(f) BY <1>1, <1>2, FileOf, Zenon
      <4> QED BY <2>3, <2>7, <4>1, Zenon
    <3>2. data'[dir[tmpPath(g)]] = data[dir[tmpPath(g)]] BY <1>11, <1>19, <1>20, <2>5, <3>1, Zenon
    <3> QED BY <1>16, <2>3, <2>4, <2>7, <3>2, Zenon
  <2> QED BY <2>6, <2>7, Zenon
<1> QED BY <1>12, <1>15, <1>22, <1>23, Zenon DEF ConsoleInv, DiskInv

\* The file with the temporary name takes the place of the one that was saved.
LEMMA RenamedStep ==
    ASSUME ConsoleInv, NEW p \in Process, Rename(p),
           NEW f \in File, f = file(p), dir[tmpPath(f)] # 0
    PROVE  ConsoleInv'
<1>1. /\ TypeOK /\ At(p, "rename") /\ Exit(p) /\ tenants' = tenants /\ ~At(p, "write")
      /\ Renamed(p, f)
  BY Zenon DEF ConsoleInv, Rename, At
<1>2. /\ Only(p) /\ Mine(p)' /\ ProcessTypes' /\ fd' = Closed(p) /\ fd' = fd
      /\ \A q \in Process \ {p} : alone'[q] = alone[q]
      /\ \A x : ~At(p, x)'
  BY <1>1, Ended, Zenon
<1>3. /\ path(f) \in Name /\ tmpPath(f) \in Name /\ path(f) # tmpPath(f)
      /\ \A g \in File \ {f} : {path(f), tmpPath(f)} \cap {path(g), tmpPath(g)} = {}
      /\ \A g \in File : Inodes(g) \subseteq Inode /\ Inodes(g) \subseteq InUse
      /\ \A g \in File : path(g) \in Name /\ tmpPath(g) \in Name
  BY <1>1, InodesUsed, Zenon
<1>4. PICK k \in Inodes(f) : k = dir[tmpPath(f)] /\ k # 0
  BY Zenon DEF Inodes
<1>5. /\ dir' = [dir EXCEPT ![path(f)] = k, ![tmpPath(f)] = 0]
      /\ data' = [i \in Inode |-> IF i \in InUse' THEN data[i] ELSE Nothing]
      /\ meant' = [meant EXCEPT ![f] = doc[p]] /\ clean' = [clean EXCEPT ![f] = alone[p]]
  BY <1>1, <1>2, <1>4, Zenon DEF Renamed, Keep, InUse
<1>6. /\ dir'[path(f)] = k /\ dir'[tmpPath(f)] = 0
      /\ \A g \in File \ {f} : dir'[path(g)] = dir[path(g)] /\ dir'[tmpPath(g)] = dir[tmpPath(g)]
  BY <1>1, <1>3, <1>5, Zenon DEF TypeOK
<1>7. TypeOK'
  <2>1. Nothing \in [doc : Doc \cup {None}, len : Nat] BY Zenon DEF Nothing
  <2>2. data' \in [Inode -> [doc : Doc \cup {None}, len : Nat]] BY <1>1, <1>5, <2>1, Zenon DEF TypeOK
  <2>3. dir' \in [Name -> Inode \cup {0}] BY <1>1, <1>3, <1>4, <1>5, Zenon DEF TypeOK
  <2>4. meant' \in [File -> Doc \cup {None}] /\ clean' \in [File -> BOOLEAN]
    BY <1>1, <1>5, Zenon DEF TypeOK
  <2> QED BY <1>1, <1>2, <2>2, <2>3, <2>4, Zenon DEF TypeOK, ProcessTypes
<1>8. \A q \in Process : Mine(q)'
  BY <1>2, OthersKeep, Zenon DEF ConsoleInv
<1>9. \A q \in Process \ {p} :
          /\ file(q)' = file(q) /\ doc'[q] = doc[q] /\ fd'[q] = fd[q]
          /\ At(q, "write")' <=> At(q, "write")
          /\ At(q, "rename")' <=> At(q, "rename")
          /\ \A g \in File : q \in Saving(g)' <=> q \in Saving(g)
  BY <1>2, OthersSave, Zenon
<1>10. ASSUME NEW g \in File PROVE Saving(g)' = Saving(g) \ {p}
  <2>1. p \notin Saving(g)' BY <1>2, Zenon DEF Saving
  <2>2. Saving(g)' \subseteq Process /\ Saving(g) \subseteq Process BY Zenon DEF Saving
  <2> QED BY <1>9, <2>1, <2>2, Zenon
<1>11. p \in Saving(f) /\ \A g \in File \ {f} : p \notin Saving(g)
  BY <1>1, Zenon DEF Saving
<1>12. ASSUME NEW g \in File
       PROVE  /\ Inodes(g)' \subseteq Inodes(g)
              /\ \A i \in Inodes(g)' : data'[i] = data[i]
  <2>1. Inodes(g)' \subseteq Inodes(g)
    <3>1. \A q \in Saving(g)' : q \in Saving(g) /\ fd'[q] = fd[q] BY <1>2, <1>10, Zenon
    <3>2. dir'[path(g)] \in {0, dir[path(g)], dir[tmpPath(g)]} BY <1>4, <1>6, Zenon
    <3>3. dir'[tmpPath(g)] \in {0, dir[tmpPath(g)]} BY <1>6, Zenon
    <3> QED BY <3>1, <3>2, <3>3, Zenon DEF Inodes
  <2>2. Inodes(g)' \subseteq InUse'
    <3>1. dir'[path(g)] \in InUse' /\ dir'[tmpPath(g)] \in InUse'
      BY <1>3, <1>7, Zenon DEF InUse, Range, TypeOK
    <3>2. \A q \in Saving(g)' : fd'[q] \in InUse' BY <1>7, Zenon DEF Saving, InUse, Range, TypeOK
    <3> QED BY <3>1, <3>2, Zenon DEF Inodes
  <2> QED BY <1>3, <1>5, <2>1, <2>2, Zenon
<1>13. data'[k] = data[k]
  <2>1. k \in Inodes(f)' BY <1>4, <1>6, Zenon DEF Inodes
  <2> QED BY <1>12, <2>1, Zenon
<1>14. alone[p] => Saving(f) = {p} /\ data[k] = Whole(doc[p])
  <2>1. AloneInv(p) BY Zenon DEF ConsoleInv, DiskInv
  <2> QED BY <1>1, <1>4, <1>11, <2>1, Zenon DEF AloneInv
<1>15. ASSUME alone[p] PROVE Parsed(f)' = doc[p] /\ \A q \in Process : fd'[q] # k
  <2>1. data'[k] = Whole(doc[p]) BY <1>13, <1>14, <1>15, Zenon
  <2>2. doc[p] \in Doc
    BY <1>1, Zenon DEF ConsoleInv, Mine, WorksOn, Saves, Doc, TypeOK
  <2>3. doc[p] # None BY <2>2, ConsoleAssumption, Zenon DEF Doc, Token, None
  <2>4. Parsed(f)' = doc[p]
    <3>1. data'[dir'[path(f)]].doc = doc[p] /\ data'[dir'[path(f)]].len = Size[doc[p]]
      BY <1>6, <2>1 DEF Whole
    <3>2. dir'[path(f)] # 0 BY <1>4, <1>6, Zenon
    <3> QED BY <2>3, <3>1, <3>2, Zenon DEF Parsed
  <2>5. ASSUME NEW q \in Process, fd[q] = k PROVE FALSE
    <3>1. At(q, "write") BY <1>4, <2>5, Zenon DEF ConsoleInv, Mine, WorksOn
    <3>2. PICK g \in File : g = file(q) /\ q \in Saving(g) BY <3>1, FileOf, Zenon
    <3>3. k \in Inodes(g) BY <1>4, <2>5, <3>2, Zenon DEF Inodes
    <3>4. g = f BY <1>4, <3>3, Zenon DEF ConsoleInv, DiskInv, FileInv
    <3>5. q = p BY <1>14, <1>15, <3>2, <3>4, Zenon
    <3> QED BY <1>1, <3>1, <3>5, Zenon
  <2> QED BY <1>2, <2>4, <2>5, Zenon
<1>16. ASSUME NEW g \in File PROVE FileInv(g)'
  <2>1. FileInv(g) BY Zenon DEF ConsoleInv, DiskInv
  <2>2. \A h \in File : h # g => Inodes(g)' \cap Inodes(h)' = {} BY <1>12, <2>1, Zenon DEF FileInv
  <2>3. \A i \in Inodes(g)' : data'[i].doc \in {None} \cup IF g = "state" THEN tenants' ELSE Token
    BY <1>1, <1>12, <2>1, Zenon DEF FileInv
  <2>4. CASE g = f
    <3>1. clean'[f] = alone[p] /\ meant'[f] = doc[p] BY <1>1, <1>5, Zenon DEF TypeOK
    <3> QED BY <1>4, <1>6, <1>15, <2>2, <2>3, <2>4, <3>1, Zenon DEF FileInv
  <2>5. CASE g # f
    <3>1. clean'[g] = clean[g] /\ meant'[g] = meant[g] BY <1>1, <1>5, <2>5, Zenon DEF TypeOK
    <3>2. dir'[path(g)] = dir[path(g)] /\ dir'[tmpPath(g)] = dir[tmpPath(g)] BY <1>6, <2>5, Zenon
    <3>3. dir[path(g)] # 0 => data'[dir[path(g)]] = data[dir[path(g)]]
      BY <1>12, <3>2, Zenon DEF Inodes
    <3>4. Parsed(g)' = Parsed(g) BY <3>2, <3>3, Zenon DEF Parsed
    <3> QED BY <1>2, <2>1, <2>2, <2>3, <3>1, <3>2, <3>4, Zenon DEF FileInv
  <2> QED BY <2>4, <2>5, Zenon
<1>17. ASSUME NEW q \in Process PROVE AloneInv(q)'
  <2>1. CASE q = p
    <3>1. \A g : p \notin Saving(g)' BY <1>2, Zenon DEF Saving
    <3> QED BY <2>1, <3>1, Zenon DEF AloneInv
  <2>2. CASE q # p
    <3>1. PICK g \in File : g = file(q) /\ file(q)' = g BY <1>9, <2>2, FileOf, Zenon
    <3> SUFFICES ASSUME q \in Saving(g)', alone'[q]
                 PROVE  /\ Saving(g)' = {q} /\ dir'[tmpPath(g)] # 0
                        /\ At(q, "write")' => fd'[q] = dir'[tmpPath(g)] /\ data'[fd'[q]] = Nothing
                        /\ At(q, "rename")' => data'[dir'[tmpPath(g)]] = Whole(doc'[q])
      BY <3>1, Zenon DEF AloneInv, Whole
    <3>2. q \in Saving(g) /\ alone[q] BY <1>2, <1>10, <2>2, Zenon
    <3>3. /\ Saving(g) = {q} /\ dir[tmpPath(g)] # 0
          /\ At(q, "write") => fd[q] = dir[tmpPath(g)] /\ data[fd[q]] = Nothing
          /\ At(q, "rename") => data[dir[tmpPath(g)]] = Whole(doc[q])
      BY <3>1, <3>2, Zenon DEF ConsoleInv, DiskInv, AloneInv
    <3>4. g # f BY <1>11, <2>2, <3>3, Zenon
    <3>5. Saving(g)' = {q} BY <1>10, <1>11, <3>3, <3>4, Zenon
    <3>6. dir'[tmpPath(g)] = dir[tmpPath(g)] BY <1>6, <3>4, Zenon
    <3>7. data'[dir[tmpPath(g)]] = data[dir[tmpPath(g)]] BY <1>12, <3>3, <3>6, Zenon DEF Inodes
    <3> QED BY <1>9, <2>2, <3>3, <3>5, <3>6, <3>7, Zenon
  <2> QED BY <2>1, <2>2, Zenon
<1> QED BY <1>7, <1>8, <1>16, <1>17, Zenon DEF ConsoleInv, DiskInv

\* A save is finished, or finds that another has renamed the temporary file.
LEMMA RenameStep ==
    ASSUME ConsoleInv, NEW p \in Process, Rename(p)
    PROVE  ConsoleInv'
<1>1. PICK f \in File : f = file(p)
  BY FileOf, Zenon
<1>2. CASE dir[tmpPath(f)] # 0
  BY <1>1, <1>2, RenamedStep, Zenon
<1>3. CASE dir[tmpPath(f)] = 0
  <2>1. /\ TypeOK /\ Exit(p) /\ tenants' = tenants /\ ~At(p, "write")
        /\ dir' = dir /\ data' = data /\ meant' = meant /\ clean' = clean
    BY <1>1, <1>3, Zenon DEF ConsoleInv, Rename, At, disk
  <2>2. /\ Only(p) /\ Mine(p)' /\ ProcessTypes'
        /\ \A q \in Process \ {p} : alone'[q] = alone[q]
        /\ \A x : ~At(p, x)'
        /\ fd' = Closed(p)
    BY <2>1, Ended, Zenon
  <2>3. TypeOK' BY <2>1, <2>2, Zenon DEF TypeOK, ProcessTypes
  <2>4. fd'[p] = 0 BY <2>1, <2>2, Zenon DEF Closed, TypeOK
  <2>5. DiskInv' BY <2>1, <2>2, <2>3, <2>4, DiskShrinks, Zenon
  <2>6. \A q \in Process : Mine(q)' BY <2>2, OthersKeep, Zenon DEF ConsoleInv
  <2> QED BY <2>3, <2>5, <2>6, Zenon DEF ConsoleInv
<1> QED BY <1>2, <1>3, Zenon

-----------------------------------------------------------------------------
(* The theorems *)

\* Every step keeps the invariant.
LEMMA NextInv ==
    ASSUME ConsoleInv, [Next]_vars
    PROVE  ConsoleInv'
<1>1. CASE UNCHANGED vars
  <2> USE <1>1 DEF vars, disk, choice, ghosts
  <2>1. \A q : \A x : At(q, x)' <=> At(q, x) BY Zenon DEF At
  <2>2. \A q : (Saves(q)' <=> Saves(q)) /\ file(q)' = file(q) BY <2>1, Zenon DEF Saves, file
  <2>3. \A q : items(q)' = items(q) /\ viewHeight(q)' = viewHeight(q) BY Zenon DEF items, viewHeight
  <2>4. \A q : (WorksOn(q)' <=> WorksOn(q)) /\ (ChoiceInv(q)' <=> ChoiceInv(q))
    BY <2>1, <2>2, <2>3, Zenon DEF WorksOn, ChoiceInv
  <2>5. \A q : Mine(q)' <=> Mine(q) BY <2>4, Zenon DEF Mine
  <2>6. \A g : Saving(g)' = Saving(g) /\ Parsed(g)' = Parsed(g) BY <2>1, <2>2, Zenon DEF Saving, Parsed
  <2>7. \A g : Inodes(g)' = Inodes(g) BY <2>6, Zenon DEF Inodes
  <2>8. \A q : AloneInv(q)' <=> AloneInv(q) BY <2>1, <2>2, <2>6, Zenon DEF AloneInv
  <2>9. \A g : FileInv(g)' <=> FileInv(g) BY <2>6, <2>7, Zenon DEF FileInv
  <2>10. TypeOK' BY Zenon DEF ConsoleInv, TypeOK
  <2> QED BY <2>5, <2>8, <2>9, <2>10, Zenon DEF ConsoleInv, DiskInv
<1>2. CASE Next
  <2>1. PICK p \in Process : \/ Start(p) \/ Step(p) \/ Stop(p)
                             \/ moveUp(p) \/ moveDown(p) \/ Enter(p) \/ Escape(p) \/ HangUp(p)
    BY <1>2, Zenon DEF Next
  <2>2. CASE Start(p) BY <2>2, StartStep, Zenon
  <2>3. CASE Step(p)
    BY <2>3, AskStep, RequestStep, ListTenantsStep, OpenStep, WriteStep, RenameStep, Zenon DEF Step
  <2>4. CASE Stop(p) BY <2>4, StopStep, Zenon
  <2> QED BY <2>1, <2>2, <2>3, <2>4, UserStep, Zenon
<1> QED BY <1>1, <1>2, Zenon

\* An inode that is open under the temporary name only, or for the other file,
\* is not the one under the name of the file.
LEMMA OtherInode ==
    ASSUME ConsoleInv, NEW f \in File, NEW g \in File, NEW i,
           i = dir[tmpPath(g)] \/ (g # f /\ i \in Inodes(g)), i # 0
    PROVE  dir[path(f)] # i
<1> SUFFICES ASSUME dir[path(f)] = i PROVE FALSE
  OBVIOUS
<1>1. FileInv(f)
  BY Zenon DEF ConsoleInv, DiskInv
<1>2. i \in Inodes(f) /\ i \in Inodes(g)
  BY Zenon DEF Inodes
<1>3. g = f
  BY <1>1, <1>2, Zenon DEF FileInv
<1> QED BY <1>1, <1>3, Zenon DEF FileInv

\* What is found in a file depends on its inode only.
LEMMA SameFile ==
    ASSUME NEW f \in File, dir'[path(f)] = dir[path(f)],
           dir[path(f)] # 0 => data'[dir[path(f)]] = data[dir[path(f)]]
    PROVE  Parsed(f)' = Parsed(f)
BY Zenon DEF Parsed

\* A step that changes what is found in a file is the rename of a process that
\* saves it, or the write of one whose save has overlapped with another.
LEMMA FileStep ==
    ASSUME ConsoleInv, [Next]_vars, NEW f \in File, Parsed(f)' # Parsed(f)
    PROVE  \E p \in Process : /\ At(p, "rename") \/ (At(p, "write") /\ ~alone[p])
                              /\ file(p) = f /\ todo'[p] = Tail(todo[p])
<1>1. TypeOK /\ dir \in [Name -> Inode \cup {0}] /\ data \in [Inode -> [doc : Doc \cup {None}, len : Nat]]
  BY Zenon DEF ConsoleInv, TypeOK
<1>2. /\ \A g \in File : path(g) \in Name /\ tmpPath(g) \in Name /\ path(f) # tmpPath(g)
      /\ \A g \in File : g # f => path(f) # path(g)
  BY Zenon DEF path, tmpPath, Name, File
<1>3. dir[path(f)] # 0 => dir[path(f)] \in Inode
  BY <1>1, <1>2, Zenon
<1>4. ~ UNCHANGED disk
  BY SameFile, Zenon DEF disk
<1>5. PICK p \in Process : Stop(p) \/ Open(p) \/ Write(p) \/ Rename(p)
  <2>1. Next BY <1>4, Zenon DEF vars
  <2>2. PICK p \in Process : \/ Start(p) \/ Step(p) \/ Stop(p)
                             \/ moveUp(p) \/ moveDown(p) \/ Enter(p) \/ Escape(p) \/ HangUp(p)
    BY <2>1, Zenon DEF Next
  <2>3. ~ (Start(p) \/ moveUp(p) \/ moveDown(p) \/ Enter(p) \/ Escape(p) \/ HangUp(p))
    BY <1>4, Zenon DEF Start, Run, moveUp, moveDown, Enter, Escape, HangUp, Check
  <2>4. Step(p) => Open(p) \/ Write(p) \/ Rename(p)
    BY <1>4, Zenon DEF Step, selectedTenantID, newConnection, Verify, CheckToken, CallKeyService,
                     CreateTenant, GetTenant, ListTenants, GetAction, Check
  <2> QED BY <2>2, <2>3, <2>4, Zenon
<1>6. PICK g \in File : g = file(p)
  BY FileOf, Zenon
<1>7. ~ Stop(p)
  <2> SUFFICES ASSUME Stop(p) PROVE Parsed(f)' = Parsed(f)
    BY Zenon
  <2>1. dir' = dir /\ Keep(data, dir, Closed(p)) BY Zenon DEF Stop
  <2>2. dir[path(f)] \in Range(dir) BY <1>1, <1>2, Zenon DEF Range
  <2>3. dir[path(f)] # 0 => data'[dir[path(f)]] = data[dir[path(f)]]
    BY <1>3, <2>1, <2>2, Zenon DEF Keep
  <2> QED BY <2>1, <2>3, SameFile, Zenon
<1>8. ~ Open(p)
  <2> SUFFICES ASSUME Open(p) PROVE Parsed(f)' = Parsed(f)
    BY Zenon
  <2>1. PICK i : /\ i = IF dir[tmpPath(g)] = 0 THEN NewInode ELSE dir[tmpPath(g)]
                 /\ dir' = [dir EXCEPT ![tmpPath(g)] = i] /\ data' = [data EXCEPT ![i] = Nothing]
    BY <1>6, Zenon DEF Open
  <2>2. dir[path(f)] # 0 => dir[path(f)] # i
    <3>1. CASE dir[tmpPath(g)] = 0
      <4>1. 0 \in InUse /\ dir[path(f)] \in InUse BY <1>1, <1>2, <3>1, Zenon DEF InUse, Range
      <4>2. i \notin InUse BY <1>1, <2>1, <3>1, <4>1, FreeInode, Zenon
      <4> QED BY <4>1, <4>2, Zenon
    <3>2. CASE dir[tmpPath(g)] # 0 BY <2>1, <3>2, OtherInode, Zenon
    <3> QED BY <3>1, <3>2, Zenon
  <2>3. dir'[path(f)] = dir[path(f)] BY <1>1, <1>2, <2>1, Zenon
  <2>4. dir[path(f)] # 0 => data'[dir[path(f)]] = data[dir[path(f)]] BY <1>1, <1>3, <2>1, <2>2, Zenon
  <2> QED BY <2>3, <2>4, SameFile, Zenon
<1>9. ASSUME Write(p), alone[p] \/ g # f PROVE Parsed(f)' = Parsed(f)
  <2>1. PICK i, x : /\ i = fd[p] /\ dir' = dir
                    /\ Keep([data EXCEPT ![i] = x], dir, Closed(p))
    BY <1>9, Zenon DEF Write
  <2>2. At(p, "write") /\ i # 0
    <3>1. At(p, "write") BY <1>9, Zenon DEF Write
    <3> QED BY <2>1, <3>1, Zenon DEF ConsoleInv, Mine, WorksOn
  <2>3. p \in Saving(g) BY <1>6, <2>2, FileOf, Zenon
  <2>4. i = dir[tmpPath(g)] \/ (g # f /\ i \in Inodes(g))
    <3>1. CASE alone[p] BY <1>6, <2>1, <2>2, <2>3, <3>1, Zenon DEF ConsoleInv, DiskInv, AloneInv
    <3>2. CASE g # f BY <2>1, <2>2, <2>3, <3>2, Zenon DEF Inodes
    <3> QED BY <1>9, <3>1, <3>2, Zenon
  <2>5. dir[path(f)] # i BY <2>2, <2>4, OtherInode, Zenon
  <2>6. dir[path(f)] \in Range(dir) BY <1>1, <1>2, Zenon DEF Range
  <2>7. dir[path(f)] # 0 => data'[dir[path(f)]] = data[dir[path(f)]]
    BY <1>1, <1>3, <2>1, <2>5, <2>6, Zenon DEF Keep
  <2> QED BY <2>1, <2>7, SameFile, Zenon
<1>10. ASSUME Rename(p), g # f PROVE Parsed(f)' = Parsed(f)
  <2>1. Renamed(p, g) BY <1>4, <1>6, <1>10, Zenon DEF Rename
  <2>2. PICK d : /\ d = [dir EXCEPT ![path(g)] = dir[tmpPath(g)], ![tmpPath(g)] = 0]
                 /\ dir' = d /\ Keep(data, d, Closed(p))
    BY <2>1, Zenon DEF Renamed
  <2>3. d[path(f)] = dir[path(f)] /\ d \in [Name -> Inode \cup {0}]
    BY <1>1, <1>2, <1>10, <2>2
  <2>4. dir[path(f)] \in Range(d) BY <1>2, <2>3, Zenon DEF Range
  <2>5. dir[path(f)] # 0 => data'[dir[path(f)]] = data[dir[path(f)]]
    BY <1>3, <2>2, <2>4, Zenon DEF Keep
  <2> QED BY <2>2, <2>3, <2>5, SameFile, Zenon
<1>11. CASE Write(p)
  <2>1. g = f /\ ~alone[p] BY <1>9, <1>11, Zenon
  <2>2. At(p, "write") /\ todo'[p] = Tail(todo[p])
    BY <1>1, <1>11, Zenon DEF Write, Proceed, TypeOK
  <2> QED BY <1>6, <2>1, <2>2, Zenon
<1>12. CASE Rename(p)
  <2>1. g = f BY <1>10, <1>12, Zenon
  <2>2. At(p, "rename") /\ todo'[p] = <<>> BY <1>1, <1>12, Zenon DEF Rename, Exit, TypeOK
  <2>3. Tail(todo[p]) = <<>>
    <3>1. Script(todo[p]) /\ todo[p] # <<>> /\ Head(todo[p]) = "rename"
      BY <2>2, Zenon DEF ConsoleInv, Mine, At
    <3>2. PICK t : t = todo[p] OBVIOUS
    <3>3. Tail(t) # <<>> => Follows("rename", Head(Tail(t))) BY <3>1, <3>2, Onward, Zenon
    <3>4. \A x : ~ Follows("rename", x) BY DEF Follows
    <3> QED BY <3>2, <3>3, <3>4, Zenon
  <2> QED BY <1>6, <2>1, <2>2, <2>3, Zenon
<1> QED BY <1>5, <1>7, <1>8, <1>11, <1>12, Zenon

\* The processes, the files and the names have the types the code gives them.
THEOREM ConsoleTypes == Spec => []TypeOK
<1>1. ConsoleInv => TypeOK BY Zenon DEF ConsoleInv
<1> QED BY <1>1, InitInv, NextInv, PTL DEF Spec

\* A file whose last save overlapped with no other save of it holds all of what
\* was saved, for any number of processes, killed wherever they are.
THEOREM SavedFilesWhole == Spec => []FileIsWhole
BY InitInv, NextInv, InvGivesProperties, PTL DEF Spec

\* The tenant that commands find selected, and every tenant a request about keys
\* names, exists, however the saves of any number of processes overlap.
THEOREM SelectionExists == Spec => []SelectedExists
BY InitInv, NextInv, InvGivesProperties, PTL DEF Spec

\* The highlighted line is visible, for any number of tenants and names of any
\* number of lines.
THEOREM WindowFollowsCursor == Spec => []WindowHoldsCursor
BY InitInv, NextInv, InvGivesProperties, PTL DEF Spec

\* The tenant that is saved is the one whose line was highlighted, as long as no
\* name above it has a line break.
THEOREM HighlightedSaved == Spec => []HighlightedIsSaved
BY InitInv, NextInv, InvGivesProperties, PTL DEF Spec

\* What commands find in a file changes only by the rename of a process that saves
\* it, or by the late write of one whose temporary file another has renamed, for
\* any number of processes.
THEOREM FilesChangeAtRename == Spec => FileChangesAtRename
<1> DEFINE Saved(f) == \E p \in Process : /\ At(p, "rename") \/ (At(p, "write") /\ ~alone[p])
                                          /\ file(p) = f /\ todo'[p] = Tail(todo[p])
<1>1. ConsoleInv /\ [Next]_vars => [\A f \in File : Parsed(f)' # Parsed(f) => Saved(f)]_vars
  BY FileStep, Zenon
<1> QED BY <1>1, InitInv, NextInv, PTL DEF Spec, FileChangesAtRename

=============================================================================
