----------------------- MODULE AccountSnapshotProofs -----------------------
(***************************************************************************)
(* Proofs about AccountSnapshot, for every set of accounts, callers and    *)
(* writers.  The inductive invariant IInv says, at each step of a load,    *)
(* which mutations the loader's copy and the installed copy contain.       *)
(***************************************************************************)
EXTENDS AccountSnapshot, FiniteSetTheorems, TLAPS

\* Only the holder of the gate is between the gate and the end of a load.
GateInv ==
    \A c \in Callers : at[c] \in {"reread", "list", "install"} => gate = c

\* Versions that were read are not from the future, and a reload is not older
\* than the installed copy.
VersionInv ==
    /\ snapVersion <= version
    /\ \A c \in Callers : /\ seen[c] <= version
                          /\ at[c] \in {"list", "install"} => snapVersion <= seen[c]

\* Stamps: what returned was committed, and no copy is ahead of the table.
StampInv ==
    /\ Covers(rows, settled)
    /\ \A w \in Writers : writing[w] # Nobody =>
           writing[w].stamp <= rows[writing[w].account].stamp
    /\ \A a \in Accounts : accounts[a].stamp <= rows[a].stamp
    /\ \A c \in Callers, a \in Accounts :
           /\ listed[c][a].stamp <= rows[a].stamp
           /\ floor[c][a] <= settled[a]

\* A listed copy is no older than the installed one and has what the loader
\* must see; if no mutation returned since its version was read, it has all.
ListedInv ==
    \A c \in Callers : at[c] = "install" =>
        /\ \A a \in Accounts : listed[c][a].stamp >= accounts[a].stamp
        /\ Covers(listed[c], floor[c])
        /\ seen[c] = version => Covers(listed[c], settled)

\* A version match before the gate is as good as a reload.
CompareInv ==
    \A c \in Callers : at[c] = "compare" =>
        /\ snapVersion >= seen[c] => Covers(accounts, floor[c])
        /\ \A d \in Callers :
              at[d] = "install" /\ seen[d] >= seen[c] => Covers(listed[d], floor[c])

IInv ==
    /\ SnapshotTypeOK
    /\ GateInv
    /\ VersionInv
    /\ StampInv
    /\ ListedInv
    /\ CompareInv
    /\ SnapshotCurrent
    /\ LoadSeesReturnedWrites
-----------------------------------------------------------------------------
(* Proof of the inductive invariant. *)

\* Initially nothing was written, listed or read.
LEMMA InitIInv == SnapshotInit => IInv
<1> SUFFICES ASSUME SnapshotInit PROVE IInv
  OBVIOUS
<1> USE SnapshotAssumption DEF SnapshotInit,
        SnapshotTypeOK, Table, EmptyTable, NoFloor, LoadSteps, Covers
<1>1. SnapshotTypeOK
  OBVIOUS
<1>2. GateInv
  BY DEF GateInv
<1>3. VersionInv
  BY DEF VersionInv
<1>4. StampInv
  BY DEF StampInv
<1>5. ListedInv
  BY DEF ListedInv
<1>6. CompareInv
  BY DEF CompareInv
<1>7. SnapshotCurrent
  BY DEF SnapshotCurrent
<1>8. LoadSeesReturnedWrites
  BY DEF LoadSeesReturnedWrites
<1> QED
  BY <1>1, <1>2, <1>3, <1>4, <1>5, <1>6, <1>7, <1>8 DEF IInv

\* A commit adds a stamp to one row; copies and floors stay behind it.
LEMMA CommitPreserves ==
  ASSUME IInv, NEW w \in Writers, NEW a \in Accounts, NEW r \in Row \cup {Absent}, Commit(w, a, r)
  PROVE  IInv'
<1> USE SnapshotAssumption DEF IInv, Commit, loadVars,
        SnapshotTypeOK, Table, EmptyTable, NoFloor, LoadSteps, Covers
<1>1. SnapshotTypeOK'
  OBVIOUS
<1>2. GateInv'
  BY DEF GateInv
<1>3. VersionInv'
  BY DEF GateInv, VersionInv
<1>4. StampInv'
  BY DEF StampInv
<1>5. ListedInv'
  BY DEF GateInv, VersionInv, StampInv, ListedInv
<1>6. CompareInv'
  BY DEF VersionInv, StampInv, ListedInv, CompareInv, SnapshotCurrent
<1>7. SnapshotCurrent'
  BY DEF VersionInv, StampInv, ListedInv, SnapshotCurrent
<1>8. LoadSeesReturnedWrites'
  BY DEF StampInv, ListedInv, CompareInv, SnapshotCurrent,
         LoadSeesReturnedWrites
<1> QED
  BY <1>1, <1>2, <1>3, <1>4, <1>5, <1>6, <1>7, <1>8 DEF IInv

\* A bump settles a commit, and no version that was read matches any more.
LEMMA BumpPreserves ==
  ASSUME IInv, NEW w \in Writers, BumpVersion(w)
  PROVE  IInv'
<1> USE SnapshotAssumption DEF IInv, BumpVersion, loadVars,
        SnapshotTypeOK, Table, EmptyTable, NoFloor, LoadSteps, Covers
<1>1. SnapshotTypeOK'
  OBVIOUS
<1>2. GateInv'
  BY DEF GateInv
<1>3. VersionInv'
  BY DEF GateInv, VersionInv
<1>4. StampInv'
  BY DEF StampInv
<1>5. ListedInv'
  BY DEF GateInv, VersionInv, StampInv, ListedInv
<1>6. CompareInv'
  BY DEF VersionInv, StampInv, ListedInv, CompareInv, SnapshotCurrent
<1>7. SnapshotCurrent'
  BY DEF VersionInv, StampInv, ListedInv, SnapshotCurrent
<1>8. LoadSeesReturnedWrites'
  BY DEF StampInv, ListedInv, CompareInv, SnapshotCurrent,
         LoadSeesReturnedWrites
<1> QED
  BY <1>1, <1>2, <1>3, <1>4, <1>5, <1>6, <1>7, <1>8 DEF IInv

\* A load that starts asks for what has returned by now.
LEMMA StartLoadPreserves ==
  ASSUME IInv, NEW c \in Callers, StartLoad(c)
  PROVE  IInv'
<1> USE SnapshotAssumption DEF IInv, StartLoad, storeVars,
        SnapshotTypeOK, Table, EmptyTable, NoFloor, LoadSteps, Covers
<1>1. SnapshotTypeOK'
  OBVIOUS
<1>2. GateInv'
  BY DEF GateInv
<1>3. VersionInv'
  BY DEF GateInv, VersionInv
<1>4. StampInv'
  BY DEF StampInv
<1>5. ListedInv'
  BY DEF GateInv, VersionInv, StampInv, ListedInv
<1>6. CompareInv'
  <2> HIDE DEF SnapshotTypeOK, Covers, LoadSteps, Table
  <2> SUFFICES ASSUME NEW d \in Callers, (at[d] = "compare")'
               PROVE  /\ (snapVersion >= seen[d] => Covers(accounts, floor[d]))'
                      /\ \A e \in Callers :
                            (at[e] = "install" /\ seen[e] >= seen[d]
                                => Covers(listed[e], floor[d]))'
    BY DEF CompareInv
  <2>1. CASE d = c
    <3>1. seen'[d] = version /\ floor'[d] = settled
      BY <2>1 DEF SnapshotTypeOK
    <3>2. snapVersion' = snapVersion /\ accounts' = accounts /\ listed' = listed
      OBVIOUS
    <3>3. snapVersion >= version => Covers(accounts, settled)
      BY DEF SnapshotTypeOK, VersionInv, SnapshotCurrent
    <3>4. ASSUME NEW e \in Callers, at'[e] = "install", seen'[e] >= version
          PROVE  Covers(listed[e], settled)
      <4>1. at[e] = "install" /\ seen[e] = seen'[e]
        BY <3>4 DEF SnapshotTypeOK
      <4>2. seen[e] \in Nat /\ version \in Nat /\ seen[e] <= version
        BY DEF SnapshotTypeOK, VersionInv
      <4>3. seen[e] = version
        BY <3>4, <4>1, <4>2
      <4> QED
        BY <4>1, <4>3 DEF ListedInv
    <3> QED
      BY <3>1, <3>2, <3>3, <3>4 DEF Covers
  <2>2. CASE d # c
    <3>1. at[d] = "compare" /\ seen'[d] = seen[d] /\ floor'[d] = floor[d]
      BY <2>2 DEF SnapshotTypeOK
    <3>2. ASSUME NEW e \in Callers, at'[e] = "install"
          PROVE  at[e] = "install" /\ seen'[e] = seen[e]
      BY <3>2 DEF SnapshotTypeOK
    <3> QED
      BY <3>1, <3>2 DEF CompareInv, Covers
  <2> QED
    BY <2>1, <2>2
<1>7. SnapshotCurrent'
  BY DEF VersionInv, StampInv, ListedInv, SnapshotCurrent
<1>8. LoadSeesReturnedWrites'
  BY DEF StampInv, ListedInv, CompareInv, SnapshotCurrent,
         LoadSeesReturnedWrites
<1> QED
  BY <1>1, <1>2, <1>3, <1>4, <1>5, <1>6, <1>7, <1>8 DEF IInv

\* The check before the gate changes only the step of the caller.
LEMMA ComparePreserves ==
  ASSUME IInv, NEW c \in Callers, Compare(c)
  PROVE  IInv'
<1> USE SnapshotAssumption DEF IInv, Compare, storeVars,
        SnapshotTypeOK, Table, EmptyTable, NoFloor, LoadSteps, Covers
<1>1. SnapshotTypeOK'
  OBVIOUS
<1>2. GateInv'
  BY DEF GateInv
<1>3. VersionInv'
  BY DEF GateInv, VersionInv
<1>4. StampInv'
  BY DEF StampInv
<1>5. ListedInv'
  BY DEF GateInv, VersionInv, StampInv, ListedInv
<1>6. CompareInv'
  BY DEF VersionInv, StampInv, ListedInv, CompareInv, SnapshotCurrent
<1>7. SnapshotCurrent'
  BY DEF VersionInv, StampInv, ListedInv, SnapshotCurrent
<1>8. LoadSeesReturnedWrites'
  <2> HIDE DEF SnapshotTypeOK, Covers, LoadSteps, Table
  <2> SUFFICES ASSUME NEW d \in Callers, at'[d] = "fresh"
               PROVE  Covers(accounts, floor[d])
    BY DEF LoadSeesReturnedWrites, Covers
  <2>1. CASE d = c
    <3>1. at[c] = "compare" /\ snapVersion = seen[c]
      BY <2>1 DEF SnapshotTypeOK
    <3> QED
      BY <2>1, <3>1 DEF CompareInv, SnapshotTypeOK
  <2>2. CASE d # c
    BY <2>2 DEF LoadSeesReturnedWrites, SnapshotTypeOK
  <2> QED
    BY <2>1, <2>2
<1> QED
  BY <1>1, <1>2, <1>3, <1>4, <1>5, <1>6, <1>7, <1>8 DEF IInv

\* One caller enters the free gate.
LEMMA EnterGatePreserves ==
  ASSUME IInv, NEW c \in Callers, EnterGate(c)
  PROVE  IInv'
<1> USE SnapshotAssumption DEF IInv, EnterGate, storeVars,
        SnapshotTypeOK, Table, EmptyTable, NoFloor, LoadSteps, Covers
<1>1. SnapshotTypeOK'
  OBVIOUS
<1>2. GateInv'
  BY DEF GateInv
<1>3. VersionInv'
  BY DEF GateInv, VersionInv
<1>4. StampInv'
  BY DEF StampInv
<1>5. ListedInv'
  BY DEF GateInv, VersionInv, StampInv, ListedInv
<1>6. CompareInv'
  BY DEF VersionInv, StampInv, ListedInv, CompareInv, SnapshotCurrent
<1>7. SnapshotCurrent'
  BY DEF VersionInv, StampInv, ListedInv, SnapshotCurrent
<1>8. LoadSeesReturnedWrites'
  BY DEF StampInv, ListedInv, CompareInv, SnapshotCurrent,
         LoadSeesReturnedWrites
<1> QED
  BY <1>1, <1>2, <1>3, <1>4, <1>5, <1>6, <1>7, <1>8 DEF IInv

\* The version is read again inside the gate.
LEMMA RereadPreserves ==
  ASSUME IInv, NEW c \in Callers, Reread(c)
  PROVE  IInv'
<1> USE SnapshotAssumption DEF IInv, Reread, storeVars,
        SnapshotTypeOK, Table, EmptyTable, NoFloor, LoadSteps, Covers
<1>1. SnapshotTypeOK'
  OBVIOUS
<1>2. GateInv'
  BY DEF GateInv
<1>3. VersionInv'
  BY DEF GateInv, VersionInv
<1>4. StampInv'
  BY DEF StampInv
<1>5. ListedInv'
  BY DEF GateInv, VersionInv, StampInv, ListedInv
<1>6. CompareInv'
  BY DEF VersionInv, StampInv, ListedInv, CompareInv, SnapshotCurrent
<1>7. SnapshotCurrent'
  BY DEF VersionInv, StampInv, ListedInv, SnapshotCurrent
<1>8. LoadSeesReturnedWrites'
  <2> HIDE DEF SnapshotTypeOK, Covers, LoadSteps, Table
  <2> SUFFICES ASSUME NEW d \in Callers, at'[d] = "fresh"
               PROVE  Covers(accounts, floor[d])
    BY DEF LoadSeesReturnedWrites, Covers
  <2>1. CASE d = c
    <3>1. snapVersion = version
      BY <2>1 DEF SnapshotTypeOK
    <3> QED
      BY <3>1 DEF SnapshotCurrent, StampInv, Covers, SnapshotTypeOK, Table
  <2>2. CASE d # c
    BY <2>2 DEF LoadSeesReturnedWrites, SnapshotTypeOK
  <2> QED
    BY <2>1, <2>2
<1> QED
  BY <1>1, <1>2, <1>3, <1>4, <1>5, <1>6, <1>7, <1>8 DEF IInv

\* The listed copy is the table of this moment.
LEMMA ListPreserves ==
  ASSUME IInv, NEW c \in Callers, ListAccounts(c)
  PROVE  IInv'
<1> USE SnapshotAssumption DEF IInv, ListAccounts, storeVars,
        SnapshotTypeOK, Table, EmptyTable, NoFloor, LoadSteps, Covers
<1>1. SnapshotTypeOK'
  OBVIOUS
<1>2. GateInv'
  BY DEF GateInv
<1>3. VersionInv'
  BY DEF GateInv, VersionInv
<1>4. StampInv'
  BY DEF StampInv
<1>5. ListedInv'
  BY DEF GateInv, VersionInv, StampInv, ListedInv
<1>6. CompareInv'
  BY DEF VersionInv, StampInv, ListedInv, CompareInv, SnapshotCurrent
<1>7. SnapshotCurrent'
  BY DEF VersionInv, StampInv, ListedInv, SnapshotCurrent
<1>8. LoadSeesReturnedWrites'
  BY DEF StampInv, ListedInv, CompareInv, SnapshotCurrent,
         LoadSeesReturnedWrites
<1> QED
  BY <1>1, <1>2, <1>3, <1>4, <1>5, <1>6, <1>7, <1>8 DEF IInv

\* The listed copy becomes the installed one.
LEMMA InstallPreserves ==
  ASSUME IInv, NEW c \in Callers, Install(c)
  PROVE  IInv'
<1> USE SnapshotAssumption DEF IInv, Install, storeVars,
        SnapshotTypeOK, Table, EmptyTable, NoFloor, LoadSteps, Covers
<1>1. SnapshotTypeOK'
  BY DEF VersionInv
<1>2. GateInv'
  BY DEF GateInv
<1>3. VersionInv'
  BY DEF GateInv, VersionInv
<1>4. StampInv'
  BY DEF StampInv
<1>5. ListedInv'
  BY DEF GateInv, VersionInv, StampInv, ListedInv
<1>6. CompareInv'
  BY DEF VersionInv, StampInv, ListedInv, CompareInv, SnapshotCurrent
<1>7. SnapshotCurrent'
  BY DEF VersionInv, StampInv, ListedInv, SnapshotCurrent
<1>8. LoadSeesReturnedWrites'
  BY DEF StampInv, ListedInv, CompareInv, SnapshotCurrent,
         LoadSeesReturnedWrites
<1> QED
  BY <1>1, <1>2, <1>3, <1>4, <1>5, <1>6, <1>7, <1>8 DEF IInv

\* A failed load leaves the copy alone.
LEMMA FailLoadPreserves ==
  ASSUME IInv, NEW c \in Callers, FailLoad(c)
  PROVE  IInv'
<1> USE SnapshotAssumption DEF IInv, FailLoad, storeVars,
        SnapshotTypeOK, Table, EmptyTable, NoFloor, LoadSteps, Covers
<1>1. SnapshotTypeOK'
  OBVIOUS
<1>2. GateInv'
  BY DEF GateInv
<1>3. VersionInv'
  BY DEF GateInv, VersionInv
<1>4. StampInv'
  BY DEF StampInv
<1>5. ListedInv'
  BY DEF GateInv, VersionInv, StampInv, ListedInv
<1>6. CompareInv'
  BY DEF VersionInv, StampInv, ListedInv, CompareInv, SnapshotCurrent
<1>7. SnapshotCurrent'
  BY DEF VersionInv, StampInv, ListedInv, SnapshotCurrent
<1>8. LoadSeesReturnedWrites'
  BY DEF StampInv, ListedInv, CompareInv, SnapshotCurrent,
         LoadSeesReturnedWrites
<1> QED
  BY <1>1, <1>2, <1>3, <1>4, <1>5, <1>6, <1>7, <1>8 DEF IInv

\* A load that returned has no obligations left.
LEMMA ReturnPreserves ==
  ASSUME IInv, NEW c \in Callers, Return(c)
  PROVE  IInv'
<1> USE SnapshotAssumption DEF IInv, Return, storeVars,
        SnapshotTypeOK, Table, EmptyTable, NoFloor, LoadSteps, Covers
<1>1. SnapshotTypeOK'
  OBVIOUS
<1>2. GateInv'
  BY DEF GateInv
<1>3. VersionInv'
  BY DEF GateInv, VersionInv
<1>4. StampInv'
  BY DEF StampInv
<1>5. ListedInv'
  BY DEF GateInv, VersionInv, StampInv, ListedInv
<1>6. CompareInv'
  BY DEF VersionInv, StampInv, ListedInv, CompareInv, SnapshotCurrent
<1>7. SnapshotCurrent'
  BY DEF VersionInv, StampInv, ListedInv, SnapshotCurrent
<1>8. LoadSeesReturnedWrites'
  BY DEF StampInv, ListedInv, CompareInv, SnapshotCurrent,
         LoadSeesReturnedWrites
<1> QED
  BY <1>1, <1>2, <1>3, <1>4, <1>5, <1>6, <1>7, <1>8 DEF IInv

-----------------------------------------------------------------------------
(* The theorems. *)

LEMMA NextPreserves == IInv /\ [SnapshotNext]_snapshotVars => IInv'
<1> SUFFICES ASSUME IInv, [SnapshotNext]_snapshotVars PROVE IInv'
  OBVIOUS
<1>1. ASSUME NEW w \in Writers, NEW a \in Accounts, NEW r \in Row \cup {Absent},
             Commit(w, a, r)
      PROVE  IInv'
  BY <1>1, CommitPreserves
<1>2. ASSUME NEW w \in Writers, BumpVersion(w) PROVE IInv'
  BY <1>2, BumpPreserves
<1>3. ASSUME NEW c \in Callers, StartLoad(c) \/ Loading(c) \/ Return(c)
      PROVE  IInv'
  BY <1>3, StartLoadPreserves, ComparePreserves, EnterGatePreserves,
     RereadPreserves, ListPreserves, InstallPreserves, FailLoadPreserves,
     ReturnPreserves DEF Loading
<1>4. CASE UNCHANGED snapshotVars
  BY <1>4 DEF snapshotVars, IInv, SnapshotTypeOK, GateInv, VersionInv, StampInv,
     ListedInv, CompareInv, SnapshotCurrent, LoadSeesReturnedWrites, Covers
<1> QED
  BY <1>1, <1>2, <1>3, <1>4 DEF SnapshotNext

\* The inductive invariant holds throughout.
THEOREM SnapshotInvariant == SnapshotSpec => []IInv
<1>1. SnapshotInit => IInv
  BY InitIInv
<1>2. IInv /\ [SnapshotNext]_snapshotVars => IInv'
  BY NextPreserves
<1> QED
  BY <1>1, <1>2, PTL DEF SnapshotSpec

\* A version match means a current copy: loadSnapshot's fast path is sound.
THEOREM SnapshotIsCurrent == SnapshotSpec => []SnapshotCurrent
<1>1. IInv => SnapshotCurrent
  BY DEF IInv
<1> QED
  BY <1>1, SnapshotInvariant, PTL

\* Every load that returned nil left a copy with all mutations which had
\* returned before the load began.
THEOREM LoadsSeeReturnedWrites == SnapshotSpec => []LoadSeesReturnedWrites
<1>1. IInv => LoadSeesReturnedWrites
  BY DEF IInv
<1> QED
  BY <1>1, SnapshotInvariant, PTL

\* The installed copy and its version never go back.
THEOREM SnapshotIsMonotone == SnapshotSpec => SnapshotNeverRegresses
<1> DEFINE Forward ==
             /\ snapVersion' >= snapVersion
             /\ \A a \in Accounts : accounts'[a].stamp >= accounts[a].stamp
<1>1. IInv /\ [SnapshotNext]_snapshotVars => [Forward]_snapshotVars
  <2> SUFFICES ASSUME IInv, SnapshotNext PROVE Forward
    OBVIOUS
  <2>1. CASE UNCHANGED <<snapVersion, accounts>>
    BY <2>1 DEF IInv, SnapshotTypeOK, Table
  <2>2. ASSUME NEW c \in Callers, Install(c) PROVE Forward
    BY <2>2 DEF Install, IInv, SnapshotTypeOK, VersionInv, ListedInv, Table
  <2> QED
    BY <2>1, <2>2 DEF SnapshotNext, Loading, Commit, BumpVersion, StartLoad,
       Compare, EnterGate, Reread, ListAccounts, FailLoad, Return, loadVars
<1> HIDE DEF Forward
<1>2. SnapshotSpec => [][Forward]_snapshotVars
  BY <1>1, SnapshotInvariant, PTL DEF SnapshotSpec
<1> QED
  BY <1>2 DEF SnapshotNeverRegresses, Forward
=============================================================================
