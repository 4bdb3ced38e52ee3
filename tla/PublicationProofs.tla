--------------------------- MODULE PublicationProofs ---------------------------
(***************************************************************************)
(* The properties of Publication, for any number of workers, contents,     *)
(* identifiers and keys.  The inductive invariant IInv says who may hold a *)
(* claim, where a file key may be created and which master key a worker    *)
(* has read; its three parts are kept by every step, each proved action by *)
(* action.                                                                 *)
(***************************************************************************)
EXTENDS Publication, TLAPS

\* Every step keeps the types, and every request in progress knows its content.
LEMMA TypeStep == IInv /\ [Next]_vars => TypeOK' /\ JobKnown'
<1> SUFFICES ASSUME IInv, [Next]_vars PROVE TypeOK' /\ JobKnown'
  OBVIOUS
<1> USE NoneAssumption
<1> USE DEF IInv, TypeOK, JobKnown, KeyInv, MasterCurrent, Steps, ClaimedSteps,
      KeySteps, Replies, KeyFile
<1>1. ASSUME NEW w \in Workers, Publish(w) PROVE TypeOK' /\ JobKnown'
  BY <1>1 DEF Publish, Goto, Answer, stored
<1>2. ASSUME NEW w \in Workers, Fetch(w) PROVE TypeOK' /\ JobKnown'
  BY <1>2 DEF Fetch, Goto, Published, stored
<1>3. ASSUME NEW w \in Workers, Claim(w) PROVE TypeOK' /\ JobKnown'
  BY <1>3 DEF Claim, Goto, Answer
<1>4. ASSUME NEW w \in Workers, LoadMaster(w) PROVE TypeOK' /\ JobKnown'
  BY <1>4 DEF LoadMaster, Goto, stored
<1>5. ASSUME NEW w \in Workers, LoadFileKey(w) PROVE TypeOK' /\ JobKnown'
  BY <1>5 DEF LoadFileKey, Goto, Answer, Abort, Sealed, stored
<1>6. ASSUME NEW w \in Workers, CheckMaster(w) PROVE TypeOK' /\ JobKnown'
  BY <1>6 DEF CheckMaster, Goto, stored
<1>7. ASSUME NEW w \in Workers, ListKeys(w) PROVE TypeOK' /\ JobKnown'
  BY <1>7 DEF ListKeys, Goto, Abort, stored
<1>8. ASSUME NEW w \in Workers, CreateMaster(w) PROVE TypeOK' /\ JobKnown'
  BY <1>8 DEF CreateMaster, Goto
<1>9. ASSUME NEW w \in Workers, StoreFileKey(w) PROVE TypeOK' /\ JobKnown'
  BY <1>9 DEF StoreFileKey, Goto, Answer, Sealed
<1>10. ASSUME NEW w \in Workers, StoreBlob(w) PROVE TypeOK' /\ JobKnown'
  BY <1>10 DEF StoreBlob, Goto
<1>11. ASSUME NEW w \in Workers, AddPublication(w) PROVE TypeOK' /\ JobKnown'
  BY <1>11 DEF AddPublication, Goto, Answer, Abort
<1>12. ASSUME NEW w \in Workers, Release(w) PROVE TypeOK' /\ JobKnown'
  BY <1>12 DEF Release, Goto
<1>13. ASSUME NEW w \in Workers, ReleaseFails(w) PROVE TypeOK' /\ JobKnown'
  BY <1>13 DEF ReleaseFails, Goto, Answer, stored
<1>14. ASSUME NEW w \in Workers, StepFails(w) PROVE TypeOK' /\ JobKnown'
  BY <1>14 DEF StepFails, Goto, Answer, Abort, stored
<1>15. ASSUME NEW w \in Workers, OpenBlob(w) PROVE TypeOK' /\ JobKnown'
  BY <1>15 DEF OpenBlob, Goto, Answer, Opens, stored
<1>16. ASSUME NEW lost \in BOOLEAN, Restart(lost) PROVE TypeOK' /\ JobKnown'
  BY <1>16 DEF Restart
<1>17. CASE UNCHANGED vars
  BY <1>17 DEF vars, stored, local
<1> QED
  BY <1>1, <1>2, <1>3, <1>4, <1>5, <1>6, <1>7, <1>8, <1>9, <1>10, <1>11, <1>12, <1>13,
     <1>14, <1>15, <1>16, <1>17 DEF Next, WorkerStep

\* Every step keeps the discipline of claims: one owner per claim, a claim for every
\* publication, no unaccounted claim.
LEMMA ClaimStep == IInv /\ [Next]_vars => ClaimInv'
<1> SUFFICES ASSUME IInv, [Next]_vars PROVE ClaimInv'
  OBVIOUS
<1> USE NoneAssumption
<1> USE DEF IInv, TypeOK, JobKnown, ClaimInv, ClaimExclusive, ClaimKept,
      ClaimsAccounted, UniqueIdentity, KeyInv, FetchFindsKey, Steps, ClaimedSteps,
      KeySteps, Owns, Published
<1>1. ASSUME NEW w \in Workers, Publish(w) PROVE ClaimInv'
  BY <1>1 DEF Publish, Goto, Answer, stored
<1>2. ASSUME NEW w \in Workers, Fetch(w) PROVE ClaimInv'
  BY <1>2 DEF Fetch, Goto, stored
<1>3. ASSUME NEW w \in Workers, Claim(w) PROVE ClaimInv'
  BY <1>3 DEF Claim, Goto, Answer
<1>4. ASSUME NEW w \in Workers, LoadMaster(w) PROVE ClaimInv'
  BY <1>4 DEF LoadMaster, Goto, stored
<1>5. ASSUME NEW w \in Workers, LoadFileKey(w) PROVE ClaimInv'
  BY <1>5 DEF LoadFileKey, Goto, Answer, Abort, Sealed, stored
<1>6. ASSUME NEW w \in Workers, CheckMaster(w) PROVE ClaimInv'
  BY <1>6 DEF CheckMaster, Goto, stored
<1>7. ASSUME NEW w \in Workers, ListKeys(w) PROVE ClaimInv'
  BY <1>7 DEF ListKeys, Goto, Abort, stored
<1>8. ASSUME NEW w \in Workers, CreateMaster(w) PROVE ClaimInv'
  BY <1>8 DEF CreateMaster, Goto
<1>9. ASSUME NEW w \in Workers, StoreFileKey(w) PROVE ClaimInv'
  <2>1. ClaimExclusive'
    BY <1>9 DEF StoreFileKey, Goto, Answer, Sealed
  <2>2. ClaimKept'
    BY <1>9 DEF StoreFileKey, Goto, Answer, Sealed
  <2>3. ClaimsAccounted'
    BY <1>9 DEF StoreFileKey, Goto, Answer, Sealed
  <2>4. UniqueIdentity'
    BY <1>9 DEF StoreFileKey, Goto, Answer, Sealed
  <2> QED BY <2>1, <2>2, <2>3, <2>4
<1>10. ASSUME NEW w \in Workers, StoreBlob(w) PROVE ClaimInv'
  BY <1>10 DEF StoreBlob, Goto
<1>11. ASSUME NEW w \in Workers, AddPublication(w) PROVE ClaimInv'
  <2>1. ClaimExclusive'
    BY <1>11 DEF AddPublication, Goto, Answer, Abort
  <2>2. ClaimKept'
    BY <1>11 DEF AddPublication, Goto, Answer, Abort
  <2>3. ClaimsAccounted'
    BY <1>11 DEF AddPublication, Goto, Answer, Abort
  <2>4. UniqueIdentity'
    BY <1>11 DEF AddPublication, Goto, Answer, Abort
  <2> QED BY <2>1, <2>2, <2>3, <2>4
<1>12. ASSUME NEW w \in Workers, Release(w) PROVE ClaimInv'
  <2>1. ClaimExclusive'
    BY <1>12 DEF Release, Goto
  <2>2. ClaimKept'
    BY <1>12 DEF Release, Goto
  <2>3. ClaimsAccounted'
    BY <1>12 DEF Release, Goto
  <2>4. UniqueIdentity'
    BY <1>12 DEF Release, Goto
  <2> QED BY <2>1, <2>2, <2>3, <2>4
<1>13. ASSUME NEW w \in Workers, ReleaseFails(w) PROVE ClaimInv'
  <2>1. ClaimExclusive'
    BY <1>13 DEF ReleaseFails, Goto, Answer, stored
  <2>2. ClaimKept'
    BY <1>13 DEF ReleaseFails, Goto, Answer, stored
  <2>3. ClaimsAccounted'
    BY <1>13 DEF ReleaseFails, Goto, Answer, stored
  <2>4. UniqueIdentity'
    BY <1>13 DEF ReleaseFails, Goto, Answer, stored
  <2> QED BY <2>1, <2>2, <2>3, <2>4
<1>14. ASSUME NEW w \in Workers, StepFails(w) PROVE ClaimInv'
  <2>1. ClaimExclusive'
    BY <1>14 DEF StepFails, Goto, Answer, Abort, stored
  <2>2. ClaimKept'
    BY <1>14 DEF StepFails, Goto, Answer, Abort, stored
  <2>3. ClaimsAccounted'
    BY <1>14 DEF StepFails, Goto, Answer, Abort, stored
  <2>4. UniqueIdentity'
    BY <1>14 DEF StepFails, Goto, Answer, Abort, stored
  <2> QED BY <2>1, <2>2, <2>3, <2>4
<1>15. ASSUME NEW w \in Workers, OpenBlob(w) PROVE ClaimInv'
  <2>1. ClaimExclusive'
    BY <1>15 DEF OpenBlob, Goto, Answer, Opens, stored
  <2>2. ClaimKept'
    BY <1>15 DEF OpenBlob, Goto, Answer, Opens, stored
  <2>3. ClaimsAccounted'
    BY <1>15 DEF OpenBlob, Goto, Answer, Opens, stored
  <2>4. UniqueIdentity'
    BY <1>15 DEF OpenBlob, Goto, Answer, Opens, stored
  <2> QED BY <2>1, <2>2, <2>3, <2>4
<1>16. ASSUME NEW lost \in BOOLEAN, Restart(lost) PROVE ClaimInv'
  BY <1>16 DEF Restart
<1>17. CASE UNCHANGED vars
  BY <1>17 DEF vars, stored, local
<1> QED
  BY <1>1, <1>2, <1>3, <1>4, <1>5, <1>6, <1>7, <1>8, <1>9, <1>10, <1>11, <1>12, <1>13,
     <1>14, <1>15, <1>16, <1>17 DEF Next, WorkerStep

\* Every step keeps the discipline of keys: one master key, a file key created once,
\* by the owner of the claim.
LEMMA KeyStep == IInv /\ [Next]_vars => KeyInv'
<1> SUFFICES ASSUME IInv, [Next]_vars PROVE KeyInv'
  OBVIOUS
<1> USE NoneAssumption
<1> USE DEF IInv, TypeOK, JobKnown, ClaimInv, ClaimExclusive, KeyInv, MasterCurrent,
      MasterReplaceable, OneMasterKey, KeyAbsent, KeyHeld, FetchFindsKey, DeliveryInv,
      Deliverable, Steps, ClaimedSteps, KeySteps, Owns, Published, KeyFile
<1>1. ASSUME NEW w \in Workers, Publish(w) PROVE KeyInv'
  <2>1. MasterCurrent'
    BY <1>1 DEF Publish, Goto, Answer, stored
  <2>2. MasterReplaceable'
    BY <1>1 DEF Publish, Goto, Answer, stored
  <2>3. OneMasterKey'
    BY <1>1 DEF Publish, Goto, Answer, stored
  <2>4. KeyAbsent'
    BY <1>1 DEF Publish, Goto, Answer, stored
  <2>5. KeyHeld'
    BY <1>1 DEF Publish, Goto, Answer, stored
  <2>6. FetchFindsKey'
    BY <1>1 DEF Publish, Goto, Answer, stored
  <2> QED BY <2>1, <2>2, <2>3, <2>4, <2>5, <2>6
<1>2. ASSUME NEW w \in Workers, Fetch(w) PROVE KeyInv'
  <2>1. MasterCurrent'
    BY <1>2 DEF Fetch, Goto, stored
  <2>2. MasterReplaceable'
    BY <1>2 DEF Fetch, Goto, stored
  <2>3. OneMasterKey'
    BY <1>2 DEF Fetch, Goto, stored
  <2>4. KeyAbsent'
    BY <1>2 DEF Fetch, Goto, stored
  <2>5. KeyHeld'
    BY <1>2 DEF Fetch, Goto, stored
  <2>6. FetchFindsKey'
    BY <1>2 DEF Fetch, Goto, stored
  <2> QED BY <2>1, <2>2, <2>3, <2>4, <2>5, <2>6
<1>3. ASSUME NEW w \in Workers, Claim(w) PROVE KeyInv'
  BY <1>3 DEF Claim, Goto, Answer
<1>4. ASSUME NEW w \in Workers, LoadMaster(w) PROVE KeyInv'
  BY <1>4 DEF LoadMaster, Goto, stored
<1>5. ASSUME NEW w \in Workers, LoadFileKey(w) PROVE KeyInv'
  <2>1. MasterCurrent'
    BY <1>5 DEF LoadFileKey, Goto, Answer, Abort, Sealed, stored
  <2>2. MasterReplaceable'
    BY <1>5 DEF LoadFileKey, Goto, Answer, Abort, Sealed, stored
  <2>3. OneMasterKey'
    BY <1>5 DEF LoadFileKey, Goto, Answer, Abort, Sealed, stored
  <2>4. KeyAbsent'
    BY <1>5 DEF LoadFileKey, Goto, Answer, Abort, Sealed, stored
  <2>5. KeyHeld'
    BY <1>5 DEF LoadFileKey, Goto, Answer, Abort, Sealed, stored
  <2>6. FetchFindsKey'
    BY <1>5 DEF LoadFileKey, Goto, Answer, Abort, Sealed, stored
  <2> QED BY <2>1, <2>2, <2>3, <2>4, <2>5, <2>6
<1>6. ASSUME NEW w \in Workers, CheckMaster(w) PROVE KeyInv'
  BY <1>6 DEF CheckMaster, Goto, stored
<1>7. ASSUME NEW w \in Workers, ListKeys(w) PROVE KeyInv'
  <2>1. MasterCurrent'
    BY <1>7 DEF ListKeys, Goto, Abort, stored
  <2>2. MasterReplaceable'
    BY <1>7 DEF ListKeys, Goto, Abort, stored
  <2>3. OneMasterKey'
    BY <1>7 DEF ListKeys, Goto, Abort, stored
  <2>4. KeyAbsent'
    BY <1>7 DEF ListKeys, Goto, Abort, stored
  <2>5. KeyHeld'
    BY <1>7 DEF ListKeys, Goto, Abort, stored
  <2>6. FetchFindsKey'
    BY <1>7 DEF ListKeys, Goto, Abort, stored
  <2> QED BY <2>1, <2>2, <2>3, <2>4, <2>5, <2>6
<1>8. ASSUME NEW w \in Workers, CreateMaster(w) PROVE KeyInv'
  <2>1. MasterCurrent'
    BY <1>8 DEF CreateMaster, Goto
  <2>2. MasterReplaceable'
    BY <1>8 DEF CreateMaster, Goto
  <2>3. OneMasterKey'
    BY <1>8 DEF CreateMaster, Goto
  <2>4. KeyAbsent'
    BY <1>8 DEF CreateMaster, Goto
  <2>5. KeyHeld'
    BY <1>8 DEF CreateMaster, Goto
  <2>6. FetchFindsKey'
    BY <1>8 DEF CreateMaster, Goto
  <2> QED BY <2>1, <2>2, <2>3, <2>4, <2>5, <2>6
<1>9. ASSUME NEW w \in Workers, StoreFileKey(w) PROVE KeyInv'
  <2>1. MasterCurrent'
    BY <1>9 DEF StoreFileKey, Goto, Answer, Sealed
  <2>2. MasterReplaceable'
    BY <1>9 DEF StoreFileKey, Goto, Answer, Sealed
  <2>3. OneMasterKey'
    BY <1>9 DEF StoreFileKey, Goto, Answer, Sealed
  <2>4. KeyAbsent'
    BY <1>9 DEF StoreFileKey, Goto, Answer, Sealed
  <2>5. KeyHeld'
    <3> SUFFICES ASSUME NEW v \in Workers, op'[v] = "publish",
                        pc'[v] \in {"store_blob", "add_publication"}
                 PROVE  /\ keyFiles'[job'[v]] # None
                        /\ fk'[v] = keyFiles'[job'[v]].key
                        /\ pc'[v] = "add_publication" => blobs'[job'[v]] = fk'[v]
      OBVIOUS
    <3>1. CASE v = w
      BY <1>9, <3>1 DEF StoreFileKey, Sealed, Goto, Answer
    <3>2. CASE v # w
      <4>1. /\ pc'[v] = pc[v] /\ op'[v] = op[v] /\ job'[v] = job[v] /\ fk'[v] = fk[v]
            /\ op[w] = "publish"
        BY <1>9, <3>2 DEF StoreFileKey, Sealed, Goto, Answer
      <4>2. job[v] # job[w]
        BY <1>9, <3>2, <4>1 DEF StoreFileKey
      <4>3. keyFiles'[job[v]] = keyFiles[job[v]] /\ blobs' = blobs
        BY <1>9, <4>2 DEF StoreFileKey
      <4> QED BY <4>1, <4>3
    <3> QED BY <3>1, <3>2
  <2>6. FetchFindsKey'
    BY <1>9 DEF StoreFileKey, Goto, Answer, Sealed
  <2> QED BY <2>1, <2>2, <2>3, <2>4, <2>5, <2>6
<1>10. ASSUME NEW w \in Workers, StoreBlob(w) PROVE KeyInv'
  <2>1. MasterCurrent'
    BY <1>10 DEF StoreBlob, Goto
  <2>2. MasterReplaceable'
    BY <1>10 DEF StoreBlob, Goto
  <2>3. OneMasterKey'
    BY <1>10 DEF StoreBlob, Goto
  <2>4. KeyAbsent'
    BY <1>10 DEF StoreBlob, Goto
  <2>5. KeyHeld'
    BY <1>10 DEF StoreBlob, Goto
  <2>6. FetchFindsKey'
    BY <1>10 DEF StoreBlob, Goto
  <2> QED BY <2>1, <2>2, <2>3, <2>4, <2>5, <2>6
<1>11. ASSUME NEW w \in Workers, AddPublication(w) PROVE KeyInv'
  <2>1. MasterCurrent'
    BY <1>11 DEF AddPublication, Goto, Answer, Abort
  <2>2. MasterReplaceable'
    BY <1>11 DEF AddPublication, Goto, Answer, Abort
  <2>3. OneMasterKey'
    BY <1>11 DEF AddPublication, Goto, Answer, Abort
  <2>4. KeyAbsent'
    BY <1>11 DEF AddPublication, Goto, Answer, Abort
  <2>5. KeyHeld'
    BY <1>11 DEF AddPublication, Goto, Answer, Abort
  <2>6. FetchFindsKey'
    BY <1>11 DEF AddPublication, Goto, Answer, Abort
  <2> QED BY <2>1, <2>2, <2>3, <2>4, <2>5, <2>6
<1>12. ASSUME NEW w \in Workers, Release(w) PROVE KeyInv'
  BY <1>12 DEF Release, Goto
<1>13. ASSUME NEW w \in Workers, ReleaseFails(w) PROVE KeyInv'
  BY <1>13 DEF ReleaseFails, Goto, Answer, stored
<1>14. ASSUME NEW w \in Workers, StepFails(w) PROVE KeyInv'
  <2>1. MasterCurrent'
    BY <1>14 DEF StepFails, Goto, Answer, Abort, stored
  <2>2. MasterReplaceable'
    BY <1>14 DEF StepFails, Goto, Answer, Abort, stored
  <2>3. OneMasterKey'
    BY <1>14 DEF StepFails, Goto, Answer, Abort, stored
  <2>4. KeyAbsent'
    BY <1>14 DEF StepFails, Goto, Answer, Abort, stored
  <2>5. KeyHeld'
    BY <1>14 DEF StepFails, Goto, Answer, Abort, stored
  <2>6. FetchFindsKey'
    BY <1>14 DEF StepFails, Goto, Answer, Abort, stored
  <2> QED BY <2>1, <2>2, <2>3, <2>4, <2>5, <2>6
<1>15. ASSUME NEW w \in Workers, OpenBlob(w) PROVE KeyInv'
  <2>1. MasterCurrent'
    BY <1>15 DEF OpenBlob, Goto, Answer, Opens, stored
  <2>2. MasterReplaceable'
    BY <1>15 DEF OpenBlob, Goto, Answer, Opens, stored
  <2>3. OneMasterKey'
    BY <1>15 DEF OpenBlob, Goto, Answer, Opens, stored
  <2>4. KeyAbsent'
    BY <1>15 DEF OpenBlob, Goto, Answer, Opens, stored
  <2>5. KeyHeld'
    BY <1>15 DEF OpenBlob, Goto, Answer, Opens, stored
  <2>6. FetchFindsKey'
    BY <1>15 DEF OpenBlob, Goto, Answer, Opens, stored
  <2> QED BY <2>1, <2>2, <2>3, <2>4, <2>5, <2>6
<1>16. ASSUME NEW lost \in BOOLEAN, Restart(lost) PROVE KeyInv'
  BY <1>16 DEF Restart
<1>17. CASE UNCHANGED vars
  BY <1>17 DEF vars, stored, local
<1> QED
  BY <1>1, <1>2, <1>3, <1>4, <1>5, <1>6, <1>7, <1>8, <1>9, <1>10, <1>11, <1>12, <1>13,
     <1>14, <1>15, <1>16, <1>17 DEF Next, WorkerStep

\* Every step keeps what is published deliverable, and a package under the file key.
LEMMA DeliveryStep == IInv /\ [Next]_vars => DeliveryInv'
<1> SUFFICES ASSUME IInv, [Next]_vars PROVE DeliveryInv'
  OBVIOUS
<1> USE NoneAssumption
<1> USE DEF IInv, TypeOK, JobKnown, ClaimInv, ClaimExclusive, ClaimKept, KeyInv,
      MasterCurrent, MasterReplaceable, OneMasterKey, KeyAbsent, KeyHeld,
      FetchFindsKey, DeliveryInv, Deliverable, PackageUnderFileKey, Steps,
      ClaimedSteps, KeySteps, Owns, Published, KeyFile
<1>1. ASSUME NEW w \in Workers, Publish(w) PROVE DeliveryInv'
  BY <1>1 DEF Publish, Goto, Answer, stored
<1>2. ASSUME NEW w \in Workers, Fetch(w) PROVE DeliveryInv'
  BY <1>2 DEF Fetch, Goto, stored
<1>3. ASSUME NEW w \in Workers, Claim(w) PROVE DeliveryInv'
  BY <1>3 DEF Claim, Goto, Answer
<1>4. ASSUME NEW w \in Workers, LoadMaster(w) PROVE DeliveryInv'
  BY <1>4 DEF LoadMaster, Goto, stored
<1>5. ASSUME NEW w \in Workers, LoadFileKey(w) PROVE DeliveryInv'
  <2>1. Deliverable'
    BY <1>5 DEF LoadFileKey, Goto, Answer, Abort, Sealed, stored
  <2>2. PackageUnderFileKey'
    BY <1>5 DEF LoadFileKey, Goto, Answer, Abort, Sealed, stored
  <2> QED BY <2>1, <2>2
<1>6. ASSUME NEW w \in Workers, CheckMaster(w) PROVE DeliveryInv'
  BY <1>6 DEF CheckMaster, Goto, stored
<1>7. ASSUME NEW w \in Workers, ListKeys(w) PROVE DeliveryInv'
  BY <1>7 DEF ListKeys, Goto, Abort, stored
<1>8. ASSUME NEW w \in Workers, CreateMaster(w) PROVE DeliveryInv'
  <2>1. Deliverable'
    BY <1>8 DEF CreateMaster, Goto
  <2>2. PackageUnderFileKey'
    BY <1>8 DEF CreateMaster, Goto
  <2> QED BY <2>1, <2>2
<1>9. ASSUME NEW w \in Workers, StoreFileKey(w) PROVE DeliveryInv'
  <2>1. Deliverable'
    BY <1>9 DEF StoreFileKey, Goto, Answer, Sealed
  <2>2. PackageUnderFileKey'
    BY <1>9 DEF StoreFileKey, Goto, Answer, Sealed
  <2> QED BY <2>1, <2>2
<1>10. ASSUME NEW w \in Workers, StoreBlob(w) PROVE DeliveryInv'
  <2>1. Deliverable'
    BY <1>10 DEF StoreBlob, Goto
  <2>2. PackageUnderFileKey'
    BY <1>10 DEF StoreBlob, Goto
  <2> QED BY <2>1, <2>2
<1>11. ASSUME NEW w \in Workers, AddPublication(w) PROVE DeliveryInv'
  <2>1. Deliverable'
    BY <1>11 DEF AddPublication, Goto, Answer, Abort
  <2>2. PackageUnderFileKey'
    BY <1>11 DEF AddPublication, Goto, Answer, Abort
  <2> QED BY <2>1, <2>2
<1>12. ASSUME NEW w \in Workers, Release(w) PROVE DeliveryInv'
  <2>1. Deliverable'
    BY <1>12 DEF Release, Goto
  <2>2. PackageUnderFileKey'
    BY <1>12 DEF Release, Goto
  <2> QED BY <2>1, <2>2
<1>13. ASSUME NEW w \in Workers, ReleaseFails(w) PROVE DeliveryInv'
  BY <1>13 DEF ReleaseFails, Goto, Answer, stored
<1>14. ASSUME NEW w \in Workers, StepFails(w) PROVE DeliveryInv'
  <2>1. Deliverable'
    BY <1>14 DEF StepFails, Goto, Answer, Abort, stored
  <2>2. PackageUnderFileKey'
    BY <1>14 DEF StepFails, Goto, Answer, Abort, stored
  <2> QED BY <2>1, <2>2
<1>15. ASSUME NEW w \in Workers, OpenBlob(w) PROVE DeliveryInv'
  <2>1. Deliverable'
    BY <1>15 DEF OpenBlob, Goto, Answer, Opens, stored
  <2>2. PackageUnderFileKey'
    BY <1>15 DEF OpenBlob, Goto, Answer, Opens, stored
  <2> QED BY <2>1, <2>2
<1>16. ASSUME NEW lost \in BOOLEAN, Restart(lost) PROVE DeliveryInv'
  BY <1>16 DEF Restart
<1>17. CASE UNCHANGED vars
  BY <1>17 DEF vars, stored, local
<1> QED
  BY <1>1, <1>2, <1>3, <1>4, <1>5, <1>6, <1>7, <1>8, <1>9, <1>10, <1>11, <1>12, <1>13,
     <1>14, <1>15, <1>16, <1>17 DEF Next, WorkerStep

\* The inductive invariant holds in every state of every behaviour.
THEOREM Invariance == Spec => []IInv
<1>1. Init => IInv
  BY NoneAssumption DEF Init, IInv, TypeOK, JobKnown, ClaimInv, ClaimExclusive, ClaimKept,
     ClaimsAccounted, UniqueIdentity, KeyInv, MasterCurrent, MasterReplaceable,
     OneMasterKey, KeyAbsent, KeyHeld, FetchFindsKey, DeliveryInv, Deliverable,
     PackageUnderFileKey, Published, Owns, Steps, ClaimedSteps, KeySteps, Replies
<1>2. IInv /\ [Next]_vars => IInv'
  BY TypeStep, ClaimStep, KeyStep, DeliveryStep DEF IInv
<1> QED BY <1>1, <1>2, PTL DEF Spec

\* The state of the stores and of the workers has its type.
THEOREM TypeCorrect == Spec => []TypeOK
<1>1. IInv => TypeOK
  BY DEF IInv
<1> QED BY <1>1, Invariance, PTL

\* publish never lets two publications name the same content.
THEOREM NoDuplicatePublication == Spec => []UniqueIdentity
<1>1. IInv => UniqueIdentity
  BY DEF IInv, ClaimInv
<1> QED BY <1>1, Invariance, PTL

\* Every claim on unpublished content has an owner or a recorded leak.
THEOREM NoUnaccountedClaim == Spec => []ClaimsAccounted
<1>1. IInv => ClaimsAccounted
  BY DEF IInv, ClaimInv
<1> QED BY <1>1, Invariance, PTL

\* create_master_key never makes a second master key for the keys that are stored.
THEOREM SingleMasterKey == Spec => []OneMasterKey
<1>1. IInv => OneMasterKey
  BY DEF IInv, KeyInv
<1> QED BY <1>1, Invariance, PTL

\* Published content keeps its claim, its key and a blob that the key opens.
THEOREM PublishedIsDeliverable == Spec => []Deliverable
<1>1. IInv => Deliverable
  BY DEF IInv, DeliveryInv
<1> QED BY <1>1, Invariance, PTL

\* fetch_package answers content sealed under the stored file key.
THEOREM PackageKey == Spec => []PackageUnderFileKey
<1>1. IInv => PackageUnderFileKey
  BY DEF IInv, DeliveryInv
<1> QED BY <1>1, Invariance, PTL

\* A file key is never replaced, although obtain_file_key writes it with an
\* unconditional rename: only the owner of the claim writes it, where there is none.
THEOREM FileKeyNeverReplaced == Spec => FileKeyKept
<1> DEFINE Kept == \A i \in Identities : keyFiles[i] # None => keyFiles'[i] = keyFiles[i]
<1>1. IInv /\ [Next]_vars => [Kept]_vars
  <2> SUFFICES ASSUME IInv, [Next]_vars PROVE [Kept]_vars
    OBVIOUS
  <2>1. ASSUME NEW w \in Workers, StoreFileKey(w) PROVE Kept
    BY <2>1 DEF StoreFileKey, IInv, KeyInv, KeyAbsent, FetchFindsKey, TypeOK
  <2>2. ASSUME NEW w \in Workers, Publish(w) \/ Fetch(w) PROVE keyFiles' = keyFiles
    BY <2>2 DEF Publish, Fetch, stored
  <2>3. ASSUME NEW w \in Workers, WorkerStep(w), ~ StoreFileKey(w) PROVE keyFiles' = keyFiles
    BY <2>3 DEF WorkerStep, Claim, LoadMaster, LoadFileKey, CheckMaster, ListKeys,
       CreateMaster, StoreBlob, AddPublication, Release, ReleaseFails, StepFails, OpenBlob,
       stored
  <2>4. ASSUME NEW lost \in BOOLEAN, Restart(lost) PROVE keyFiles' = keyFiles
    BY <2>4 DEF Restart
  <2> QED BY <2>1, <2>2, <2>3, <2>4 DEF Next
<1> QED BY <1>1, Invariance, PTL DEF Spec, FileKeyKept

\* The service implements the content registry: every step of a request, a failure or a
\* restart is a step of the registry or leaves it alone.
THEOREM Refinement == Spec => ImplementsRegistry
<1> USE NoneAssumption DEF Status, Published
<1>1. Init => Registry!Init
  BY DEF Init, Registry!Init
<1>2. IInv /\ [Next]_vars => [Registry!Next]_Status
  <2> SUFFICES ASSUME IInv, [Next]_vars PROVE [Registry!Next]_Status
    OBVIOUS
  <2> USE DEF IInv, TypeOK, JobKnown, ClaimInv, ClaimExclusive, ClaimKept, KeyInv,
       FetchFindsKey, Steps, ClaimedSteps, KeySteps
  <2>1. ASSUME NEW w \in Workers, Claim(w) PROVE [Registry!Next]_Status
    <3>1. CASE job[w] \in claims
      BY <2>1, <3>1 DEF Claim, Answer, Goto
    <3>2. CASE job[w] \notin claims
      <4>1. PICK i \in Identities : i = job[w]
        BY <2>1 DEF Claim
      <4>2. Registry!Take(i)
        BY <2>1, <3>2, <4>1 DEF Claim, Answer, Goto, Registry!Take, Registry!Move
      <4> QED BY <4>1, <4>2 DEF Registry!Next
    <3> QED BY <3>1, <3>2
  <2>2. ASSUME NEW w \in Workers, AddPublication(w) PROVE [Registry!Next]_Status
    <3>1. CASE publications' = publications
      BY <2>2, <3>1 DEF AddPublication
    <3>2. CASE publications' # publications
      <4>1. PICK j \in Identities : j = job[w] /\ op[w] = "publish"
        BY <2>2 DEF AddPublication
      <4>2. PICK p \in Ids : publications[p] = None /\ publications' = [publications EXCEPT ![p] = job[w]]
        BY <2>2, <3>2 DEF AddPublication
      <4>3. \A i \in Identities : Published(i)' <=> Published(i) \/ i = j
        BY <4>1, <4>2
      <4>4. Registry!Publish(j)
        BY <2>2, <4>1, <4>3 DEF AddPublication, Registry!Publish, Registry!Move
      <4> QED BY <4>1, <4>4 DEF Registry!Next
    <3> QED BY <3>1, <3>2
  <2>3. ASSUME NEW w \in Workers, Release(w) PROVE [Registry!Next]_Status
    <3>1. PICK i \in Identities : i = job[w] /\ op[w] = "publish"
      BY <2>3 DEF Release
    <3>2. Registry!Drop(i)
      BY <2>3, <3>1 DEF Release, Registry!Drop, Registry!Move
    <3> QED BY <3>1, <3>2 DEF Registry!Next
  <2>4. ASSUME NEW w \in Workers, ReleaseFails(w) PROVE [Registry!Next]_Status
    <3>1. PICK i \in Identities : i = job[w] /\ op[w] = "publish"
      BY <2>4 DEF ReleaseFails
    <3>2. Registry!Lose({i})
      BY <2>4, <3>1 DEF ReleaseFails, stored, Registry!Lose, Registry!Move
    <3> QED BY <3>1, <3>2 DEF Registry!Next
  <2>5. ASSUME NEW lost \in BOOLEAN, Restart(lost) PROVE [Registry!Next]_Status
    <3>0. PICK S \in SUBSET Identities : S = {i \in Identities : \E w \in Workers : Owns(w, i)}
      OBVIOUS
    <3>1. \A i \in S : Status[i] = "taken"
      BY <3>0 DEF Owns
    <3>2. leaked' = leaked \cup S /\ claims' = claims /\ publications' = publications
      BY <2>5, <3>0 DEF Restart
    <3>3. \A i \in Identities : Published(i)' <=> Published(i)
      BY <3>2
    <3>4. Status' = [i \in Identities |-> IF i \in S THEN "blocked" ELSE Status[i]]
      BY <3>0, <3>1, <3>2, <3>3
    <3>5. Registry!Lose(S)
      BY <3>1, <3>4 DEF Registry!Lose, Registry!Move
    <3> QED BY <3>5 DEF Registry!Next
  <2>6. ASSUME NEW w \in Workers,
               \/ Publish(w) \/ Fetch(w) \/ LoadMaster(w) \/ LoadFileKey(w) \/ CheckMaster(w)
               \/ ListKeys(w) \/ CreateMaster(w) \/ StoreFileKey(w) \/ StoreBlob(w)
               \/ StepFails(w) \/ OpenBlob(w)
        PROVE  UNCHANGED Status
    <3>1. UNCHANGED <<claims, publications, leaked>>
      BY <2>6 DEF Publish, Fetch, LoadMaster, LoadFileKey, CheckMaster, ListKeys,
         CreateMaster, StoreFileKey, StoreBlob, StepFails, OpenBlob, stored
    <3> QED BY <3>1
  <2>7. CASE UNCHANGED vars
    BY <2>7 DEF vars, stored
  <2> QED
    BY <2>1, <2>2, <2>3, <2>4, <2>5, <2>6, <2>7 DEF Next, WorkerStep
<1> QED BY <1>1, <1>2, Invariance, PTL DEF Spec, ImplementsRegistry, Registry!Spec

================================================================================
