----------------------------- MODULE TlsFilesProofs -----------------------------
(***************************************************************************)
(* The properties of TlsFiles, for any number of processes.  The lock      *)
(* makes the writer of the pair the only one (WriterAlone), and because    *)
(* the key is written last and only while it is missing, a key in place    *)
(* always has its certificate, and every read of a starting process reads  *)
(* the same pair.                                                          *)
(***************************************************************************)
EXTENDS TlsFiles, TLAPS

\* Every step keeps the types.
LEMMA TypeStep == IInv /\ [Next]_vars => TypeOK'
<1> SUFFICES ASSUME IInv, [Next]_vars PROVE TypeOK'
  OBVIOUS
<1> USE DEF IInv, TypeOK, Steps, WriteSteps, ReadSteps, Goto, Unlock
<1>1. ASSUME NEW p \in Processes,
             Start(p) \/ LookCertificate(p) \/ LookKey(p) \/ LookFails(p) \/ Acquire(p)
      PROVE  TypeOK'
  BY <1>1 DEF Start, LookCertificate, LookKey, LookFails, Absent, Acquire
<1>2. ASSUME NEW p \in Processes, Make(p) PROVE TypeOK'
  BY <1>2 DEF Make, Files
<1>3. ASSUME NEW p \in Processes, Open(p) \/ Write(p) PROVE TypeOK'
  BY <1>3 DEF Open, Write
<1>4. ASSUME NEW p \in Processes, Rename(p) PROVE TypeOK'
  BY <1>4 DEF Rename, Files
<1>5. ASSUME NEW p \in Processes, Fail(p) PROVE TypeOK'
  BY <1>5 DEF Fail
<1>6. ASSUME NEW p \in Processes, Exit(p) PROVE TypeOK'
  BY <1>6 DEF Exit, Nothing, Reads
<1>7. ASSUME NEW p \in Processes, ReadFingerprint(p) \/ ReadPin(p) \/ LoadCertificate(p)
      PROVE  TypeOK'
  <2>1. CASE ReadFingerprint(p)
    BY <2>1 DEF ReadFingerprint, Load, Reads, Files
  <2>2. CASE ReadPin(p)
    BY <2>2 DEF ReadPin, Load, Reads, Files
  <2>3. CASE LoadCertificate(p)
    BY <2>3 DEF LoadCertificate, Load, Reads, Files
  <2> QED BY <1>7, <2>1, <2>2, <2>3
<1>8. ASSUME NEW p \in Processes, LoadKey(p) PROVE TypeOK'
  BY <1>8 DEF LoadKey, Load, Reads, Files
<1>9. CASE UNCHANGED vars
  BY <1>9 DEF vars
<1> QED BY <1>1, <1>2, <1>3, <1>4, <1>5, <1>6, <1>7, <1>8, <1>9 DEF Next

\* A process that had the pair still has it after a step that leaves the files and what
\* others have read alone.
LEMMA ReadsKept ==
  ASSUME UNCHANGED <<disk, misread>>, NEW q \in Processes, ReadsPair(q),
         pc'[q] = pc[q], loaded'[q] = loaded[q]
  PROVE  ReadsPair(q)'
BY DEF ReadsPair, PairPresent, ReadOf

\* A step that leaves the files in place alone and does not begin to write, to read the
\* pair or to serve keeps the rest of the invariant.
LEMMA QuietStep ==
  ASSUME IInv, NEW p \in Processes, UNCHANGED <<disk, file, mine, misread>>,
         \A q \in Processes : q # p => pc'[q] = pc[q] /\ loaded'[q] = loaded[q],
         \A q \in Processes : q # p /\ lock = q => lock' = q,
         \A q \in Processes : q # p /\ pc[q] = "rename" => pending'[file[q]] = pending[file[q]],
         pc'[p] \notin {"make", "serving", "look_key"} \cup WriteSteps \cup ReadSteps
  PROVE  PairInv'
<1> USE DEF IInv, PairInv, WriteSteps, ReadSteps
<1>1. PairMatches'
  BY DEF PairMatches
<1>2. ServesPair' /\ ReadsKnown'
  BY ReadsKept DEF ServesPair, ReadsKnown
<1>3. WriterAlone'
  BY DEF WriterAlone
<1>4. WriterKnown'
  BY DEF WriterKnown
<1>5. LooksKnown'
  BY DEF LooksKnown
<1> QED BY <1>1, <1>2, <1>3, <1>4, <1>5

\* A read takes the pair in place: after it the process has read one pair.
LEMMA ReadStep ==
  ASSUME IInv, NEW p \in Processes,
         ReadFingerprint(p) \/ ReadPin(p) \/ LoadCertificate(p) \/ LoadKey(p)
  PROVE  PairInv'
<1> USE DEF IInv, TypeOK, WriteSteps, ReadSteps, Goto
<1>1. UNCHANGED <<disk, pending, lock, file, mine, misread>>
  BY DEF ReadFingerprint, ReadPin, LoadCertificate, LoadKey, Load
<1>2. \A q \in Processes : q # p => pc'[q] = pc[q] /\ loaded'[q] = loaded[q]
  BY DEF ReadFingerprint, ReadPin, LoadCertificate, LoadKey, Load
<1>3. pc[p] \in ReadSteps /\ pc'[p] \notin {"make", "look_key"} \cup WriteSteps
  BY DEF ReadFingerprint, ReadPin, LoadCertificate, LoadKey
<1>4. PairMatches'
  BY <1>1 DEF PairInv, PairMatches
<1>5. WriterAlone' /\ WriterKnown' /\ LooksKnown'
  BY <1>1, <1>2, <1>3 DEF PairInv, WriterAlone, WriterKnown, LooksKnown
<1>6. ReadsPair(p) /\ PairMatches
  BY <1>3 DEF PairInv, ReadsKnown
<1>7. PairPresent'
  BY <1>1, <1>6 DEF ReadsPair, PairPresent
<1>8. ASSUME ~misread PROVE \A r \in ReadOf(pc'[p]) : loaded'[p][r] = disk["key"]
  <2> USE <1>6, <1>8 DEF ReadsPair, PairMatches, PairPresent, ReadOf, Load, Reads
  <2>1. CASE ReadFingerprint(p)
    BY <2>1 DEF ReadFingerprint
  <2>2. CASE ReadPin(p)
    BY <2>2 DEF ReadPin
  <2>3. CASE LoadCertificate(p)
    BY <2>3 DEF LoadCertificate
  <2>4. CASE LoadKey(p)
    BY <2>4 DEF LoadKey
  <2> QED BY <2>1, <2>2, <2>3, <2>4
<1>9. ReadsPair(p)'
  BY <1>1, <1>7, <1>8 DEF ReadsPair
<1>10. ServesPair' /\ ReadsKnown'
  BY <1>1, <1>2, <1>9, ReadsKept DEF PairInv, ServesPair, ReadsKnown
<1> QED BY <1>4, <1>5, <1>10 DEF PairInv

\* Every step keeps the discipline of the lock and the pair in place.
LEMMA PairStep == IInv /\ [Next]_vars => PairInv'
<1> SUFFICES ASSUME IInv, [Next]_vars PROVE PairInv'
  OBVIOUS
<1> USE ValuesAssumption, ProcessesAssumption
<1> USE DEF IInv, TypeOK, WriteSteps, ReadSteps, Goto
<1>1. ASSUME NEW p \in Processes, Start(p) \/ Acquire(p) PROVE PairInv'
  BY <1>1, QuietStep DEF Start, Acquire
<1>2. ASSUME NEW p \in Processes, LookCertificate(p) \/ LookKey(p) \/ LookFails(p)
      PROVE  PairInv'
  <2> USE DEF LookCertificate, LookKey, LookFails, Absent, Unlock
  <2>1. disk' = disk /\ UNCHANGED <<loaded, mine, file, pending>> /\ (misread => misread')
    BY <1>2
  <2>2. \A q \in Processes : q # p => pc'[q] = pc[q] /\ (lock = q => lock' = q)
    BY <1>2
  <2>3. pc'[p] \notin WriteSteps /\ pc'[p] # "serving"
    BY <1>2
  <2>4. PairMatches'
    BY <2>1 DEF PairInv, PairMatches
  <2>5. \A q \in Processes : q # p /\ ReadsPair(q) => ReadsPair(q)'
    BY <2>1, <2>2 DEF ReadsPair, PairPresent, ReadOf
  <2>6. pc'[p] \in ReadSteps => ReadsPair(p)'
    BY <1>2 DEF PairInv, LooksKnown, ReadsPair, PairPresent, ReadOf
  <2>7. ServesPair' /\ ReadsKnown'
    BY <2>2, <2>3, <2>5, <2>6 DEF PairInv, ServesPair, ReadsKnown
  <2>8. WriterAlone'
    <3>1. pc'[p] = "make" => lock' = p /\ (misread' \/ disk["key"] = None)
      BY <1>2 DEF PairInv, PairMatches, PairPresent
    <3> QED BY <2>1, <2>2, <2>3, <3>1 DEF PairInv, WriterAlone
  <2>9. WriterKnown' /\ LooksKnown'
    BY <1>2 DEF PairInv, WriterKnown, LooksKnown
  <2> QED BY <2>4, <2>7, <2>8, <2>9 DEF PairInv
<1>3. ASSUME NEW p \in Processes, Make(p) PROVE PairInv'
  <2> USE DEF Make, PairInv
  <2>1. PairMatches' /\ LooksKnown'
    BY <1>3 DEF PairMatches, LooksKnown
  <2>2. ServesPair' /\ ReadsKnown'
    BY <1>3, ReadsKept DEF ServesPair, ReadsKnown
  <2>3. WriterAlone' /\ WriterKnown'
    BY <1>3 DEF WriterAlone, WriterKnown, Files
  <2> QED BY <2>1, <2>2, <2>3
<1>4. ASSUME NEW p \in Processes, Open(p) \/ Write(p) PROVE PairInv'
  <2> USE DEF Open, Write, PairInv
  <2>1. PairMatches' /\ LooksKnown'
    BY <1>4 DEF PairMatches, LooksKnown
  <2>2. ServesPair' /\ ReadsKnown'
    BY <1>4, ReadsKept DEF ServesPair, ReadsKnown
  <2>3. WriterAlone'
    BY <1>4 DEF WriterAlone
  <2>4. WriterKnown'
    BY <1>4 DEF WriterAlone, WriterKnown
  <2> QED BY <2>1, <2>2, <2>3, <2>4
<1>5. ASSUME NEW p \in Processes, Rename(p) PROVE PairInv'
  <2>1. /\ lock = p /\ (misread \/ disk["key"] = None) /\ mine[p] \in Keys
        /\ pending[file[p]] = mine[p]
        /\ \A q \in Processes : q # p => pc[q] \notin {"make"} \cup WriteSteps
    BY <1>5 DEF Rename, PairInv, WriterAlone, WriterKnown
  <2>2. misread' = misread /\ loaded' = loaded /\ mine' = mine
    BY <1>5 DEF Rename
  <2>3. \A q \in Processes : q # p => pc'[q] = pc[q]
    BY <1>5 DEF Rename
  <2>4. \A q \in Processes : q # p /\ ReadsPair(q) => ReadsPair(q)'
    BY <1>5, <2>1, <2>2, <2>3 DEF Rename, ReadsPair, PairPresent, ReadOf, Files
  <2>5. CASE file[p] = "certificate"
    <3>1. disk'["certificate"] = mine[p] /\ disk'["key"] = disk["key"]
      BY <1>5, <2>1, <2>5 DEF Rename, Files
    <3>2. pc'[p] = "open" /\ file'[p] = "key" /\ lock' = lock
      BY <1>5, <2>5 DEF Rename
    <3>3. PairMatches'
      BY <2>1, <2>2, <3>1 DEF PairMatches
    <3>4. ServesPair' /\ ReadsKnown'
      BY <2>3, <2>4, <3>2 DEF PairInv, ServesPair, ReadsKnown
    <3>5. WriterAlone' /\ WriterKnown' /\ LooksKnown'
      BY <2>1, <2>2, <2>3, <3>1, <3>2 DEF PairInv, WriterAlone, WriterKnown, LooksKnown
    <3> QED BY <3>3, <3>4, <3>5 DEF PairInv
  <2>6. CASE file[p] = "key"
    <3>1. disk'["key"] = mine[p] /\ disk'["certificate"] = disk["certificate"]
      BY <1>5, <2>1, <2>6 DEF Rename, Files
    <3>2. disk["certificate"] = mine[p]
      BY <1>5, <2>6 DEF Rename, PairInv, WriterKnown
    <3>3. pc'[p] = "fingerprint"
      BY <1>5, <2>6 DEF Rename
    <3>4. PairMatches'
      BY <2>1, <3>1, <3>2 DEF PairMatches
    <3>5. ReadsPair(p)'
      BY <2>1, <3>1, <3>2, <3>3 DEF ReadsPair, PairPresent, ReadOf
    <3>6. ServesPair' /\ ReadsKnown'
      BY <2>3, <2>4, <3>3, <3>5 DEF PairInv, ServesPair, ReadsKnown
    <3>7. WriterAlone' /\ WriterKnown' /\ LooksKnown'
      BY <2>1, <2>2, <2>3, <3>1, <3>2, <3>3 DEF PairInv, WriterAlone, WriterKnown, LooksKnown
    <3> QED BY <3>4, <3>6, <3>7 DEF PairInv
  <2> QED BY <2>5, <2>6 DEF Files
<1>6. ASSUME NEW p \in Processes, Fail(p) PROVE PairInv'
  BY <1>6, QuietStep DEF Fail, Unlock, PairInv, WriterAlone
<1>7. ASSUME NEW p \in Processes, Exit(p) PROVE PairInv'
  BY <1>7, QuietStep DEF Exit, Unlock
<1>8. ASSUME NEW p \in Processes,
             ReadFingerprint(p) \/ ReadPin(p) \/ LoadCertificate(p) \/ LoadKey(p)
      PROVE  PairInv'
  BY <1>8, ReadStep
<1>9. CASE UNCHANGED vars
  <2>1. ServesPair' /\ ReadsKnown'
    BY <1>9, ReadsKept DEF vars, PairInv, ServesPair, ReadsKnown
  <2> QED BY <1>9, <2>1 DEF vars, PairInv, PairMatches, WriterAlone, WriterKnown, LooksKnown
<1> QED BY <1>1, <1>2, <1>3, <1>4, <1>5, <1>6, <1>7, <1>8, <1>9 DEF Next

\* IInv is an invariant.
THEOREM Invariance == Spec => []IInv
<1>1. Init => IInv
  <2> SUFFICES ASSUME Init PROVE IInv
    OBVIOUS
  <2>1. TypeOK
    BY DEF Init, TypeOK, Steps, Files, Nothing
  <2>2. PairInv
    BY DEF Init, Files, PairInv, PairMatches, ServesPair, WriterAlone, WriterKnown,
           LooksKnown, ReadsKnown, WriteSteps, ReadSteps
  <2> QED BY <2>1, <2>2 DEF IInv
<1>2. IInv /\ [Next]_vars => IInv'
  BY TypeStep, PairStep DEF IInv
<1> QED BY <1>1, <1>2, PTL DEF Spec

\* server.key is never in place without the certificate made for it, as long as no process
\* has taken a pair in place for missing.
THEOREM KeyHasCertificate == Spec => []PairMatches
<1>1. IInv => PairMatches
  BY DEF IInv, PairInv
<1> QED BY <1>1, Invariance, PTL

\* A process that serves has the pair in place, and what it has printed and loaded is this
\* one pair, unless a process has taken a pair in place for missing.
THEOREM ServersHavePair == Spec => []ServesPair
<1>1. IInv => ServesPair
  BY DEF IInv, PairInv
<1> QED BY <1>1, Invariance, PTL

\* No start replaces a pair that is in place, as long as every start can see it.
THEOREM PairNeverReplaced == Spec => PairKept
<1>1. IInv /\ [Next]_vars => [PairPresent /\ ~misread => UNCHANGED disk]_vars
  <2> SUFFICES ASSUME IInv, Next, PairPresent, ~misread PROVE UNCHANGED disk
    OBVIOUS
  <2>1. \A p \in Processes : ~ Rename(p)
    BY DEF IInv, PairInv, WriterAlone, WriteSteps, PairPresent, Rename
  <2> QED BY <2>1 DEF Next, Start, LookCertificate, LookKey, LookFails, Acquire, Make,
     Open, Write, ReadFingerprint, ReadPin, LoadCertificate, LoadKey, Load, Fail, Exit
<1> QED BY <1>1, Invariance, PTL DEF Spec, PairKept

================================================================================
