--------------------------- MODULE ManagerProofs ----------------------------
(***************************************************************************)
(* Proofs about MCManager, for any processes, sources and bounds: what a   *)
(* session and a loader of PersistentCache hold at each of their steps.    *)
(***************************************************************************)
EXTENDS MCManager, FiniteSetTheorems, TLAPS

\* The processes that were launched and have not ended.
Alive == {p \in Processes : pc[p] # "down"}

Persisting(p) == pc[p] \in {"open", "digest", "create", "write", "install"}

\* What a session has at each of its steps, down to the rename.
SessionKnown ==
  \A p \in Processes :
    /\ pc[p] \notin {"down", "introspect"} => snapshot[p] \in Sources
    /\ pc[p] \in {"digest", "create", "write", "install"} =>
         identity[p] \in Contents
    /\ pc[p] \in {"create", "write", "install"} => digest[p] \in Sources
    /\ pc[p] \in {"down", "introspect", "publish", "open"} =>
         digest[p] = Unhashed
    /\ pc[p] = "down" =>
         snapshot[p] = Unhashed /\ authority[p] = "none" /\ loader[p] = "off"
    /\ pc[p] = "install" => temp[p] = "whole"

\* What loadProvisional has at each of its steps.
LoaderKnown ==
  \A p \in Processes :
    /\ loader[p] \in {"read", "digest", "accept", "done"} =>
         wanted[p] \in Contents
    /\ loader[p] \in {"digest", "accept", "done"} => found[p] \in Record
    /\ loader[p] \in {"accept", "done"} => checked[p] \in Sources

\* persistGraph writes the schema the process serves.
Serving ==
  \A p \in Processes :
    Persisting(p) => authority[p] = "runtime" /\ graph[p] = snapshot[p]

\* While no source changes, what was read is what is on disk, and so what was
\* hashed is what the schema was built from.
Untorn ==
  \A p \in Processes : ~torn[p] =>
    /\ Extracting(p) =>
         \A f \in Files : /\ snapshot[p][f] \in {Unread, disk[f]}
                          /\ digest[p][f] \in {Unread, disk[f]}
    /\ pc[p] \in {"create", "write", "install"} => digest[p] = snapshot[p]

\* A record's digest is that of the sources of its schema, or it is torn.
Tells(r) == r.torn \/ r.schema = r.source

EntriesKnown ==
  \A i \in Contents : entry[i] # NoEntry =>
    entry[i].whole /\ entry[i].identity = i /\ Tells(entry[i])

\* A provisional graph is the one that was found and checked.
ProvisionalKnown ==
  \A p \in Processes :
    /\ loader[p] \in {"digest", "accept", "done"} => Tells(found[p])
    /\ authority[p] = "provisional" =>
         /\ loader[p] = "done"
         /\ graph[p] = found[p].schema /\ found[p].source = checked[p]

\* Every temporary file left behind is that of a launch that has ended.
LeakedKnown ==
  IsFiniteSet(Alive) /\ leaked <= launches - Cardinality(Alive)

CacheInv ==
  /\ TypeOK /\ SessionKnown /\ LoaderKnown /\ Serving /\ Untorn
  /\ EntriesKnown /\ ProvisionalKnown /\ LeakedKnown

-----------------------------------------------------------------------------
(* Reading the sources.                                                    *)

\* Unread is no contents.
LEMMA UnreadKnown ==
  ASSUME PersistentCacheAssumption
  PROVE  Unread \notin Contents
BY DEF PersistentCacheAssumption, Unread

\* What was read to the end.
LEMMA ReadToTheEnd ==
  ASSUME NEW r \in Reading, Unread \notin {r[f] : f \in Files}
  PROVE  r \in Sources
BY DEF Reading, Sources

\* One more file is read from disk.
LEMMA ReadOne ==
  ASSUME NEW m \in [Processes -> Reading], NEW p \in Processes, NEW f \in Files,
         disk \in Sources
  PROVE  LET n == [m EXCEPT ![p][f] = disk[f]] IN
         /\ n \in [Processes -> Reading]
         /\ \A q \in Processes \ {p} : n[q] = m[q]
         /\ \A g \in Files : n[p][g] = IF g = f THEN disk[f] ELSE m[p][g]
<1> DEFINE n == [m EXCEPT ![p][f] = disk[f]]
<1>1. n[p] = [m[p] EXCEPT ![f] = disk[f]] /\ m[p] \in Reading
  OBVIOUS
<1>2. n[p] \in Reading
  BY <1>1 DEF Reading, Sources
<1>3. n \in [Processes -> Reading] /\ \A q \in Processes \ {p} : n[q] = m[q]
  BY <1>2
<1>4. \A g \in Files : n[p][g] = IF g = f THEN disk[f] ELSE m[p][g]
  BY <1>1 DEF Reading
<1>5. QED
  BY <1>3, <1>4

-----------------------------------------------------------------------------
(* Types.                                                                  *)

\* A process's step keeps the types.
LEMMA TypeStep ==
  ASSUME PersistentCacheAssumption, CacheInv, Next
  PROVE  TypeOK'
<1> USE DEF CacheInv, sources, store, sessionVars, loaderVars, managerVars
<1>1. CASE Edit
  BY <1>1 DEF Edit, TypeOK, Sources, PersistentCacheAssumption
<1>2. ASSUME NEW p \in Processes, Launch(p)
      PROVE  TypeOK'
  BY <1>2 DEF Launch, TypeOK, PersistentCacheAssumption
<1>3. ASSUME NEW p \in Processes, Killed(p)
      PROVE  TypeOK'
  BY <1>3 DEF Killed, TypeOK, Reading, Unhashed
<1>4. ASSUME NEW p \in Processes, Save(p)
      PROVE  TypeOK'
  BY <1>4 DEF Save, TypeOK
<1>5. ASSUME NEW p \in Processes, OpenForLoad(p)
      PROVE  TypeOK'
  BY <1>5 DEF OpenForLoad, TypeOK, LoaderGoes, Sources, PersistentCacheAssumption
<1>6. ASSUME NEW p \in Processes, Read(p)
      PROVE  TypeOK'
  BY <1>6 DEF Read, TypeOK, LoaderGoes, LoaderKnown
<1>7. ASSUME NEW p \in Processes, DigestFound(p)
      PROVE  TypeOK'
  <2>1. PICK f \in Files : checked' = [checked EXCEPT ![p][f] = disk[f]]
    BY <1>7 DEF DigestFound
  <2>2. checked \in [Processes -> Reading] /\ disk \in Sources
    BY DEF TypeOK
  <2>3. checked' \in [Processes -> Reading]
    BY <2>1, <2>2, ReadOne
  <2>4. QED
    BY <1>7, <2>3 DEF DigestFound, TypeOK, LoaderGoes
<1>8. ASSUME NEW p \in Processes, Accept(p)
      PROVE  TypeOK'
  <2>1. found[p].schema \in Reading
    BY <1>8 DEF Accept, LoaderKnown, Record, Sources, Reading
  <2>2. QED
    BY <1>8, <2>1 DEF Accept, TypeOK, LoaderGoes
<1>9. ASSUME NEW p \in Processes, Miss(p)
      PROVE  TypeOK'
  BY <1>9 DEF Miss, TypeOK, LoaderGoes, Reading, Unhashed
<1>10. ASSUME NEW p \in Processes, Introspect(p)
       PROVE  TypeOK'
  <2>1. PICK f \in Files : snapshot' = [snapshot EXCEPT ![p][f] = disk[f]]
    BY <1>10 DEF Introspect
  <2>2. snapshot \in [Processes -> Reading] /\ disk \in Sources
    BY DEF TypeOK
  <2>3. snapshot' \in [Processes -> Reading]
    BY <2>1, <2>2, ReadOne
  <2>4. QED
    BY <1>10, <2>3 DEF Introspect, TypeOK, Goes
<1>11. ASSUME NEW p \in Processes, Publish(p)
       PROVE  TypeOK'
  BY <1>11 DEF Publish, TypeOK, Goes
<1>12. ASSUME NEW p \in Processes, OpenForWrite(p)
       PROVE  TypeOK'
  BY <1>12 DEF OpenForWrite, TypeOK, Goes, Sources, PersistentCacheAssumption
<1>13. ASSUME NEW p \in Processes, DigestSources(p)
       PROVE  TypeOK'
  <2>1. PICK f \in Files : digest' = [digest EXCEPT ![p][f] = disk[f]]
    BY <1>13 DEF DigestSources
  <2>2. digest \in [Processes -> Reading] /\ disk \in Sources
    BY DEF TypeOK
  <2>3. digest' \in [Processes -> Reading]
    BY <2>1, <2>2, ReadOne
  <2>4. QED
    BY <1>13, <2>3 DEF DigestSources, TypeOK, Goes
<1>14. ASSUME NEW p \in Processes, CreateTemp(p) \/ WriteTemp(p) \/ GiveUp(p)
       PROVE  TypeOK'
  BY <1>14 DEF CreateTemp, WriteTemp, GiveUp, TypeOK, Goes
<1>15. ASSUME NEW p \in Processes, Install(p)
       PROVE  TypeOK'
  <2>1. Written(p) \in Record
    BY <1>15 DEF Install, Written, Record, SessionKnown, TypeOK
  <2>2. QED
    BY <1>15, <2>1 DEF Install, TypeOK, Goes
<1>16. ASSUME NEW p \in Processes, NextSession(p)
       PROVE  TypeOK'
  BY <1>16 DEF NextSession, TypeOK, Goes, Reading, Unhashed
<1>17. QED
  BY <1>1, <1>2, <1>3, <1>4, <1>5, <1>6, <1>7, <1>8, <1>9, <1>10, <1>11, <1>12,
     <1>13, <1>14, <1>15, <1>16 DEF Next, LoaderStep, PersistStep

-----------------------------------------------------------------------------
(* Sessions and loaders.                                                   *)

\* A session's fields change with its place.
LEMMA SessionStep ==
  ASSUME PersistentCacheAssumption, CacheInv, Next
  PROVE  SessionKnown'
<1> USE DEF CacheInv, TypeOK, sources, store, sessionVars, loaderVars, managerVars
<1>1. CASE UNCHANGED <<pc, snapshot, identity, digest, temp, loader, authority>>
  BY <1>1 DEF SessionKnown
<1>2. ASSUME NEW p \in Processes, Launch(p) \/ Killed(p) \/ NextSession(p)
      PROVE  SessionKnown'
  BY <1>2 DEF Launch, Killed, NextSession, Goes, SessionKnown
<1>3. ASSUME NEW p \in Processes, LoaderStep(p)
      PROVE  SessionKnown'
  BY <1>3 DEF LoaderStep, OpenForLoad, Read, DigestFound, Accept, Miss,
     SessionKnown, LoaderGoes
<1>4. ASSUME NEW p \in Processes, Introspect(p)
      PROVE  SessionKnown'
  <2>1. PICK f \in Files : snapshot' = [snapshot EXCEPT ![p][f] = disk[f]]
    BY <1>4 DEF Introspect
  <2>2. snapshot' \in [Processes -> Reading]
    BY TypeStep DEF TypeOK
  <2>3. \A q \in Processes \ {p} : snapshot'[q] = snapshot[q]
    BY <2>1
  <2>4. pc'[p] # "introspect" => snapshot'[p] \in Sources /\ pc'[p] = "publish"
    BY <1>4, <2>2, ReadToTheEnd DEF Introspect, Goes
  <2>5. QED
    BY <1>4, <2>3, <2>4 DEF Introspect, Goes, SessionKnown
<1>5. ASSUME NEW p \in Processes,
             Publish(p) \/ CreateTemp(p) \/ WriteTemp(p) \/ Install(p) \/ GiveUp(p)
      PROVE  SessionKnown'
  BY <1>5 DEF Publish, CreateTemp, WriteTemp, Install, GiveUp, Goes, SessionKnown
<1>6. ASSUME NEW p \in Processes, OpenForWrite(p)
      PROVE  SessionKnown'
  <2>1. disk[SettingsFile] \in Contents
    BY DEF Sources, PersistentCacheAssumption
  <2>2. QED
    BY <1>6, <2>1 DEF OpenForWrite, Goes, SessionKnown
<1>7. ASSUME NEW p \in Processes, DigestSources(p)
      PROVE  SessionKnown'
  <2>1. PICK f \in Files : digest' = [digest EXCEPT ![p][f] = disk[f]]
    BY <1>7 DEF DigestSources
  <2>2. digest' \in [Processes -> Reading]
    BY TypeStep DEF TypeOK
  <2>3. \A q \in Processes \ {p} : digest'[q] = digest[q]
    BY <2>1
  <2>4. pc'[p] # "digest" => digest'[p] \in Sources /\ pc'[p] = "create"
    BY <1>7, <2>2, ReadToTheEnd DEF DigestSources, Goes
  <2>5. QED
    BY <1>7, <2>3, <2>4 DEF DigestSources, Goes, SessionKnown
<1>8. QED
  BY <1>1, <1>2, <1>3, <1>4, <1>5, <1>6, <1>7 DEF Next, PersistStep,
     Edit, Save

\* A loader's fields change with its place.
LEMMA LoaderStepKeeps ==
  ASSUME PersistentCacheAssumption, CacheInv, Next
  PROVE  LoaderKnown'
<1> USE DEF CacheInv, TypeOK, sources, store, sessionVars, loaderVars, managerVars,
            LoaderGoes
<1>1. CASE UNCHANGED loaderVars
  BY <1>1 DEF LoaderKnown
<1>2. ASSUME NEW p \in Processes, Launch(p) \/ Killed(p) \/ Miss(p) \/ Accept(p)
      PROVE  LoaderKnown'
  BY <1>2 DEF Launch, Killed, Miss, Accept, LoaderKnown
<1>3. ASSUME NEW p \in Processes, OpenForLoad(p)
      PROVE  LoaderKnown'
  <2>1. disk[SettingsFile] \in Contents
    BY DEF Sources, PersistentCacheAssumption
  <2>2. QED
    BY <1>3, <2>1 DEF OpenForLoad, LoaderKnown
<1>4. ASSUME NEW p \in Processes, Read(p)
      PROVE  LoaderKnown'
  BY <1>4 DEF Read, LoaderKnown
<1>5. ASSUME NEW p \in Processes, DigestFound(p)
      PROVE  LoaderKnown'
  <2>1. PICK f \in Files : checked' = [checked EXCEPT ![p][f] = disk[f]]
    BY <1>5 DEF DigestFound
  <2>2. checked' \in [Processes -> Reading]
    BY TypeStep DEF TypeOK
  <2>3. \A q \in Processes \ {p} : checked'[q] = checked[q]
    BY <2>1
  <2>4. loader'[p] # "digest" => checked'[p] \in Sources /\ loader'[p] = "accept"
    BY <1>5, <2>2, ReadToTheEnd DEF DigestFound
  <2>5. QED
    BY <1>5, <2>3, <2>4 DEF DigestFound, LoaderKnown
<1>6. QED
  BY <1>1, <1>2, <1>3, <1>4, <1>5 DEF Next, LoaderStep, PersistStep,
     Edit, Save, Introspect, Publish, OpenForWrite, DigestSources, CreateTemp,
     WriteTemp, Install, GiveUp, NextSession

\* Between its publication and the end of persistGraph a session serves what it
\* has read.
LEMMA ServingStep ==
  ASSUME PersistentCacheAssumption, CacheInv, Next
  PROVE  Serving'
<1> USE DEF CacheInv, TypeOK, sources, store, sessionVars, loaderVars, managerVars,
            Persisting
<1>1. CASE UNCHANGED <<pc, snapshot, authority, graph>>
  BY <1>1 DEF Serving
<1>2. ASSUME NEW p \in Processes,
             Launch(p) \/ Killed(p) \/ NextSession(p) \/ Publish(p)
      PROVE  Serving'
  BY <1>2 DEF Launch, Killed, NextSession, Publish, Goes, Serving
<1>3. ASSUME NEW p \in Processes, Accept(p)
      PROVE  Serving'
  BY <1>3 DEF Accept, Serving, LoaderGoes
<1>4. ASSUME NEW p \in Processes, Introspect(p)
      PROVE  Serving'
  <2>1. \A q \in Processes \ {p} : snapshot'[q] = snapshot[q]
    BY <1>4 DEF Introspect
  <2>2. QED
    BY <1>4, <2>1 DEF Introspect, Goes, Serving
<1>5. ASSUME NEW p \in Processes, PersistStep(p)
      PROVE  Serving'
  BY <1>5 DEF PersistStep, OpenForWrite, DigestSources, CreateTemp, WriteTemp,
     Install, GiveUp, Goes, Serving
<1>6. QED
  BY <1>1, <1>2, <1>3, <1>4, <1>5 DEF Next, LoaderStep, Edit, Save, OpenForLoad,
     Read, DigestFound, Miss

-----------------------------------------------------------------------------
(* What a record tells.                                                    *)

\* An edit between a session's first read and its last digest tears it; a read
\* finds what the earlier ones would find now.
LEMMA UntornStep ==
  ASSUME PersistentCacheAssumption, CacheInv, Next
  PROVE  Untorn'
<1> USE DEF CacheInv, TypeOK, sources, store, sessionVars, loaderVars, managerVars
<1>1. CASE UNCHANGED <<disk, pc, snapshot, digest, torn>>
  BY <1>1 DEF Untorn, Extracting, Unhashed
<1>2. CASE Edit
  <2>1. ASSUME NEW q \in Processes, ~torn'[q]
        PROVE  ~torn[q] /\ ~Extracting(q) /\ ~Extracting(q)'
    BY <1>2, <2>1 DEF Edit, Extracting, Unhashed
  <2>2. UNCHANGED <<pc, snapshot, digest>>
    BY <1>2 DEF Edit
  <2>3. QED
    BY <2>1, <2>2 DEF Untorn
<1>3. ASSUME NEW p \in Processes, Launch(p) \/ Killed(p) \/ NextSession(p)
      PROVE  Untorn'
  <2>1. pc'[p] \in {"down", "introspect"} /\ snapshot'[p] = Unhashed
    BY <1>3 DEF Launch, Killed, NextSession, Goes, SessionKnown
  <2>2. ~Extracting(p)'
    BY <2>1 DEF Extracting, Unhashed
  <2>3. \A q \in Processes \ {p} :
          /\ pc'[q] = pc[q] /\ snapshot'[q] = snapshot[q]
          /\ digest'[q] = digest[q] /\ torn'[q] = torn[q]
    BY <1>3 DEF Launch, Killed, NextSession, Goes
  <2>4. disk' = disk
    BY <1>3 DEF Launch, Killed, NextSession
  <2>5. ASSUME NEW q \in Processes \ {p}, ~torn'[q]
        PROVE  /\ Extracting(q)' =>
                    \A f \in Files : /\ snapshot'[q][f] \in {Unread, disk'[f]}
                                     /\ digest'[q][f] \in {Unread, disk'[f]}
               /\ pc'[q] \in {"create", "write", "install"} =>
                    digest'[q] = snapshot'[q]
    BY <2>3, <2>4, <2>5 DEF Untorn, Extracting, Unhashed
  <2>6. QED
    BY <2>1, <2>2, <2>5 DEF Untorn
<1>4. ASSUME NEW p \in Processes, Introspect(p)
      PROVE  Untorn'
  <2>1. PICK f \in Files : snapshot' = [snapshot EXCEPT ![p][f] = disk[f]]
    BY <1>4 DEF Introspect
  <2>2. /\ \A q \in Processes \ {p} : snapshot'[q] = snapshot[q]
        /\ \A g \in Files :
             snapshot'[p][g] = IF g = f THEN disk[f] ELSE snapshot[p][g]
    <3>1. snapshot \in [Processes -> Reading] /\ disk \in Sources
      OBVIOUS
    <3> HIDE DEF TypeOK, CacheInv
    <3>2. QED
      BY <2>1, <3>1, ReadOne
  <2>3. /\ pc'[p] \in {"introspect", "publish"}
        /\ \A q \in Processes \ {p} : pc'[q] = pc[q]
        /\ UNCHANGED <<disk, digest, torn>>
    BY <1>4 DEF Introspect, Goes
  <2>4. \A g \in Files : digest[p][g] = Unread
    BY <1>4 DEF Introspect, SessionKnown, Unhashed
  <2>5. ASSUME ~torn[p], NEW g \in Files
        PROVE  snapshot[p][g] \in {Unread, disk[g]}
    <3>1. CASE snapshot[p] = Unhashed
      BY <3>1 DEF Unhashed
    <3>2. CASE snapshot[p] # Unhashed
      BY <1>4, <2>5, <3>2 DEF Introspect, Untorn, Extracting
    <3>3. QED
      BY <3>1, <3>2
  <2>6. \A q \in Processes \ {p} : Extracting(q)' <=> Extracting(q)
    BY <2>2, <2>3 DEF Extracting, Unhashed
  <2>7. QED
    BY <2>2, <2>3, <2>4, <2>5, <2>6 DEF Untorn
<1>5. ASSUME NEW p \in Processes, Publish(p) \/ OpenForWrite(p)
      PROVE  Untorn'
  <2>1. /\ pc[p] \in {"publish", "open"} /\ pc'[p] \in {"open", "digest"}
        /\ \A q \in Processes \ {p} : pc'[q] = pc[q]
        /\ UNCHANGED <<disk, snapshot, digest, torn>>
    BY <1>5 DEF Publish, OpenForWrite, Goes
  <2>2. \A q \in Processes : Extracting(q)' <=> Extracting(q)
    BY <2>1 DEF Extracting, Unhashed
  <2>3. QED
    BY <2>1, <2>2 DEF Untorn
<1>6. ASSUME NEW p \in Processes, DigestSources(p)
      PROVE  Untorn'
  <2>1. PICK f \in Files : digest' = [digest EXCEPT ![p][f] = disk[f]]
    BY <1>6 DEF DigestSources
  <2>2. /\ \A q \in Processes \ {p} : digest'[q] = digest[q]
        /\ \A g \in Files :
             digest'[p][g] = IF g = f THEN disk[f] ELSE digest[p][g]
    <3>1. digest \in [Processes -> Reading] /\ disk \in Sources
      OBVIOUS
    <3> HIDE DEF TypeOK, CacheInv
    <3>2. QED
      BY <2>1, <3>1, ReadOne
  <2>3. /\ pc[p] = "digest" /\ pc'[p] \in {"digest", "create"}
        /\ \A q \in Processes \ {p} : pc'[q] = pc[q]
        /\ UNCHANGED <<disk, snapshot, torn>>
    BY <1>6 DEF DigestSources, Goes
  <2>4. \A q \in Processes \ {p} : Extracting(q)' <=> Extracting(q)
    BY <2>3 DEF Extracting, Unhashed
  <2>5. ASSUME ~torn[p], NEW g \in Files
        PROVE  /\ snapshot[p][g] = disk[g]
               /\ digest'[p][g] \in {Unread, disk[g]}
    <3>1. /\ snapshot[p][g] \in {Unread, disk[g]}
          /\ digest[p][g] \in {Unread, disk[g]}
      BY <2>3, <2>5 DEF Untorn, Extracting
    <3>2. snapshot[p][g] \in Contents
      BY <2>3 DEF SessionKnown, Sources
    <3>3. QED
      BY <2>2, <3>1, <3>2, UnreadKnown
  <2>6. ASSUME ~torn[p], pc'[p] = "create"
        PROVE  digest'[p] = snapshot[p]
    <3>1. snapshot[p] \in Sources /\ digest'[p] \in Sources
      BY <2>3, <2>6, SessionStep DEF SessionKnown
    <3>2. \A g \in Files : digest'[p][g] = snapshot[p][g]
      BY <2>5, <2>6, <3>1, UnreadKnown DEF Sources
    <3>3. QED
      BY <3>1, <3>2 DEF Sources
  <2>7. QED
    BY <2>2, <2>3, <2>4, <2>5, <2>6 DEF Untorn
<1>7. ASSUME NEW p \in Processes,
             CreateTemp(p) \/ WriteTemp(p) \/ Install(p) \/ GiveUp(p)
      PROVE  Untorn'
  <2>1. /\ pc'[p] \in {"write", "install", "serve"}
        /\ pc'[p] # "serve" => pc[p] \in {"create", "write"}
        /\ \A q \in Processes \ {p} : pc'[q] = pc[q]
        /\ UNCHANGED <<disk, snapshot, digest, torn>>
    BY <1>7 DEF CreateTemp, WriteTemp, Install, GiveUp, Goes
  <2>2. /\ \A q \in Processes \ {p} : Extracting(q)' <=> Extracting(q)
        /\ ~Extracting(p)'
    BY <2>1 DEF Extracting, Unhashed
  <2>3. QED
    BY <2>1, <2>2 DEF Untorn
<1>8. QED
  BY <1>1, <1>2, <1>3, <1>4, <1>5, <1>6, <1>7 DEF Next, LoaderStep, PersistStep,
     Save, OpenForLoad, Read, DigestFound, Accept, Miss

\* An entry is what a session has written whole, of what it has read.
LEMMA EntriesStep ==
  ASSUME PersistentCacheAssumption, CacheInv, Next
  PROVE  EntriesKnown'
<1> USE DEF CacheInv, TypeOK, sources, store, sessionVars, loaderVars, managerVars
<1>1. CASE UNCHANGED entry
  BY <1>1 DEF EntriesKnown, Tells
<1>2. ASSUME NEW p \in Processes, Install(p)
      PROVE  EntriesKnown'
  <2>1. pc[p] = "install" /\ entry' = [entry EXCEPT ![identity[p]] = Written(p)]
    BY <1>2 DEF Install
  <2>2. temp[p] = "whole" /\ (torn[p] \/ digest[p] = snapshot[p])
    BY <2>1 DEF SessionKnown, Untorn
  <2>3. /\ Written(p).whole /\ Written(p).identity = identity[p]
        /\ Tells(Written(p))
    BY <2>2 DEF Written, Tells
  <2>4. QED
    BY <2>1, <2>3 DEF EntriesKnown
<1>3. QED
  BY <1>1, <1>2 DEF Next, Edit, Launch, Killed, Save, LoaderStep, OpenForLoad,
     Read, DigestFound, Accept, Miss, Introspect, Publish, PersistStep,
     OpenForWrite, DigestSources, CreateTemp, WriteTemp, GiveUp, NextSession

\* A loader keeps the record it has found as long as its graph is shown.
LEMMA ProvisionalStep ==
  ASSUME PersistentCacheAssumption, CacheInv, Next
  PROVE  ProvisionalKnown'
<1> USE DEF CacheInv, TypeOK, sources, store, sessionVars, loaderVars, managerVars,
            LoaderGoes
<1>1. CASE UNCHANGED <<loaderVars, managerVars>>
  BY <1>1 DEF ProvisionalKnown, Tells
<1>2. ASSUME NEW p \in Processes,
             Launch(p) \/ Killed(p) \/ OpenForLoad(p) \/ Miss(p) \/ Publish(p)
      PROVE  ProvisionalKnown'
  BY <1>2 DEF Launch, Killed, OpenForLoad, Miss, Publish, SessionKnown,
     ProvisionalKnown, Tells
<1>3. ASSUME NEW p \in Processes, Read(p)
      PROVE  ProvisionalKnown'
  <2>1. Tells(entry[wanted[p]])
    BY <1>3 DEF Read, LoaderKnown, EntriesKnown
  <2>2. QED
    BY <1>3, <2>1 DEF Read, ProvisionalKnown, Tells
<1>4. ASSUME NEW p \in Processes, DigestFound(p)
      PROVE  ProvisionalKnown'
  <2>1. \A q \in Processes \ {p} : checked'[q] = checked[q]
    BY <1>4 DEF DigestFound
  <2>2. QED
    BY <1>4, <2>1 DEF DigestFound, ProvisionalKnown, Tells
<1>5. ASSUME NEW p \in Processes, Accept(p)
      PROVE  ProvisionalKnown'
  BY <1>5 DEF Accept, SameSources, ProvisionalKnown, Tells
<1>6. QED
  BY <1>1, <1>2, <1>3, <1>4, <1>5 DEF Next, LoaderStep, Edit, Save, Introspect,
     PersistStep, OpenForWrite, DigestSources, CreateTemp, WriteTemp, Install,
     GiveUp, NextSession

\* A launch adds a process; a kill takes one away and leaves at most one file.
LEMMA LeakedStep ==
  ASSUME PersistentCacheAssumption, CacheInv, Next
  PROVE  LeakedKnown'
<1> USE DEF CacheInv, TypeOK, sources, store, sessionVars, loaderVars, managerVars
<1>1. Cardinality(Alive) \in Nat /\ launches \in Int /\ leaked \in Int
  BY FS_CardinalityType DEF LeakedKnown, PersistentCacheAssumption
<1>2. CASE Alive' = Alive /\ UNCHANGED <<leaked, launches>>
  BY <1>2 DEF LeakedKnown
<1>3. ASSUME NEW p \in Processes, Launch(p)
      PROVE  LeakedKnown'
  <2>1. Alive' = Alive \cup {p} /\ p \notin Alive
    BY <1>3 DEF Launch, Alive
  <2>2. IsFiniteSet(Alive') /\ Cardinality(Alive') = Cardinality(Alive) + 1
    BY <2>1, FS_AddElement DEF LeakedKnown
  <2>3. QED
    BY <1>1, <1>3, <2>2 DEF Launch, LeakedKnown
<1>4. ASSUME NEW p \in Processes, Killed(p)
      PROVE  LeakedKnown'
  <2>1. Alive' = Alive \ {p} /\ p \in Alive
    BY <1>4 DEF Killed, Alive
  <2>2. IsFiniteSet(Alive') /\ Cardinality(Alive') = Cardinality(Alive) - 1
    BY <2>1, FS_RemoveElement DEF LeakedKnown
  <2>3. leaked' <= leaked + 1 /\ launches' = launches
    BY <1>1, <1>4 DEF Killed
  <2>4. leaked' \in Int
    BY TypeStep
  <2>5. QED
    BY <1>1, <2>2, <2>3, <2>4 DEF LeakedKnown
<1>5. ASSUME NEW p \in Processes,
             Introspect(p) \/ Publish(p) \/ PersistStep(p) \/ NextSession(p)
      PROVE  LeakedKnown'
  <2>1. /\ pc[p] # "down" /\ pc'[p] # "down"
        /\ \A q \in Processes \ {p} : pc'[q] = pc[q]
    BY <1>5 DEF Introspect, Publish, PersistStep, OpenForWrite, DigestSources,
       CreateTemp, WriteTemp, Install, GiveUp, NextSession, Goes
  <2>2. Alive' = Alive
    BY <2>1 DEF Alive
  <2>3. QED
    BY <1>2, <1>5, <2>2 DEF Introspect, Publish, PersistStep, OpenForWrite,
       DigestSources, CreateTemp, WriteTemp, Install, GiveUp, NextSession
<1>6. CASE UNCHANGED <<pc, leaked, launches>>
  BY <1>2, <1>6 DEF Alive
<1>7. QED
  BY <1>3, <1>4, <1>5, <1>6 DEF Next, LoaderStep, Edit, Save, OpenForLoad, Read,
     DigestFound, Accept, Miss

\* Every step keeps the invariant.
LEMMA NextInv ==
  ASSUME PersistentCacheAssumption, CacheInv, [Next]_vars
  PROVE  CacheInv'
<1>1. CASE Next
  BY <1>1, TypeStep, SessionStep, LoaderStepKeeps, ServingStep, UntornStep,
     EntriesStep, ProvisionalStep, LeakedStep DEF CacheInv
<1>2. CASE UNCHANGED vars
  <2> USE <1>2 DEF vars, sources, store, sessionVars, loaderVars, managerVars,
                   CacheInv
  <2>1. TypeOK' /\ SessionKnown' /\ LoaderKnown'
    BY DEF TypeOK, SessionKnown, LoaderKnown
  <2>2. Serving' /\ Untorn'
    BY DEF Serving, Persisting, Untorn, Extracting, Unhashed
  <2>3. EntriesKnown' /\ ProvisionalKnown' /\ LeakedKnown'
    BY DEF EntriesKnown, ProvisionalKnown, Tells, LeakedKnown, Alive
  <2>4. QED
    BY <2>1, <2>2, <2>3
<1>3. QED
  BY <1>1, <1>2

\* Nothing was launched, read or written.
LEMMA InitInv ==
  ASSUME PersistentCacheAssumption, Init
  PROVE  CacheInv
<1> USE DEF Init
<1>1. TypeOK
  <2>1. Unhashed \in Reading
    BY DEF Unhashed, Reading
  <2>2. disk \in Sources /\ edits \in 0..MaxEdits /\ launches \in 0..MaxLaunches
    BY DEF Sources, PersistentCacheAssumption
  <2>3. QED
    BY <2>1, <2>2 DEF TypeOK
<1>2. SessionKnown /\ LoaderKnown /\ Serving
  BY DEF SessionKnown, LoaderKnown, Serving, Persisting
<1>3. Untorn
  BY DEF Untorn, Extracting
<1>4. EntriesKnown /\ ProvisionalKnown
  BY DEF EntriesKnown, ProvisionalKnown
<1>5. LeakedKnown
  <2>1. Alive = {}
    BY DEF Alive
  <2>2. QED
    BY <2>1, FS_EmptySet DEF LeakedKnown
<1>6. QED
  BY <1>1, <1>2, <1>3, <1>4, <1>5 DEF CacheInv

-----------------------------------------------------------------------------
(* The cache on disk.                                                      *)

\* In every behaviour of the manager the cache keeps its invariant: it changes
\* as PersistentCache says, or rests.
THEOREM CacheInvariant == ManagerSpec => []CacheInv
<1>1. CacheInit \/ FilterInit \/ ConfigureInit => CacheInv
  BY InitInv, CacheAssumed DEF CacheInit, FilterInit, ConfigureInit
<1>2. CacheInv /\ [ManagerNext]_<<vars, filter, environment, part>> => CacheInv'
  <2>1. [ManagerNext]_<<vars, filter, environment, part>> => [Next]_vars
    BY DEF ManagerNext
  <2>2. QED
    BY <2>1, NextInv, CacheAssumed
<1>3. QED
  BY <1>1, <1>2, PTL DEF ManagerSpec, Managing

\* Every session, loader and entry keeps the types its steps rely on, and has a
\* temporary file exactly while it writes or installs it.
THEOREM CacheTypeCorrect == ManagerSpec => []TypeOK
<1>1. CacheInv => TypeOK
  BY DEF CacheInv
<1>2. QED
  BY <1>1, CacheInvariant, PTL

\* However many processes share the cache and are killed while they write,
\* entries are whole and under their identity, and a process leaves at most one
\* temporary file.
THEOREM StoreSurvives == ManagerSpec => []StoreSurvivesKills
<1>1. CacheInv => StoreSurvivesKills
  BY DEF CacheInv, EntriesKnown, LeakedKnown, Alive, StoreSurvivesKills
<1>2. QED
  BY <1>1, CacheInvariant, PTL

\* A provisional graph that is not of the sources it was checked against was
\* written by a session during which one of them was edited.
THEOREM StaleMeansTorn == ManagerSpec => []StaleOnlyIfTorn
<1>1. CacheInv => StaleOnlyIfTorn
  BY DEF CacheInv, ProvisionalKnown, Tells, StaleOnlyIfTorn
<1>2. QED
  BY <1>1, CacheInvariant, PTL

\* An entry is replaced by the schema its process serves, never once a save has
\* superseded the session.
THEOREM InstallsNewest == ManagerSpec => NewestInstalled
<1> DEFINE Newest ==
      \A i \in Contents : entry'[i] # entry[i] =>
        \E p \in Processes :
          authority[p] = "runtime" /\ ~superseded[p] /\ entry'[i].schema = graph[p]
<1>1. CacheInv /\ Next => Newest
  <2> SUFFICES ASSUME CacheInv, Next
               PROVE  Newest
    OBVIOUS
  <2> USE DEF CacheInv, store, sources
  <2>1. CASE UNCHANGED entry
    BY <2>1
  <2>2. ASSUME NEW p \in Processes, Install(p)
        PROVE  Newest
    <3>1. /\ pc[p] = "install" /\ ~superseded[p]
          /\ entry' = [entry EXCEPT ![identity[p]] = Written(p)]
      BY <2>2 DEF Install
    <3>2. authority[p] = "runtime" /\ Written(p).schema = graph[p]
      BY <3>1 DEF Serving, Persisting, Written
    <3>3. ASSUME NEW i \in Contents, entry'[i] # entry[i]
          PROVE  entry'[i] = Written(p)
      BY <3>1, <3>3 DEF TypeOK
    <3>4. QED
      BY <3>1, <3>2, <3>3
  <2>3. QED
    BY <2>1, <2>2 DEF Next, Edit, Launch, Killed, Save, LoaderStep, OpenForLoad,
       Read, DigestFound, Accept, Miss, Introspect, Publish, PersistStep,
       OpenForWrite, DigestSources, CreateTemp, WriteTemp, GiveUp, NextSession
<1>2. CacheInv /\ [ManagerNext]_<<vars, filter, environment, part>> => [Newest]_vars
  BY <1>1 DEF ManagerNext
<1>3. QED
  BY <1>2, CacheInvariant, PTL DEF ManagerSpec, Managing, NewestInstalled

-----------------------------------------------------------------------------
(* The saves.                                                              *)

FilterProofs ==
  INSTANCE SaveFilterProofs WITH
    Files <- PythonFiles, MaxEdits <- MaxWrites, disk <- modules,
    graph <- listed, authority <- origin, wanted <- due, found <- met

\* The proofs about SaveFilter assume what is assumed here.
LEMMA FilterAssumption == FilterProofs!SaveFilterAssumption
BY FilterAssumed DEF Filter!SaveFilterAssumption, FilterProofs!SaveFilterAssumption

\* Both instances of SaveFilter take the same steps.
LEMMA SameFilter == Filter!Next <=> FilterProofs!Next
BY DEF Filter!Next, FilterProofs!Next,
       Filter!Write, FilterProofs!Write,
       Filter!LoadGraph, FilterProofs!LoadGraph,
       Filter!Judge, FilterProofs!Judge,
       Filter!LoadProvisional, FilterProofs!LoadProvisional,
       Filter!Release, FilterProofs!Release,
       Filter!Begin, FilterProofs!Begin,
       Filter!Import, FilterProofs!Import,
       Filter!ImportFails, FilterProofs!ImportFails,
       Filter!WorkerExits, FilterProofs!WorkerExits,
       Filter!Fail, FilterProofs!Fail,
       Filter!EndSession, FilterProofs!EndSession,
       Filter!PublishGraph, FilterProofs!PublishGraph,
       Filter!Publish, FilterProofs!Publish,
       Filter!Affects, FilterProofs!Affects,
       Filter!Reports, FilterProofs!Reports,
       Filter!GraphsOf, FilterProofs!GraphsOf,
       Filter!SourceLists, FilterProofs!SourceLists,
       Filter!Imported, FilterProofs!Imported,
       Filter!Importable, FilterProofs!Importable,
       Filter!Edits, FilterProofs!Edits,
       Filter!Max, FilterProofs!Max,
       Filter!NoCheck, FilterProofs!NoCheck,
       Filter!NoGraph, FilterProofs!NoGraph,
       Filter!NothingRead, FilterProofs!NothingRead,
       Filter!Unread, FilterProofs!Unread,
       Filter!Cardinality, FilterProofs!Cardinality,
       Filter!editorVars, FilterProofs!editorVars,
       Filter!cacheVars, FilterProofs!cacheVars,
       Filter!loopVars, FilterProofs!loopVars

\* The editor has done its edits and no worker is to be started.
LEMMA NothingToSaveInv == NothingToSave => FilterProofs!FilterInv
BY DEF NothingToSave, Filter!NoCheck, Filter!NoGraph, Filter!NothingRead,
       Filter!Unread, FilterProofs!NoCheck, FilterProofs!NoGraph,
       FilterProofs!NothingRead, FilterProofs!Unread,
       FilterProofs!FilterInv, FilterProofs!Typed, FilterProofs!SessionKnown,
       FilterProofs!GraphKnown, FilterProofs!OutageKnown, FilterProofs!JudgedKnown

\* The project starts as SaveFilter says, or rests.
LEMMA FilterInitInv ==
  CacheInit \/ FilterInit \/ ConfigureInit => FilterProofs!FilterInv
<1>1. Filter!Init => FilterProofs!Init
  BY DEF Filter!Init, FilterProofs!Init, Filter!NoCheck, FilterProofs!NoCheck,
         Filter!NoGraph, FilterProofs!NoGraph, Filter!NothingRead,
         FilterProofs!NothingRead, Filter!Unread, FilterProofs!Unread,
         Filter!Importable, FilterProofs!Importable, Filter!Imported,
         FilterProofs!Imported
<1>2. QED
  BY <1>1, FilterProofs!InitInv, NothingToSaveInv
     DEF CacheInit, FilterInit, ConfigureInit

\* It changes as SaveFilter says, or rests.
LEMMA FilterStep ==
  [ManagerNext]_<<vars, filter, environment, part>> =>
    [FilterProofs!Next]_(FilterProofs!vars)
BY SameFilter
   DEF ManagerNext, filter, FilterProofs!vars, FilterProofs!editorVars,
       FilterProofs!cacheVars, FilterProofs!loopVars

\* What is known of the saves is known in every behaviour of the manager.
LEMMA FilterInvariant == ManagerSpec => []FilterProofs!FilterInv
<1>1. FilterProofs!FilterInv /\ [ManagerNext]_<<vars, filter, environment, part>>
        => FilterProofs!FilterInv'
  BY FilterAssumption, FilterStep, FilterProofs!NextInv
<1>2. QED
  BY <1>1, FilterInitInv, PTL DEF ManagerSpec, Managing

\* With nothing under way, what the published graph was computed from is as it
\* was, up to saves that were not heard and need not have been.
THEOREM StaleMeansUnheard == ManagerSpec => []StaleOnlyIfUnheard
<1>1. FilterProofs!StaleOnlyIfUnheard => StaleOnlyIfUnheard
  BY DEF StaleOnlyIfUnheard, Filter!StaleOnlyIfUnheard,
         FilterProofs!StaleOnlyIfUnheard, Filter!NothingUnderWay,
         FilterProofs!NothingUnderWay, Filter!AlwaysHeard,
         FilterProofs!AlwaysHeard, Filter!NoCheck, FilterProofs!NoCheck,
         Filter!NoGraph, FilterProofs!NoGraph, Filter!NothingRead,
         FilterProofs!NothingRead, Filter!Unread, FilterProofs!Unread
<1>2. QED
  BY <1>1, FilterProofs!StaleFromInv, FilterInvariant, PTL

\* With nothing under way, an outage has a broken import for its cause, or a
\* save that was not heard.
THEOREM OutageHasACause == ManagerSpec => []OutageHasCause
<1>1. FilterProofs!OutageHasCause => OutageHasCause
  BY DEF OutageHasCause, Filter!OutageHasCause, FilterProofs!OutageHasCause,
         Filter!NothingUnderWay, FilterProofs!NothingUnderWay,
         Filter!AlwaysHeard, FilterProofs!AlwaysHeard, Filter!Imported,
         FilterProofs!Imported, Filter!NoCheck, FilterProofs!NoCheck,
         Filter!NoGraph, FilterProofs!NoGraph, Filter!NothingRead,
         FilterProofs!NothingRead, Filter!Unread, FilterProofs!Unread
<1>2. QED
  BY <1>1, FilterProofs!OutageFromInv, FilterInvariant, PTL

\* A save is heard only where an answer since the first read of its check was
\* yes.
THEOREM HeardIsAffecting == ManagerSpec => HeardOnlyIfAffecting
<1> DEFINE Heard ==
      check # Filter!NoCheck /\ check' = Filter!NoCheck /\ check.path \notin unheard'
        => TRUE \in affecting
<1>1. FilterProofs!NoCheck = Filter!NoCheck
  BY DEF Filter!NoCheck, FilterProofs!NoCheck, Filter!NoGraph,
         FilterProofs!NoGraph, Filter!NothingRead, FilterProofs!NothingRead,
         Filter!Unread, FilterProofs!Unread
<1>2. UNCHANGED FilterProofs!vars => UNCHANGED Filter!vars
  BY DEF FilterProofs!vars, FilterProofs!editorVars, FilterProofs!cacheVars,
         FilterProofs!loopVars, Filter!vars, Filter!editorVars,
         Filter!cacheVars, Filter!loopVars
<1>3. FilterProofs!FilterInv /\ [ManagerNext]_<<vars, filter, environment, part>>
        => [Heard]_(Filter!vars)
  <2> SUFFICES ASSUME FilterProofs!FilterInv, FilterProofs!Next,
                      check # FilterProofs!NoCheck, check' = FilterProofs!NoCheck,
                      check.path \notin unheard'
               PROVE  TRUE \in affecting
    BY <1>1, <1>2, FilterStep
  <2>1. QED
    BY FilterAssumption, FilterProofs!HeardFromInv
<1>4. QED
  BY <1>3, FilterInvariant, PTL
     DEF ManagerSpec, Managing, HeardOnlyIfAffecting, Filter!HeardOnlyIfAffecting

=============================================================================
