---------------------------- MODULE DaemonsProofs ----------------------------
(***************************************************************************)
(* Proofs about the small daemons (MCDaemons), for all values of their     *)
(* constants: nvidia-info's stored inventory outlives restarts, the leak   *)
(* detectors turn nothing off but for a leak, processors, IPMB, cables,    *)
(* fans, perishable values and forwarded ports always have their next      *)
(* work arranged for, and MCTP endpoints are watched, associated, told     *)
(* and set up as they should be.                                           *)
(***************************************************************************)
EXTENDS MCDaemons, FiniteSetTheorems, TLAPS

(* A step of the daemons is one of the part a proof is about, or leaves    *)
(* that part as it is.                                                     *)
LEMMA InfoSteps ==
  ASSUME [DaemonsNext]_daemonsVars
  PROVE  Info!Next \/ UNCHANGED infoVars
<1>1. CASE UNCHANGED daemonsVars
  BY <1>1, Zenon DEF daemonsVars, infoVars
<1>2. CASE DaemonsNext
  BY <1>2, Zenon DEF DaemonsNext, Only
<1> QED BY <1>1, <1>2

LEMMA DiscreteSteps ==
  ASSUME [DaemonsNext]_daemonsVars
  PROVE  Discrete!Next \/ UNCHANGED discreteVars
<1>1. CASE UNCHANGED daemonsVars
  BY <1>1, Zenon DEF daemonsVars
<1>2. CASE DaemonsNext
  BY <1>2, Zenon DEF DaemonsNext, Only
<1> QED BY <1>1, <1>2

LEMMA VoltageSteps ==
  ASSUME [DaemonsNext]_daemonsVars
  PROVE  Voltage!Next \/ UNCHANGED voltageVars
<1>1. CASE UNCHANGED daemonsVars
  BY <1>1, Zenon DEF daemonsVars
<1>2. CASE DaemonsNext
  BY <1>2, Zenon DEF DaemonsNext, Only
<1> QED BY <1>1, <1>2

-----------------------------------------------------------------------------
(* nvidia-info                                                             *)

Contents == Info!Payloads \cup {Info!None}

StoreTypes ==
    /\ infos \in [Sockets -> Contents] /\ file \in [Sockets -> Contents]
    /\ durable \in [Sockets -> Contents] /\ accepted \in [Sockets -> Contents]
    /\ toLoad \subseteq Sockets /\ toLoad \cap unpublished = {}
    /\ atOdds \in BOOLEAN /\ uploads \in 0..MaxUploads
    /\ \/ upload = Info!NoUpload
       \/ /\ upload \in [step : {"write", "rename"}, socket : Sockets, payload : Info!Payloads]
          /\ toLoad = {}

(* What a socket publishes: what is about to be written to its file;       *)
(* nothing before the file was loaded, or when it was passed over or the   *)
(* publication taken back; then what the file says.                        *)
Meant(s) ==
    IF upload # Info!NoUpload /\ s = upload.socket THEN upload.payload
    ELSE IF s \in toLoad \cup unpublished THEN Info!None
    ELSE file[s]

StoreKept ==
    /\ accepted = file /\ Info!Agree(file)
    /\ \A s \in Sockets : infos[s] = Meant(s)

StoreInv == StoreTypes /\ Info!Agree(infos) /\ (atOdds = FALSE => StoreKept)

LEMMA SameFunction ==
  ASSUME NEW S, NEW T, NEW f \in [S -> T], NEW g \in [S -> T], \A x \in S : f[x] = g[x]
  PROVE  f = g
OBVIOUS

LEMMA StoreStart == ASSUME Info!Start PROVE StoreInv
<1>1. MaxUploads \in Nat
  BY DaemonsAssumption DEF Info!InfoAssumption
<1>2. /\ infos = [s \in Sockets |-> Info!None] /\ file = infos /\ durable = infos
      /\ accepted = infos /\ toLoad = {} /\ atOdds = FALSE /\ uploads = 0
      /\ unpublished = {} /\ upload = Info!NoUpload
  BY DEF Info!Start, Info!Nothing
<1>3. StoreTypes
  <2>1. infos \in [Sockets -> Contents]
    BY <1>2 DEF Contents
  <2>2. 0 \in 0..MaxUploads
    BY <1>1
  <2> QED BY <1>2, <2>1, <2>2 DEF StoreTypes
<1>4. Info!Agree(infos) /\ Info!Agree(file)
  BY <1>2 DEF Info!Agree
<1> QED BY <1>2, <1>3, <1>4 DEF StoreInv, StoreKept, Meant

LEMMA UploadsBounded ==
  MaxUploads \in Nat
BY DaemonsAssumption DEF Info!InfoAssumption

(* Nothing that agrees is disturbed when a publication is taken back.      *)
LEMMA AgreeWithdrawn ==
  ASSUME NEW f \in [Sockets -> Contents], Info!Agree(f), NEW s
  PROVE  Info!Agree([f EXCEPT ![s] = Info!None])
BY DEF Info!Agree

LEMMA CreateStep == ASSUME StoreInv, Info!CreateInfo PROVE StoreInv'
<1>0. PICK s \in Sockets, c \in 1..2 :
        LET q == [count |-> c, version |-> uploads']
        IN  /\ Info!Uniform(s, q)
            /\ \/ /\ infos' = [infos EXCEPT ![s] = q]
                  /\ upload' = [step |-> "write", socket |-> s, payload |-> q]
                  /\ unpublished' = unpublished
               \/ /\ infos' = [infos EXCEPT ![s] = Info!None]
                  /\ unpublished' = unpublished \cup {s} /\ upload' = upload
  BY DEF Info!CreateInfo, Info!Publish, Info!Withdraw
<1>1. PICK p :
        /\ p = [count |-> c, version |-> uploads']
        /\ Info!Uniform(s, p)
        /\ \/ /\ infos' = [infos EXCEPT ![s] = p]
              /\ upload' = [step |-> "write", socket |-> s, payload |-> p]
              /\ unpublished' = unpublished
           \/ /\ infos' = [infos EXCEPT ![s] = Info!None]
              /\ unpublished' = unpublished \cup {s} /\ upload' = upload
  BY <1>0
<1>2. /\ toLoad = {} /\ upload = Info!NoUpload /\ uploads < MaxUploads /\ uploads' = uploads + 1
      /\ UNCHANGED <<file, durable, toLoad, accepted, atOdds>>
  BY DEF Info!CreateInfo
<1>3. uploads' \in 1..MaxUploads
  BY <1>2, UploadsBounded DEF StoreInv, StoreTypes
<1>4. p \in Info!Payloads /\ p # Info!None
  BY <1>1, <1>3 DEF Info!Payloads, Info!None
<1>5. StoreTypes'
  <2>1. infos' \in [Sockets -> Contents]
    BY <1>1, <1>4 DEF StoreInv, StoreTypes, Contents
  <2>2. uploads' \in 0..MaxUploads
    BY <1>3
  <2>3. \/ upload' = Info!NoUpload
        \/ upload' \in [step : {"write", "rename"}, socket : Sockets, payload : Info!Payloads]
    BY <1>1, <1>2, <1>4
  <2> QED BY <1>2, <2>1, <2>2, <2>3 DEF StoreInv, StoreTypes
<1>6. Info!Agree(infos)'
  <2>1. infos \in [Sockets -> Contents] /\ Info!Agree(infos)
    BY DEF StoreInv, StoreTypes
  <2>2. \A o \in Sockets \ {s} : infos[o] # Info!None => infos[o].count = p.count
    BY <1>1 DEF Info!Uniform
  <2> QED BY <1>1, <2>1, <2>2 DEF Info!Agree
<1>7. ASSUME atOdds' = FALSE PROVE StoreKept'
  <2>1. StoreKept /\ infos \in [Sockets -> Contents]
    BY <1>2, <1>7 DEF StoreInv, StoreTypes
  <2>2. (accepted = file /\ Info!Agree(file))'
    BY <1>2, <2>1 DEF StoreKept, Info!Agree
  <2>3. \A x \in Sockets : (infos[x])' = (Meant(x))'
    <3>1. CASE upload' = upload
      BY <1>1, <1>2, <1>4, <2>1, <3>1 DEF StoreKept, Meant, Info!NoUpload
    <3>2. CASE /\ infos' = [infos EXCEPT ![s] = p] /\ unpublished' = unpublished
               /\ upload' = [step |-> "write", socket |-> s, payload |-> p]
      <4>1. upload' # Info!NoUpload /\ upload'.socket = s /\ upload'.payload = p
        BY <3>2 DEF Info!NoUpload
      <4> QED BY <1>2, <2>1, <3>2, <4>1 DEF StoreKept, Meant
    <3> QED BY <1>1, <3>1, <3>2
  <2> QED BY <2>2, <2>3 DEF StoreKept
<1> QED BY <1>5, <1>6, <1>7 DEF StoreInv

(* An upload that is taken back, at either step.                           *)
LEMMA FailStep ==
  ASSUME StoreInv, Info!Fails, upload # Info!NoUpload, UNCHANGED <<toLoad, uploads>>
  PROVE  StoreInv'
<1>1. PICK s \in Sockets : s = upload.socket /\ toLoad = {}
  BY DEF StoreInv, StoreTypes
<1>2. /\ infos' = [infos EXCEPT ![s] = Info!None] /\ upload' = Info!NoUpload
      /\ unpublished' = unpublished \cup {s} /\ UNCHANGED <<file, durable, accepted, atOdds>>
  BY <1>1 DEF Info!Fails, Info!Withdraw
<1>3. StoreTypes'
  BY <1>2 DEF StoreInv, StoreTypes, Contents
<1>4. Info!Agree(infos)'
  BY <1>2 DEF StoreInv, StoreTypes, Info!Agree
<1>5. ASSUME atOdds' = FALSE PROVE StoreKept'
  <2>1. StoreKept /\ infos \in [Sockets -> Contents]
    BY <1>2, <1>5 DEF StoreInv, StoreTypes
  <2>2. \A x \in Sockets : (infos[x])' = (Meant(x))'
    BY <1>1, <1>2, <2>1 DEF StoreKept, Meant
  <2> QED BY <1>2, <2>1, <2>2 DEF StoreKept, Info!Agree
<1> QED BY <1>3, <1>4, <1>5 DEF StoreInv

LEMMA WriteStep == ASSUME StoreInv, Info!WriteTemp PROVE StoreInv'
<1>1. upload.step = "write" /\ upload # Info!NoUpload /\ UNCHANGED <<toLoad, uploads>>
  BY DEF Info!WriteTemp, Info!NoUpload
<1>2. CASE Info!Fails
  BY <1>1, <1>2, FailStep
<1>3. CASE /\ upload' = [upload EXCEPT !.step = "rename"]
           /\ UNCHANGED <<infos, file, durable, accepted, unpublished, atOdds>>
  <2>1. /\ upload \in [step : {"write", "rename"}, socket : Sockets, payload : Info!Payloads]
        /\ toLoad = {}
    BY <1>1 DEF StoreInv, StoreTypes
  <2>2. /\ upload' \in [step : {"write", "rename"}, socket : Sockets, payload : Info!Payloads]
        /\ upload'.socket = upload.socket /\ upload'.payload = upload.payload
        /\ upload' # Info!NoUpload
    BY <1>3, <2>1 DEF Info!NoUpload
  <2>3. StoreTypes' /\ Info!Agree(infos)'
    BY <1>1, <1>3, <2>1, <2>2 DEF StoreInv, StoreTypes, Info!Agree
  <2>4. ASSUME atOdds' = FALSE PROVE StoreKept'
    <3>1. StoreKept
      BY <1>3, <2>4 DEF StoreInv
    <3> QED BY <1>1, <1>3, <2>2, <3>1 DEF StoreKept, Meant, Info!Agree
  <2> QED BY <2>3, <2>4 DEF StoreInv
<1> QED BY <1>2, <1>3 DEF Info!WriteTemp

LEMMA RenameStep == ASSUME StoreInv, Info!Rename PROVE StoreInv'
<1>1. upload.step = "rename" /\ upload # Info!NoUpload /\ UNCHANGED <<toLoad, uploads>>
  BY DEF Info!Rename, Info!NoUpload
<1>2. CASE Info!Fails
  BY <1>1, <1>2, FailStep
<1>3. CASE ~Info!Fails
  <2>1. PICK s \in Sockets, p \in Info!Payloads :
          s = upload.socket /\ p = upload.payload /\ toLoad = {}
    BY <1>1 DEF StoreInv, StoreTypes
  <2>2. PICK d \in Contents :
          /\ file' = [file EXCEPT ![s] = p] /\ durable' = [durable EXCEPT ![s] = d]
          /\ accepted' = [accepted EXCEPT ![s] = p] /\ unpublished' = unpublished \ {s}
          /\ atOdds' = (atOdds \/ Info!Differing(unpublished \ {s}, p) # {})
          /\ upload' = Info!NoUpload /\ infos' = infos
    <3>1. \E d \in {p, durable[s], Info!None} : durable' = [durable EXCEPT ![s] = d]
      BY <1>3, <2>1 DEF Info!Rename
    <3>2. p \in Contents /\ durable[s] \in Contents /\ Info!None \in Contents
      BY <2>1 DEF StoreInv, StoreTypes, Contents
    <3>3. PICK d \in Contents : durable' = [durable EXCEPT ![s] = d]
      BY <3>1, <3>2
    <3>4. /\ file' = [file EXCEPT ![s] = p] /\ accepted' = [accepted EXCEPT ![s] = p]
          /\ unpublished' = unpublished \ {s} /\ upload' = Info!NoUpload /\ infos' = infos
          /\ atOdds' = (atOdds \/ Info!Differing(unpublished \ {s}, p) # {})
      BY <1>3, <2>1 DEF Info!Rename
    <3> QED BY <3>3, <3>4
  <2>3. p \in Contents
    BY DEF Contents
  <2>4. StoreTypes' /\ Info!Agree(infos)'
    <3>1. atOdds' \in BOOLEAN
      BY <2>2
    <3> QED BY <1>1, <2>1, <2>2, <2>3, <3>1 DEF StoreInv, StoreTypes, Info!Agree
  <2>5. ASSUME atOdds' = FALSE PROVE StoreKept'
    <3>1. /\ StoreKept /\ Info!Agree(infos)
          /\ \A o \in unpublished \ {s} : file[o] # Info!None => file[o].count = p.count
      BY <2>2, <2>5 DEF StoreInv, StoreTypes, Info!Differing
    <3>2. /\ infos \in [Sockets -> Contents] /\ file \in [Sockets -> Contents]
          /\ accepted = file /\ infos' = infos
      BY <2>2, <3>1 DEF StoreInv, StoreTypes, StoreKept
    <3>3. \A x \in Sockets :
            infos[x] = IF x = s THEN p ELSE IF x \in unpublished THEN Info!None ELSE file[x]
      BY <1>1, <2>1, <3>1 DEF StoreKept, Meant
    <3>4. Info!Agree(file)'
      <4> SUFFICES ASSUME NEW x \in Sockets, NEW o \in Sockets,
                          file'[x] # Info!None, file'[o] # Info!None
                   PROVE  file'[x].count = file'[o].count
        BY DEF Info!Agree
      <4>1. \A y \in Sockets : file'[y] = IF y = s THEN p ELSE file[y]
        BY <2>2, <3>2
      <4>2. \A y \in Sockets \ {s} : file[y] # Info!None => file[y].count = p.count
        <5> SUFFICES ASSUME NEW y \in Sockets \ {s}, file[y] # Info!None
                     PROVE  file[y].count = p.count
          OBVIOUS
        <5>1. CASE y \in unpublished
          BY <3>1, <5>1
        <5>2. CASE y \notin unpublished
          <6>1. infos[y] = file[y] /\ infos[s] = p /\ infos[y] # Info!None
            BY <3>3, <5>2
          <6>2. p # Info!None
            BY DEF Info!Payloads, Info!None
          <6> QED BY <3>1, <6>1, <6>2 DEF Info!Agree
        <5> QED BY <5>1, <5>2
      <4> QED BY <4>1, <4>2
    <3>5. \A x \in Sockets : (infos[x])' = (Meant(x))'
      BY <2>1, <1>1, <2>2, <3>2, <3>3 DEF Meant
    <3> QED BY <2>2, <3>2, <3>4, <3>5 DEF StoreKept
  <2> QED BY <2>4, <2>5 DEF StoreInv
<1> QED BY <1>2, <1>3

(* After a restart the files are there to be loaded.                       *)
LEMMA RestartedStore ==
  ASSUME NEW f \in [Sockets -> Contents], Info!Restarted(f), file' = f,
         accepted' \in [Sockets -> Contents], durable' \in [Sockets -> Contents],
         atOdds' \in BOOLEAN, UNCHANGED uploads, uploads \in 0..MaxUploads,
         atOdds' = FALSE => Info!Agree(f) /\ accepted' = f
  PROVE  StoreInv'
<1>1. /\ infos' = [s \in Sockets |-> Info!None] /\ upload' = Info!NoUpload
      /\ toLoad' = {s \in Sockets : f[s] # Info!None} /\ unpublished' = {}
  BY DEF Info!Restarted, Info!Nothing
<1>2. StoreTypes'
  BY <1>1 DEF StoreTypes, Contents
<1>3. Info!Agree(infos)'
  BY <1>1 DEF Info!Agree
<1>4. ASSUME atOdds' = FALSE PROVE StoreKept'
  <2>1. (accepted = file)'
    BY <1>4
  <2>2. Info!Agree(file)'
    BY <1>4 DEF Info!Agree
  <2>3. \A s \in Sockets : (infos[s])' = (Meant(s))'
    BY <1>1 DEF Meant
  <2> QED BY <2>1, <2>2, <2>3 DEF StoreKept
<1> QED BY <1>2, <1>3, <1>4 DEF StoreInv

LEMMA RestartStep == ASSUME StoreInv, Info!Restart PROVE StoreInv'
<1>1. /\ Info!Restarted(file) /\ UNCHANGED <<file, durable, accepted, atOdds, uploads>>
  BY DEF Info!Restart
<1> QED BY <1>1, RestartedStore DEF StoreInv, StoreTypes, StoreKept

LEMMA LosePowerStep == ASSUME StoreInv, Info!LosePower PROVE StoreInv'
<1>1. /\ Info!Restarted(durable) /\ file' = durable /\ accepted' = durable
      /\ atOdds' = (atOdds \/ ~Info!Agree(durable)) /\ UNCHANGED <<durable, uploads>>
  BY DEF Info!LosePower
<1>2. /\ durable \in [Sockets -> Contents] /\ durable' \in [Sockets -> Contents]
      /\ accepted' \in [Sockets -> Contents]
      /\ uploads \in 0..MaxUploads /\ atOdds' \in BOOLEAN
  BY <1>1 DEF StoreInv, StoreTypes
<1>3. atOdds' = FALSE => Info!Agree(durable) /\ accepted' = durable
  BY <1>1
<1> QED BY <1>1, <1>2, <1>3, RestartedStore

(* Of a file that agrees with the others nothing is removed.               *)
LEMMA LoadFileStep ==
  ASSUME StoreInv, NEW s \in toLoad, Info!LoadFile(s), UNCHANGED <<upload, accepted, atOdds, uploads>>
  PROVE  StoreInv'
<1>1. /\ toLoad' = toLoad \ {s}
      /\ \/ /\ Info!Accepts(s) /\ infos' = [infos EXCEPT ![s] = file[s]]
            /\ UNCHANGED <<file, durable, unpublished>>
         \/ /\ ~Info!Accepts(s) /\ infos' = [infos EXCEPT ![s] = Info!None]
            /\ file' \in {file, [file EXCEPT ![s] = Info!None]}
            /\ durable' \in {durable, [durable EXCEPT ![s] = Info!None]}
            /\ unpublished' = unpublished \cup {s}
  BY DEF Info!LoadFile, Info!Publish, Info!Withdraw, Info!RemovePersistedFile
<1>2. upload = Info!NoUpload /\ s \in Sockets
  BY DEF StoreInv, StoreTypes
<1>3. StoreTypes'
  BY <1>1, <1>2 DEF StoreInv, StoreTypes, Contents
<1>4. Info!Agree(infos)'
  <2>1. infos \in [Sockets -> Contents] /\ Info!Agree(infos)
    BY DEF StoreInv, StoreTypes
  <2>2. CASE infos' = [infos EXCEPT ![s] = Info!None]
    BY <2>1, <2>2, AgreeWithdrawn DEF Info!Agree
  <2>3. CASE Info!Accepts(s) /\ infos' = [infos EXCEPT ![s] = file[s]]
    <3>1. \A o \in Sockets \ {s} : infos[o] # Info!None => infos[o].count = file[s].count
      BY <2>3 DEF Info!Accepts, Info!Uniform
    <3> QED BY <1>2, <2>1, <2>3, <3>1 DEF Info!Agree
  <2> QED BY <1>1, <2>2, <2>3
<1>5. ASSUME atOdds' = FALSE PROVE StoreKept'
  <2>1. StoreKept /\ infos \in [Sockets -> Contents] /\ file \in [Sockets -> Contents]
    BY <1>5 DEF StoreInv, StoreTypes
  <2>2. \A o \in Sockets : infos[o] = IF o \in toLoad \cup unpublished THEN Info!None ELSE file[o]
    BY <1>2, <2>1 DEF StoreKept, Meant
  <2>3. file[s] # Info!None => Info!Accepts(s)
    <3>1. SUFFICES ASSUME file[s] # Info!None, NEW o \in Sockets, infos[o] # Info!None
                   PROVE  infos[o].count = file[s].count
      BY DEF Info!Accepts, Info!Uniform
    <3>2. infos[o] = file[o]
      BY <2>2, <3>1
    <3> QED BY <1>2, <2>1, <3>1, <3>2 DEF StoreKept, Info!Agree
  <2>4. CASE Info!Accepts(s) /\ infos' = [infos EXCEPT ![s] = file[s]]
    <3>1. UNCHANGED <<file, unpublished>>
      BY <1>1, <2>4
    <3>2. \A o \in Sockets : (infos[o])' = (Meant(o))'
      BY <1>1, <1>2, <2>1, <2>2, <2>4, <3>1 DEF Meant, StoreInv, StoreTypes
    <3> QED BY <2>1, <3>1, <3>2 DEF StoreKept, Info!Agree
  <2>5. CASE ~Info!Accepts(s)
    <3>1. file[s] = Info!None /\ infos' = [infos EXCEPT ![s] = Info!None]
          /\ file' \in {file, [file EXCEPT ![s] = Info!None]} /\ unpublished' = unpublished \cup {s}
      BY <1>1, <2>3, <2>5
    <3>2. file' = file
      BY <1>2, <2>1, <3>1
    <3>3. \A o \in Sockets : (infos[o])' = (Meant(o))'
      BY <1>1, <1>2, <2>1, <2>2, <3>1, <3>2 DEF Meant
    <3> QED BY <2>1, <3>2, <3>3 DEF StoreKept, Info!Agree
  <2> QED BY <1>1, <2>4, <2>5
<1> QED BY <1>3, <1>4, <1>5 DEF StoreInv

(* Files that are passed over stay, and are not published.                 *)
LEMMA PassedOverStep ==
  ASSUME StoreInv, NEW passed, passed \subseteq toLoad, toLoad' = toLoad \ passed,
         unpublished' = unpublished \cup passed, NEW s \in passed,
         infos' \in {infos, [infos EXCEPT ![s] = Info!None]},
         UNCHANGED <<file, durable, upload, accepted, atOdds, uploads>>
  PROVE  StoreInv'
<1>1. upload = Info!NoUpload /\ s \in Sockets
  BY DEF StoreInv, StoreTypes
<1>2. StoreTypes'
  BY <1>1 DEF StoreInv, StoreTypes, Contents
<1>3. Info!Agree(infos)'
  <2>1. infos \in [Sockets -> Contents] /\ Info!Agree(infos)
    BY DEF StoreInv, StoreTypes
  <2> QED BY <2>1, AgreeWithdrawn DEF Info!Agree
<1>4. ASSUME atOdds' = FALSE PROVE StoreKept'
  <2>1. StoreKept /\ infos \in [Sockets -> Contents]
    BY <1>4 DEF StoreInv, StoreTypes
  <2>2. \A o \in Sockets : (infos[o])' = (Meant(o))'
    BY <1>1, <2>1 DEF StoreKept, Meant
  <2> QED BY <2>1, <2>2 DEF StoreKept, Info!Agree
<1> QED BY <1>2, <1>3, <1>4 DEF StoreInv

LEMMA LoadStep == ASSUME StoreInv, Info!LoadPersisted PROVE StoreInv'
<1>1. PICK s \in toLoad : Info!LoadFile(s) \/ Info!SkipFile(s) \/ Info!AbandonFiles(s)
  BY DEF Info!LoadPersisted
<1>2. UNCHANGED <<upload, accepted, atOdds, uploads>>
  BY DEF Info!LoadPersisted
<1>3. CASE Info!LoadFile(s)
  BY <1>2, <1>3, LoadFileStep
<1>4. CASE Info!SkipFile(s)
  <2>1. /\ toLoad' = toLoad \ {s} /\ unpublished' = unpublished \cup {s}
        /\ UNCHANGED <<infos, file, durable>>
    BY <1>4 DEF Info!SkipFile
  <2> QED BY <1>2, <2>1, PassedOverStep
<1>5. CASE Info!AbandonFiles(s)
  <2>1. /\ toLoad' = toLoad \ toLoad /\ unpublished' = unpublished \cup toLoad
        /\ infos' = [infos EXCEPT ![s] = Info!None] /\ UNCHANGED <<file, durable>>
    BY <1>5 DEF Info!AbandonFiles, Info!Withdraw
  <2> QED BY <1>2, <2>1, PassedOverStep
<1> QED BY <1>1, <1>3, <1>4, <1>5

LEMMA StoreStands ==
  ASSUME StoreInv,
         UNCHANGED <<infos, file, durable, upload, toLoad, accepted, unpublished, atOdds, uploads>>
  PROVE  StoreInv'
BY DEF StoreInv, StoreTypes, StoreKept, Meant, Info!Agree

LEMMA StoreStep == ASSUME StoreInv, Info!Next \/ UNCHANGED infoVars PROVE StoreInv'
<1>1. CASE Info!WriteTemp
  BY <1>1, WriteStep
<1>2. CASE Info!Rename
  BY <1>2, RenameStep
<1>3. CASE Info!LoadPersisted
  BY <1>3, LoadStep
<1>4. CASE Info!Discovered
  BY <1>4, StoreStands DEF Info!Discovered, Info!storeVars
<1>5. CASE Info!CreateInfo
  BY <1>5, CreateStep
<1>6. CASE Info!Restart
  BY <1>6, RestartStep
<1>7. CASE Info!LosePower
  BY <1>7, LosePowerStep
<1>8. CASE Info!BoardAppears
  BY <1>8, StoreStands DEF Info!BoardAppears, Info!storeVars
<1>9. CASE UNCHANGED infoVars
  BY <1>9, StoreStands DEF infoVars
<1> QED BY <1>1, <1>2, <1>3, <1>4, <1>5, <1>6, <1>7, <1>8, <1>9 DEF Info!Next, Info!Proceeds

LEMMA StorePublished == ASSUME StoreInv PROVE StoreSurvives
<1>1. SUFFICES ASSUME toLoad = {}, upload = Info!NoUpload, ~atOdds
               PROVE  /\ file = accepted
                      /\ \A s \in Sockets :
                           infos[s] = IF s \in unpublished THEN Info!None ELSE accepted[s]
  BY DEF StoreInv, StoreSurvives, Info!AcceptedIsPublished
<1>2. StoreKept
  BY <1>1 DEF StoreInv, StoreTypes
<1> QED BY <1>1, <1>2 DEF StoreKept, Meant

(* What nvidia-info answered with success is in the file of the socket and *)
(* is what it publishes, however often the daemon restarts or power is     *)
(* lost, but for a socket that this run of the daemon withdrew or passed   *)
(* over, and while the files agree; and the sockets it publishes agree in  *)
(* their counts.                                                           *)
THEOREM AcceptedOutlivesRestarts == DaemonsSpec => []StoreSurvives
<1>1. DaemonsInit => StoreInv
  BY StoreStart DEF DaemonsInit
<1>2. StoreInv /\ [DaemonsNext]_daemonsVars => StoreInv'
  BY InfoSteps, StoreStep
<1>3. StoreInv => StoreSurvives
  BY StorePublished
<1> QED BY <1>1, <1>2, <1>3, PTL DEF DaemonsSpec

-----------------------------------------------------------------------------
(* Leak detectors                                                          *)

\* A timer is armed for a leak that was noticed, with the generation of its arming; what
\* waits to run has one that is over, or is that of a leak that lasts.
DiscreteInv ==
    /\ pin \in BOOLEAN /\ leak \in BOOLEAN /\ generation \in Nat /\ armed \in {0, generation}
    /\ queued \subseteq 1..generation
    /\ armed # 0 => leak
    /\ generation \in queued => leak

LEMMA DiscreteStart == ASSUME Discrete!Start PROVE DiscreteInv
BY DEF Discrete!Start, Discrete!New, DiscreteInv

\* What becomes of the timer: withdrawn, armed for a leak with a new generation, or left.
LEMMA TimerKept ==
  ASSUME DiscreteInv, pin' \in BOOLEAN, leak' \in BOOLEAN, queued' \subseteq queued,
         \/ armed' = 0 /\ generation' = generation + 1
         \/ leak' /\ generation' = generation + 1 /\ armed' = generation'
         \/ leak' = leak /\ UNCHANGED <<armed, generation>>
         \/ leak' /\ UNCHANGED <<armed, generation>>
  PROVE  DiscreteInv'
<1>1. /\ generation \in Nat /\ armed \in {0, generation} /\ queued \subseteq 1..generation
      /\ (armed # 0 => leak) /\ (generation \in queued => leak) /\ queued' \subseteq queued
  BY DEF DiscreteInv
<1>2. ASSUME generation' = generation + 1, armed' \in {0, generation'}, armed' # 0 => leak'
      PROVE  DiscreteInv'
  <2>1. generation' \in Nat /\ queued' \subseteq 1..generation' /\ generation' \notin queued'
    BY <1>1, <1>2
  <2> QED BY <1>2, <2>1 DEF DiscreteInv
<1>3. ASSUME leak => leak', UNCHANGED <<armed, generation>> PROVE DiscreteInv'
  BY <1>1, <1>3 DEF DiscreteInv
<1>4. CASE armed' = 0 /\ generation' = generation + 1
  BY <1>2, <1>4
<1>5. CASE leak' /\ generation' = generation + 1 /\ armed' = generation'
  BY <1>2, <1>5
<1>6. CASE leak' = leak /\ UNCHANGED <<armed, generation>>
  BY <1>3, <1>6
<1>7. CASE leak' /\ UNCHANGED <<armed, generation>>
  BY <1>3, <1>7
<1> QED BY <1>4, <1>5, <1>6, <1>7

LEMMA DiscreteStep ==
  ASSUME DiscreteInv, Discrete!Next \/ UNCHANGED discreteVars
  PROVE  DiscreteInv'
<1>0. pin \in BOOLEAN /\ leak \in BOOLEAN
  BY DEF DiscreteInv
<1>1. CASE Discrete!GetLeakInfo
  <2>1. /\ queued' = queued /\ pin' = pin
        /\ IF leak' = leak THEN UNCHANGED <<armed, generation, off>>
           ELSE IF ~leak' THEN Discrete!CancelPendingShutdown
           ELSE IF Discrete!Triggers(loaded, known) THEN Discrete!StartShutdown(known, "none")
           ELSE off' = "none" /\ UNCHANGED <<armed, generation>>
    BY <1>1 DEF Discrete!GetLeakInfo
  <2>2. leak' \in BOOLEAN
    BY <1>0, <1>1 DEF Discrete!GetLeakInfo
  <2> QED BY <1>0, <2>1, <2>2, TimerKept
          DEF Discrete!CancelPendingShutdown, Discrete!StartShutdown
<1>2. CASE Discrete!BindLeakPolicy
  BY <1>0, <1>2, TimerKept DEF Discrete!BindLeakPolicy, Discrete!CancelPendingShutdown
<1>3. CASE Discrete!ApplyPolicyConfigMap
  BY <1>0, <1>3, TimerKept
  DEF Discrete!ApplyPolicyConfigMap, Discrete!CancelPendingShutdown, Discrete!StartShutdown
<1>4. CASE Discrete!TimerExpires
  <2>1. /\ armed # 0 /\ armed' = 0 /\ queued' = queued \cup {armed}
        /\ UNCHANGED <<pin, leak, generation>>
    BY <1>4 DEF Discrete!TimerExpires
  <2>2. armed = generation /\ generation \in Nat /\ leak /\ queued \subseteq 1..generation
    BY <2>1 DEF DiscreteInv
  <2>3. queued' \subseteq 1..generation
    BY <2>1, <2>2
  <2> QED BY <1>0, <2>1, <2>2, <2>3 DEF DiscreteInv
<1>5. CASE Discrete!HandleTimer
  <2>1. queued' \subseteq queued /\ UNCHANGED <<pin, leak, armed, generation>>
    BY <1>5 DEF Discrete!HandleTimer
  <2> QED BY <1>0, <2>1, TimerKept
<1>6. CASE Discrete!Recreate
  <2>1. leak' = FALSE /\ armed' = 0 /\ queued' = {} /\ generation' = 0 /\ pin' = pin
    BY <1>6 DEF Discrete!Recreate, Discrete!New
  <2> QED BY <1>0, <2>1 DEF DiscreteInv
<1>7. CASE pin' \in BOOLEAN /\ UNCHANGED <<leak, armed, queued, generation>>
  BY <1>0, <1>7, TimerKept
<1>8. CASE Discrete!PinChanges
  BY <1>0, <1>7, <1>8 DEF Discrete!PinChanges
<1> QED BY <1>0, <1>1, <1>2, <1>3, <1>4, <1>5, <1>6, <1>7, <1>8
        DEF Discrete!Next, Discrete!Proceeds, Discrete!InstallLeakPolicyMatch, Discrete!Answer,
            Discrete!LoadAllPolicyProperties, Discrete!PolicyChanges, discreteVars

\* A step requests a shutdown only as the policy known then says, for a leak.
LEMMA DiscreteDue ==
  ASSUME DiscreteInv, Discrete!Next, off' \notin {"none", off}
  PROVE  leak' /\ Discrete!Triggers(loaded', known') /\ off' = Discrete!Target(known')
<1>1. CASE Discrete!GetLeakInfo
  BY <1>1 DEF Discrete!GetLeakInfo, Discrete!CancelPendingShutdown, Discrete!StartShutdown
<1>2. CASE Discrete!ApplyPolicyConfigMap
  <2>1. leak' = leak /\ loaded' = TRUE
    BY <1>2 DEF Discrete!ApplyPolicyConfigMap
  <2>2. CASE leak /\ Discrete!Triggers(TRUE, known')
    <3>1. IF (known').delayed THEN off' = off ELSE off' = Discrete!Target(known')
      BY <1>2, <2>2 DEF Discrete!ApplyPolicyConfigMap, Discrete!StartShutdown
    <3> QED BY <2>1, <2>2, <3>1
  <2>3. CASE ~(leak /\ Discrete!Triggers(TRUE, known'))
    BY <1>2, <2>3 DEF Discrete!ApplyPolicyConfigMap, Discrete!CancelPendingShutdown
  <2> QED BY <2>2, <2>3
<1>3. CASE Discrete!HandleTimer
  <2>1. PICK g \in queued :
          off' = IF Discrete!Current(g) /\ Discrete!Triggers(loaded, known)
                 THEN Discrete!Target(known) ELSE off
    BY <1>3 DEF Discrete!HandleTimer
  <2>2. g = generation /\ Discrete!Triggers(loaded, known) /\ off' = Discrete!Target(known)
    BY <2>1 DEF Discrete!Current
  <2>3. leak
    BY <2>2 DEF DiscreteInv
  <2>4. UNCHANGED <<leak, loaded, known>>
    BY <1>3 DEF Discrete!HandleTimer
  <2> QED BY <2>2, <2>3, <2>4 DEF Discrete!Triggers, Discrete!Target
<1>4. ASSUME ~Discrete!GetLeakInfo, ~Discrete!ApplyPolicyConfigMap, ~Discrete!HandleTimer
      PROVE  off' \in {"none", off}
  BY <1>4 DEF Discrete!Next, Discrete!Proceeds, Discrete!InstallLeakPolicyMatch,
              Discrete!Answer, Discrete!LoadAllPolicyProperties, Discrete!PinChanges,
              Discrete!PolicyChanges, Discrete!BindLeakPolicy, Discrete!CancelPendingShutdown,
              Discrete!TimerExpires, Discrete!Recreate
<1> QED BY <1>1, <1>2, <1>3, <1>4

-----------------------------------------------------------------------------
\* A detector whose shutdown waits found a leak, and keeps it.
Detectors ==
    [state : {"normal", "fault", "leak"}, value : Voltage!Voltages, threshold : 1..4, count : Nat,
     override : BOOLEAN, reads : BOOLEAN, hasFile : BOOLEAN, shuts : BOOLEAN, delayed : BOOLEAN]

VoltageInv ==
    /\ volt \in Voltage!Voltages /\ detector \in Detectors
    /\ shutdown \in {"armed", "queued"} => detector.state = "leak" /\ detector.shuts

LEMMA CreatedTyped ==
  ASSUME NEW h \in BOOLEAN, NEW s \in BOOLEAN, NEW d \in BOOLEAN
  PROVE  Voltage!Created(h, s, d) \in Detectors
BY DEF Voltage!Created, Detectors, Voltage!Voltages

LEMMA VoltageStart == ASSUME Voltage!Init \/ Voltage!Start PROVE VoltageInv
<1>1. PICK h \in BOOLEAN, s \in BOOLEAN, d \in BOOLEAN :
        volt = 3 /\ detector = Voltage!Created(h, s, d) /\ shutdown = "idle"
  BY DEF Voltage!Init, Voltage!Start, Voltage!With
<1> QED BY <1>1, CreatedTyped DEF VoltageInv, Voltage!Voltages

\* The state machine of a detector never leaves a leak.
LEMMA DeterminedKeeps ==
  ASSUME NEW d \in Detectors, NEW v \in Voltage!Voltages
  PROVE  /\ Voltage!Determined(d, v) \in Detectors
         /\ Voltage!Determined(d, v).shuts = d.shuts
         /\ d.state = "leak" => Voltage!Determined(d, v).state = "leak"
<1> DEFINE e == Voltage!Determined(d, v)
           Kept(x) == x \in Detectors /\ x.shuts = d.shuts /\ (d.state = "leak" => x.state = "leak")
<1>1. CASE d.state = "normal" /\ Voltage!OutOfRange(v)
  <2>1. e = [d EXCEPT !.state = "fault"]
    BY <1>1 DEF Voltage!Determined
  <2>2. Kept([d EXCEPT !.state = "fault"])
    BY <1>1 DEF Detectors
  <2> QED BY <2>1, <2>2
<1>2. CASE d.state = "normal" /\ ~Voltage!OutOfRange(v)
  <2>1. CASE v < d.threshold
    <3>1. PICK k \in Nat, s \in {"normal", "leak"} :
            k = d.count + 1 /\ s = IF d.count + 1 >= 3 THEN "leak" ELSE "normal"
      BY DEF Detectors
    <3>2. ~(v >= d.threshold)
      BY <2>1 DEF Detectors, Voltage!Voltages, Voltage!NaN
    <3>3. e = [d EXCEPT !.count = k, !.state = s]
      <4>1. e = [d EXCEPT !.count = d.count + 1,
                          !.state = IF d.count + 1 >= 3 THEN "leak" ELSE "normal"]
        BY <1>2, <2>1, <3>2, Zenon DEF Voltage!Determined
      <4> QED BY <3>1, <4>1
    <3>4. Kept([d EXCEPT !.count = k, !.state = s])
      BY <1>2 DEF Detectors
    <3> QED BY <3>3, <3>4
  <2>2. CASE ~(v < d.threshold)
    <3>1. v >= d.threshold
      BY <2>2 DEF Detectors, Voltage!Voltages, Voltage!NaN
    <3>2. e = [d EXCEPT !.count = 0]
      BY <1>2, <2>2, <3>1 DEF Voltage!Determined
    <3>3. Kept([d EXCEPT !.count = 0])
      BY DEF Detectors
    <3> QED BY <3>2, <3>3
  <2> QED BY <2>1, <2>2
<1>3. CASE d.state = "fault"
  <2>1. e \in {d, [d EXCEPT !.state = "normal"]}
    BY <1>3 DEF Voltage!Determined
  <2>2. Kept(d) /\ Kept([d EXCEPT !.state = "normal"])
    BY <1>3 DEF Detectors
  <2> QED BY <2>1, <2>2
<1>4. CASE d.state = "leak"
  <2>1. e = d
    BY <1>4 DEF Voltage!Determined
  <2> QED BY <2>1
<1> QED BY <1>1, <1>2, <1>3, <1>4 DEF Detectors

LEMMA SetValueStep ==
  ASSUME VoltageInv, NEW d \in Detectors, d.state = detector.state, d.shuts = detector.shuts,
         Voltage!SetValue(d), volt' \in Voltage!Voltages
  PROVE  VoltageInv' /\ (offs' /\ ~offs => (detector.state = "leak" /\ detector.shuts)')
<1>1. d.value \in Voltage!Voltages
  BY DEF Detectors
<1>2. PICK e \in Detectors :
        /\ e = detector' /\ e.shuts = d.shuts /\ (d.state = "leak" => e.state = "leak")
        /\ IF e.state = "leak" /\ d.state # "leak" /\ d.shuts
           THEN IF d.delayed THEN shutdown' = "armed" /\ offs' = offs
                ELSE offs' = TRUE /\ shutdown' = shutdown
           ELSE shutdown' = shutdown /\ offs' = offs
  BY <1>1, DeterminedKeeps DEF Voltage!SetValue
<1> QED BY <1>2 DEF VoltageInv

LEMMA VoltageStep ==
  ASSUME VoltageInv, Voltage!Next \/ UNCHANGED voltageVars
  PROVE  /\ VoltageInv'
         /\ offs' /\ ~offs /\ shutdown # "dangling" =>
               (detector.state = "leak" /\ detector.shuts)'
<1>0. volt \in Voltage!Voltages /\ detector \in Detectors
  BY DEF VoltageInv
<1>1. CASE Voltage!HandleResponse
  <2>1. volt' = volt
    BY <1>1 DEF Voltage!HandleResponse
  <2>2. CASE ~detector.hasFile
    <3>1. detector' = [detector EXCEPT !.reads = FALSE] /\ UNCHANGED <<shutdown, offs>>
      BY <1>1, <2>2 DEF Voltage!HandleResponse
    <3> QED BY <1>0, <2>1, <3>1 DEF VoltageInv, Detectors
  <2>3. CASE UNCHANGED <<detector, shutdown, offs>>
    BY <2>1, <2>3 DEF VoltageInv
  <2>4. CASE Voltage!SetValue([detector EXCEPT !.value = IF detector.override THEN @ ELSE volt])
    <3>1. PICK d : d = [detector EXCEPT !.value = IF detector.override THEN @ ELSE volt]
      OBVIOUS
    <3>2. d \in Detectors /\ d.state = detector.state /\ d.shuts = detector.shuts
      BY <1>0, <3>1 DEF Detectors
    <3> QED BY <1>0, <2>1, <2>4, <3>1, <3>2, SetValueStep
  <2> QED BY <1>1, <2>2, <2>3, <2>4 DEF Voltage!HandleResponse
<1>2. CASE Voltage!Override
  <2>1. PICK v \in Voltage!Voltages :
          /\ Voltage!SetValue([detector EXCEPT !.value = v, !.override = TRUE])
          /\ volt' = volt
    BY <1>2 DEF Voltage!Override
  <2>2. PICK d : d = [detector EXCEPT !.value = v, !.override = TRUE]
    OBVIOUS
  <2>3. d \in Detectors /\ d.state = detector.state /\ d.shuts = detector.shuts
    BY <1>0, <2>2 DEF Detectors
  <2> QED BY <1>0, <2>1, <2>2, <2>3, SetValueStep
<1>3. CASE Voltage!SetThreshold
  <2>1. PICK u \in 1..4 : /\ detector' = [detector EXCEPT !.threshold = u]
                          /\ UNCHANGED <<volt, shutdown, offs>>
    BY <1>3 DEF Voltage!SetThreshold
  <2> QED BY <1>0, <2>1 DEF VoltageInv, Detectors
<1>4. CASE Voltage!VoltageChanges
  <2>1. volt' \in Voltage!Voltages /\ UNCHANGED <<detector, shutdown, offs>>
    BY <1>4 DEF Voltage!VoltageChanges
  <2> QED BY <2>1 DEF VoltageInv
<1>5. CASE Voltage!TimerExpires
  BY <1>5 DEF VoltageInv, Voltage!TimerExpires
<1>6. CASE Voltage!ExecuteShutdown
  BY <1>6 DEF VoltageInv, Voltage!ExecuteShutdown
<1>7. CASE Voltage!Dangling
  BY <1>7 DEF VoltageInv, Voltage!Dangling
<1>8. CASE Voltage!Recreate
  <2>1. /\ detector' \in Detectors /\ volt' = volt /\ offs' = FALSE
        /\ shutdown' \in {"dangling", "idle"}
    BY <1>8, CreatedTyped DEF Voltage!Recreate
  <2> QED BY <1>0, <2>1 DEF VoltageInv
<1>9. CASE UNCHANGED voltageVars
  BY <1>9 DEF VoltageInv, voltageVars
<1> QED BY <1>1, <1>2, <1>3, <1>4, <1>5, <1>6, <1>7, <1>8, <1>9
        DEF Voltage!Next, Voltage!Proceeds

(* Leak detectors: nothing is turned off but for a leak that lasts, as the *)
(* policy known then says, whatever waited before; a voltage detector      *)
(* whose handler outlived its sensor is the exception.                     *)
THEOREM OffOnlyForLeaks == DaemonsSpec => ShutdownsAreDue
<1> DEFINE Due1 == off' \notin {"none", off} =>
                      /\ leak' /\ Discrete!Triggers(loaded', known')
                      /\ off' = Discrete!Target(known')
           Due2 == offs' /\ ~offs /\ shutdown # "dangling" =>
                      detector'.state = "leak" /\ detector'.shuts
<1>1. DaemonsInit => DiscreteInv /\ VoltageInv
  BY DiscreteStart, VoltageStart DEF DaemonsInit, Discrete!Init
<1>2. DiscreteInv /\ VoltageInv /\ [DaemonsNext]_daemonsVars => (DiscreteInv /\ VoltageInv)'
  BY DiscreteSteps, VoltageSteps, DiscreteStep, VoltageStep
<1>3. DiscreteInv /\ [DaemonsNext]_daemonsVars => [Due1]_Discrete!discreteVars
  BY DiscreteSteps, DiscreteDue DEF discreteVars, Discrete!discreteVars
<1>4. VoltageInv /\ [DaemonsNext]_daemonsVars => [Due2]_Voltage!voltageVars
  BY VoltageSteps, VoltageStep DEF voltageVars, Voltage!voltageVars
<1> QED BY <1>1, <1>2, <1>3, <1>4, PTL
        DEF DaemonsSpec, ShutdownsAreDue, Discrete!ShutdownIsDue, Voltage!OffIsDue

-----------------------------------------------------------------------------
(* Processors: what is due is looked for by a timer that is set, and a     *)
(* polled sensor has its file unless its client was made anew.             *)
CpuInv ==
    /\ cpuSensors \in [Cpus -> [Cpu!Kinds -> {"none", "polled", "ended"}]]
    /\ hwmon \in [Cpus -> SUBSET Cpu!Kinds] /\ cpuConfigs \subseteq Cpus /\ client \subseteq Cpus
    /\ Cpu!Due # {} => "ping" \in cpuTimers \/ ("creation" \in cpuTimers /\ keepPinging)
    /\ \A c \in Cpus, k \in Cpu!Kinds :
        cpuSensors[c][k] # "none" => c \in exported \/ (cpuSensors[c][k] = "polled" /\ k \in hwmon[c])

LEMMA CpuStart == ASSUME Cpu!Init \/ Cpu!Start PROVE CpuInv
BY DEF Cpu!Init, Cpu!Start, Cpu!StartWith, CpuInv, Cpu!Due

(* Detection, by either way, keeps looking for what it did not find ready. *)
LEMMA RescannedStep ==
  ASSUME CpuInv, "ping" \in cpuTimers, Cpu!Rescanned, UNCHANGED <<cpuConfigs, cpuSensors>>
  PROVE  CpuInv'
<1>1. Cpu!Due' \subseteq {c \in Cpu!Due : detected'[c] # "READY"}
  BY DEF CpuInv, Cpu!Rescanned, Cpu!Due
<1>2. Cpu!Due' # {} => keepPinging'
  BY <1>1 DEF Cpu!Rescanned
<1>3. "ping" \in cpuTimers' \/ "creation" \in cpuTimers' \/ ~keepPinging'
  BY DEF Cpu!Rescanned, Cpu!Continue
<1>4. UNCHANGED <<hwmon, exported, cpuConfigs, cpuSensors>>
  BY DEF Cpu!Rescanned
<1>5. (Cpu!Due # {} => "ping" \in cpuTimers \/ ("creation" \in cpuTimers /\ keepPinging))'
  BY <1>2, <1>3
<1>6. client' \subseteq Cpus
  BY DEF CpuInv, Cpu!Rescanned, Cpu!Due
<1> QED BY <1>4, <1>5, <1>6 DEF CpuInv

LEMMA PingedStep ==
  ASSUME CpuInv, "ping" \in cpuTimers, Cpu!Pinged, UNCHANGED <<cpuConfigs, cpuSensors>>
  PROVE  CpuInv'
<1>0. PICK stop \in Cpu!Due \cup {Cpu!None}, refused \in SUBSET Cpu!Due :
        LET reached == {c \in Cpu!Due : stop = Cpu!None \/ c < stop}
            anew == {c \in reached : detected[c] = "OFF" /\ cpuUp[c] # "off"}
            found == \E c \in reached : detected'[c] # detected[c] /\ detected'[c] # "OFF"
        IN  /\ detected' = [c \in Cpus |-> IF c \notin reached THEN detected[c]
                                           ELSE IF c \in refused THEN "OFF" ELSE Cpu!Answered(c)]
            /\ Cpu!ExportDevice(anew, refused)
            /\ keepPinging' = (keepPinging \/ \E c \in reached : detected'[c] # "READY")
            /\ Cpu!Continue(stop = Cpu!None /\ found, stop # Cpu!None \/ keepPinging')
  BY DEF Cpu!Pinged
<1>1. PICK reached, anew, found :
        /\ reached = {c \in Cpu!Due : stop = Cpu!None \/ c < stop}
        /\ anew = {c \in reached : detected[c] = "OFF" /\ cpuUp[c] # "off"}
        /\ detected' = [c \in Cpus |-> IF c \notin reached THEN detected[c]
                                       ELSE IF c \in refused THEN "OFF" ELSE Cpu!Answered(c)]
        /\ Cpu!ExportDevice(anew, refused)
        /\ keepPinging' = (keepPinging \/ \E c \in reached : detected'[c] # "READY")
        /\ Cpu!Continue(stop = Cpu!None /\ found, stop # Cpu!None \/ keepPinging')
  BY <1>0
<1>2. reached \subseteq Cpu!Due /\ Cpu!Due \subseteq Cpus /\ anew \subseteq Cpus
  BY <1>1 DEF CpuInv, Cpu!Due
<1>3. stop = Cpu!None => (Cpu!Due' # {} => keepPinging')
  <2> SUFFICES ASSUME stop = Cpu!None, NEW c \in Cpu!Due' PROVE keepPinging'
    OBVIOUS
  <2>1. c \in Cpus /\ detected'[c] # "READY"
    BY DEF Cpu!Due, CpuInv
  <2>2. c \in reached
    BY <1>1, <2>1 DEF Cpu!Due
  <2> QED BY <1>1, <2>1, <2>2
<1>4. (Cpu!Due # {} => "ping" \in cpuTimers \/ ("creation" \in cpuTimers /\ keepPinging))'
  BY <1>1, <1>3 DEF Cpu!Continue
<1>5. /\ hwmon' = [c \in Cpus |-> IF c \in anew THEN {} ELSE hwmon[c]]
      /\ client' \subseteq client \cup anew
      /\ exported' = exported \cup {c \in anew : \E k \in Cpu!Kinds : cpuSensors[c][k] # "none"}
  BY <1>1 DEF Cpu!ExportDevice
<1>6. (\A c \in Cpus, k \in Cpu!Kinds :
        cpuSensors[c][k] # "none" => c \in exported \/ (cpuSensors[c][k] = "polled" /\ k \in hwmon[c]))'
  BY <1>2, <1>5 DEF CpuInv
<1>7. hwmon' \in [Cpus -> SUBSET Cpu!Kinds] /\ client' \subseteq Cpus
  BY <1>2, <1>5 DEF CpuInv
<1> QED BY <1>4, <1>6, <1>7 DEF CpuInv

LEMMA CpuStep == ASSUME CpuInv, Cpu!Next \/ UNCHANGED cpuVars PROVE CpuInv'
<1>1. CASE Cpu!DetectCpu
  <2>1. "ping" \in cpuTimers /\ UNCHANGED <<cpuConfigs, cpuSensors>>
    BY <1>1 DEF Cpu!DetectCpu, Cpu!Expires, Cpu!configs
  <2> QED BY <1>1, <2>1, RescannedStep, PingedStep DEF Cpu!DetectCpu
<1>2. CASE Cpu!CreateSensors
  <2>1. /\ \/ cpuSensors' = Cpu!Created
           \/ cpuSensors' = cpuSensors
        /\ UNCHANGED <<hwmon, client, cpuConfigs, detected, keepPinging, exported>>
        /\ "creation" \in cpuTimers
        /\ "ping" \in cpuTimers' \/ (~keepPinging /\ cpuTimers' = cpuTimers \ {"creation"})
    BY <1>2 DEF Cpu!CreateSensors, Cpu!Expires, Cpu!kernel, Cpu!configs
  <2>2. Cpu!Due' = Cpu!Due
    BY <2>1 DEF Cpu!Due
  <2>3. (Cpu!Due # {} => "ping" \in cpuTimers \/ ("creation" \in cpuTimers /\ keepPinging))'
    BY <2>1, <2>2 DEF CpuInv
  <2>4. CASE cpuSensors' = cpuSensors
    BY <2>1, <2>3, <2>4 DEF CpuInv
  <2>5. CASE cpuSensors' = Cpu!Created
    <3>1. \A c \in Cpus, k \in Cpu!Kinds :
            \/ cpuSensors'[c][k] = cpuSensors[c][k]
            \/ cpuSensors'[c][k] = "polled" /\ k \in hwmon[c]
      BY <2>5 DEF Cpu!Created
    <3>2. cpuSensors' \in [Cpus -> [Cpu!Kinds -> {"none", "polled", "ended"}]]
      BY <2>5 DEF Cpu!Created, CpuInv
    <3> QED BY <2>1, <2>3, <3>1, <3>2 DEF CpuInv
  <2> QED BY <2>1, <2>4, <2>5
<1>3. CASE Cpu!GetCpuConfig
  <2>1. /\ \/ cpuConfigs' = Cpus /\ "ping" \in cpuTimers'
           \/ cpuConfigs' = cpuConfigs /\ cpuTimers' = cpuTimers \ {"filter"}
        /\ UNCHANGED <<hwmon, client, detected, keepPinging, cpuSensors, exported>>
    BY <1>3 DEF Cpu!GetCpuConfig, Cpu!kernel
  <2>2. (Cpu!Due # {} => "ping" \in cpuTimers \/ ("creation" \in cpuTimers /\ keepPinging))'
    BY <2>1 DEF CpuInv, Cpu!Due
  <2> QED BY <2>1, <2>2 DEF CpuInv
<1>4. CASE Cpu!ConfigChanges
  BY <1>4 DEF Cpu!ConfigChanges, Cpu!kernel, Cpu!configs, CpuInv, Cpu!Due
<1>5. CASE Cpu!SetupRead
  <2>1. PICK c \in Cpus, k \in Cpu!Kinds :
          /\ cpuSensors[c][k] = "polled" /\ (k \notin hwmon[c] \/ c \in exported)
          /\ cpuSensors' = [cpuSensors EXCEPT ![c][k] = "ended"]
    BY <1>5 DEF Cpu!SetupRead
  <2>2. UNCHANGED <<hwmon, client, cpuConfigs, detected, keepPinging, cpuTimers, exported>>
    BY <1>5 DEF Cpu!SetupRead, Cpu!kernel, Cpu!configs
  <2>3. c \in exported
    BY <2>1 DEF CpuInv
  <2>4. /\ cpuSensors' \in [Cpus -> [Cpu!Kinds -> {"none", "polled", "ended"}]]
        /\ \A b \in Cpus, j \in Cpu!Kinds : b # c => cpuSensors'[b][j] = cpuSensors[b][j]
    BY <2>1 DEF CpuInv
  <2> QED BY <2>2, <2>3, <2>4 DEF CpuInv, Cpu!Due
<1>6. CASE Cpu!DriverAppears
  <2>1. PICK c \in Cpus, k \in Cpu!Kinds : hwmon' = [hwmon EXCEPT ![c] = hwmon[c] \cup {k}]
    BY <1>6 DEF Cpu!DriverAppears, CpuInv
  <2>2. UNCHANGED <<cpuSensors, client, cpuConfigs, detected, keepPinging, cpuTimers, exported>>
    BY <1>6 DEF Cpu!DriverAppears, Cpu!configs
  <2>3. /\ hwmon' \in [Cpus -> SUBSET Cpu!Kinds]
        /\ \A b \in Cpus : hwmon[b] \subseteq hwmon'[b]
    BY <2>1 DEF CpuInv
  <2> QED BY <2>2, <2>3 DEF CpuInv, Cpu!Due
<1>7. CASE Cpu!HostChanges \/ Cpu!CpuBoots \/ UNCHANGED cpuVars
  <2>1. UNCHANGED <<cpuSensors, hwmon, client, cpuConfigs, detected, keepPinging, cpuTimers, exported>>
    BY <1>7 DEF Cpu!HostChanges, Cpu!CpuBoots, Cpu!kernel, Cpu!configs, cpuVars
  <2> QED BY <2>1 DEF CpuInv, Cpu!Due
<1> QED BY <1>1, <1>2, <1>3, <1>4, <1>5, <1>6, <1>7 DEF Cpu!Next

LEMMA CpuGoesOn == ASSUME CpuInv PROVE Cpu!DetectionGoesOn /\ Cpu!PollsUnlessExported
BY DEF CpuInv, Cpu!DetectionGoesOn, Cpu!PollsUnlessExported

-----------------------------------------------------------------------------
(* A sensor behind IPMB: its calls and waits are one or two.               *)
IpmbInv ==
    /\ ipmbCalls \in Nat /\ waitQueued \in Nat
    /\ \/ waitArmed = TRUE /\ ipmbCalls + waitQueued \in 0..1
       \/ waitArmed = FALSE /\ ipmbCalls + waitQueued \in 1..2

LEMMA IpmbStart == ASSUME Ipmb!Init \/ Ipmb!Start PROVE IpmbInv
<1>1. ipmbCalls = 0 /\ waitQueued = 0 /\ waitArmed = TRUE
  BY DEF Ipmb!Init, Ipmb!Start, Ipmb!StartWith
<1> QED BY <1>1 DEF IpmbInv

LEMMA IpmbStep == ASSUME IpmbInv, Ipmb!Next \/ UNCHANGED ipmbVars PROVE IpmbInv'
<1>1. CASE Ipmb!WaitExpires
  <2>1. waitArmed' = FALSE /\ waitQueued' = waitQueued + 1 /\ ipmbCalls' = ipmbCalls /\ waitArmed
    BY <1>1 DEF Ipmb!WaitExpires
  <2>2. ipmbCalls + waitQueued \in 0..1
    BY <2>1, Zenon DEF IpmbInv
  <2> QED BY <2>1, <2>2 DEF IpmbInv
<1>2. CASE Ipmb!WaitHandler
  <2>1. /\ waitQueued > 0 /\ waitQueued' = waitQueued - 1
        /\ \/ ipmbCalls' = ipmbCalls + 1 /\ waitArmed' = waitArmed
           \/ ipmbCalls' = ipmbCalls /\ waitArmed' = TRUE
    BY <1>2 DEF Ipmb!WaitHandler, Ipmb!SendRequest, Ipmb!Read
  <2>2. CASE ipmbCalls' = ipmbCalls + 1 /\ waitArmed' = waitArmed
    BY <2>1, <2>2 DEF IpmbInv
  <2>3. CASE ipmbCalls' = ipmbCalls /\ waitArmed' = TRUE
    BY <2>1, <2>3 DEF IpmbInv
  <2> QED BY <2>1, <2>2, <2>3
<1>3. CASE Ipmb!Completion
  <2>1. /\ ipmbCalls > 0 /\ ipmbCalls' = ipmbCalls - 1 /\ waitArmed' = TRUE
        /\ waitQueued' = waitQueued
    BY <1>3 DEF Ipmb!Completion, Ipmb!Read
  <2> QED BY <2>1 DEF IpmbInv
<1>4. CASE Ipmb!Recreate
  <2>1. waitQueued' = 0 /\ waitArmed' = TRUE /\ (ipmbCalls' = 0 \/ ipmbCalls' = 1)
    BY <1>4 DEF Ipmb!Recreate
  <2>2. /\ ipmbCalls' \in Nat /\ waitQueued' \in Nat
        /\ ipmbCalls' + waitQueued' \in 0..1
    BY <2>1
  <2> QED BY <2>1, <2>2 DEF IpmbInv
<1>5. CASE UNCHANGED <<ipmbCalls, waitArmed, waitQueued>>
  BY <1>5 DEF IpmbInv
<1> QED BY <1>1, <1>2, <1>3, <1>4, <1>5
        DEF Ipmb!Next, Ipmb!InitExpires, Ipmb!InitHandler, Ipmb!HostChanges, Ipmb!WordChanges,
            ipmbVars

LEMMA IpmbGoesOn == ASSUME IpmbInv PROVE Ipmb!PollingGoesOn
BY DEF IpmbInv, Ipmb!PollingGoesOn

-----------------------------------------------------------------------------
(* Cables: the handler of an inotify event is resumed.                     *)
CableSignals == [kind : {"added", "removed", "objects"}, cables : SUBSET Cables,
                 reader : Cable!Readers \cup {"none"}]
CableInv ==
    /\ inventory \subseteq Cables /\ cableSignals \in Seq(CableSignals)
    /\ Cable!FileIsWatched

LEMMA CableStart == ASSUME Cable!Init \/ Cable!Start PROVE CableInv
<1>1. inventory \subseteq Cables /\ cableSignals = <<>> /\ watching
  BY Zenon DEF Cable!Init, Cable!Start
<1>2. cableSignals \in Seq(CableSignals)
  BY <1>1
<1> QED BY <1>1, <1>2 DEF CableInv, Cable!FileIsWatched

LEMMA SignalAppended ==
  ASSUME CableInv, NEW m \in CableSignals, cableSignals' = Append(cableSignals, m),
         inventory' \subseteq Cables, watching' = watching,
         "notify" \in objectCalls => m.reader = "notify" \/ "notify" \in objectCalls'
  PROVE  CableInv'
<1>1. /\ cableSignals' \in Seq(CableSignals) /\ Len(cableSignals') = Len(cableSignals) + 1
      /\ cableSignals'[Len(cableSignals) + 1] = m
      /\ \A k \in 1..Len(cableSignals) : cableSignals'[k] = cableSignals[k]
      /\ Len(cableSignals) \in Nat
  BY DEF CableInv
<1>2. CASE m.reader = "notify"
  BY <1>1, <1>2 DEF CableInv, Cable!FileIsWatched
<1>3. CASE m.reader # "notify"
  BY <1>1, <1>3 DEF CableInv, Cable!FileIsWatched
<1> QED BY <1>2, <1>3

LEMMA CableStep == ASSUME CableInv, Cable!Next \/ UNCHANGED cableVars PROVE CableInv'
<1>1. ASSUME NEW c \in Cables, Cable!InventoryChanges(c) PROVE CableInv'
  <2>1. PICK m \in CableSignals : cableSignals' = Append(cableSignals, m) /\ m.reader = "none"
    BY <1>1 DEF Cable!InventoryChanges, CableSignals
  <2>2. inventory' \subseteq Cables /\ UNCHANGED <<watching, objectCalls>>
    BY <1>1 DEF Cable!InventoryChanges, CableInv
  <2> QED BY <2>1, <2>2, SignalAppended
<1>2. ASSUME NEW r \in Cable!Readers, Cable!AnswerObjects(r) PROVE CableInv'
  <2>1. PICK m \in CableSignals : cableSignals' = Append(cableSignals, m) /\ m.reader = r
    BY <1>2 DEF Cable!AnswerObjects, CableSignals, CableInv
  <2>2. inventory' \subseteq Cables /\ watching' = watching /\ r \in objectCalls
        /\ objectCalls' = objectCalls \ {r}
    BY <1>2 DEF Cable!AnswerObjects, CableInv
  <2> QED BY <2>1, <2>2, SignalAppended
<1>3. CASE Cable!ReadNotify
  <2>1. /\ UNCHANGED <<inventory, cableSignals>>
        /\ watching' \/ "notify" \in objectCalls'
    BY <1>3 DEF Cable!ReadNotify, Cable!ConfigUpdateHandler
  <2> QED BY <2>1 DEF CableInv, Cable!FileIsWatched
<1>4. CASE Cable!Received
  <2>1. /\ cableSignals # <<>> /\ cableSignals' = Tail(cableSignals)
        /\ watching' = (watching \/ Head(cableSignals).reader = "notify")
        /\ UNCHANGED <<inventory, objectCalls>>
    BY <1>4 DEF Cable!Received
  <2>2. /\ cableSignals' \in Seq(CableSignals) /\ Len(cableSignals') = Len(cableSignals) - 1
        /\ \A k \in 1..Len(cableSignals') : cableSignals'[k] = cableSignals[k + 1]
        /\ Head(cableSignals) = cableSignals[1] /\ Len(cableSignals) \in Nat
    BY <2>1 DEF CableInv
  <2>3. \A k \in 1..Len(cableSignals) : k = 1 \/ (k - 1 \in 1..Len(cableSignals')
                                                  /\ cableSignals'[k - 1] = cableSignals[k])
    BY <2>2
  <2> QED BY <2>1, <2>2, <2>3 DEF CableInv, Cable!FileIsWatched
<1>5. CASE UNCHANGED <<inventory, cableSignals, watching, objectCalls>>
  BY <1>5 DEF CableInv, Cable!FileIsWatched
<1> QED BY <1>1, <1>2, <1>3, <1>4, <1>5
        DEF Cable!Next, Cable!Proceeds, Cable!FileWritten, Cable!ReconcileCableData, Cable!Answered,
            cableVars

-----------------------------------------------------------------------------
(* External values: each that perishes is looked at by its expiry.         *)
ReaperInv ==
    /\ writeAlive \subseteq Reaper!Sensors /\ writeAge \in [Reaper!Sensors -> Nat]
    /\ \A s \in Reaper!Sensors : writeAge[s] <= WriteTimeout[s]
    /\ reaperDue \subseteq Nat /\ reaperQueued \in Nat
    /\ Reaper!ReaperIsSet

LEMMA MinIsLeast ==
  ASSUME NEW S \in SUBSET Nat, S # {}
  PROVE  Reaper!Min(S) \in S /\ \A y \in S : Reaper!Min(S) <= y
<1>1. PICK x \in S : \A y \in S : ~(<<y, x>> \in OpToRel(<, Nat))
  BY NatLessThanWellFounded, WFMin
<1>2. \A y \in S : x <= y
  <2> SUFFICES ASSUME NEW y \in S PROVE x <= y
    OBVIOUS
  <2>1. ~(<<y, x>> \in {ss \in Nat \X Nat : ss[1] < ss[2]})
    BY <1>1 DEF OpToRel
  <2> QED BY <2>1
<1> QED BY <1>2 DEF Reaper!Min

LEMMA TimeoutsAreNumbers == WriteTimeout \in [Reaper!Sensors -> Nat]
BY DaemonsAssumption DEF Reaper!ReaperAssumption, Reaper!Sensors

LEMMA ReaperStart == ASSUME Reaper!Start PROVE ReaperInv
BY TimeoutsAreNumbers DEF Reaper!Start, ReaperInv, Reaper!ReaperIsSet

LEMMA UpdateReaperStep ==
  ASSUME NEW W \in SUBSET Reaper!Sensors, NEW age \in [Reaper!Sensors -> Nat],
         \A s \in Reaper!Sensors : age[s] <= WriteTimeout[s],
         NEW values, Reaper!UpdateReaper(W, age, values),
         reaperDue \subseteq Nat, reapedEarly = {}, writeAge' = age, reaperQueued' \in Nat
  PROVE  ReaperInv'
<1>1. PICK gone, left :
        /\ gone = Reaper!Stale(W, age) /\ left = (W \ gone) \cap Reaper!Perishable
        /\ writeAlive' = W \ gone
        /\ reapedEarly' = {s \in gone : age[s] < WriteTimeout[s]}
        /\ reaperDue' = IF left = {} THEN reaperDue
                        ELSE {Reaper!Min({WriteTimeout[s] - age[s] : s \in left})}
  BY DEF Reaper!UpdateReaper, Reaper!Remaining
<1>2. /\ left \subseteq Reaper!Sensors /\ writeAlive' \subseteq Reaper!Sensors
      /\ left = writeAlive' \cap Reaper!Perishable
  BY <1>1
<1>3. reapedEarly' = {}
  BY <1>1, TimeoutsAreNumbers DEF Reaper!Stale
<1>4. CASE left = {}
  BY <1>1, <1>2, <1>3, <1>4 DEF ReaperInv, Reaper!ReaperIsSet
<1>5. CASE left # {}
  <2>1. PICK S : S = {WriteTimeout[s] - age[s] : s \in left}
    OBVIOUS
  <2>2. S \in SUBSET Nat /\ S # {}
    BY <1>2, <1>5, <2>1, TimeoutsAreNumbers
  <2>3. PICK d \in Nat : reaperDue' = {d} /\ \A y \in S : d <= y
    BY <1>1, <1>5, <2>1, <2>2, MinIsLeast
  <2>4. \A s \in left : d <= WriteTimeout[s] - age[s]
    BY <2>1, <2>3
  <2> QED BY <1>2, <1>3, <2>3, <2>4 DEF ReaperInv, Reaper!ReaperIsSet
<1> QED BY <1>4, <1>5

LEMMA AgeReset ==
  ASSUME ReaperInv, NEW s \in Reaper!Sensors, NEW age, age = [writeAge EXCEPT ![s] = 0]
  PROVE  /\ age \in [Reaper!Sensors -> Nat]
         /\ \A r \in Reaper!Sensors : age[r] <= WriteTimeout[r]
         /\ \A r \in Reaper!Sensors \ {s} : age[r] = writeAge[r]
<1>1. age \in [Reaper!Sensors -> Nat] /\ age[s] = 0
  BY DEF ReaperInv
<1>2. \A r \in Reaper!Sensors \ {s} : age[r] = writeAge[r]
  BY DEF ReaperInv
<1>3. WriteTimeout[s] \in Nat
  BY TimeoutsAreNumbers
<1> QED BY <1>1, <1>2, <1>3 DEF ReaperInv

LEMMA ReaperStep == ASSUME ReaperInv, Reaper!Next \/ UNCHANGED reaperVars PROVE ReaperInv'
<1>1. ASSUME NEW s \in Reaper!Sensors, NEW v \in {"finite", "nan"}, Reaper!Write(s, v)
      PROVE  ReaperInv'
  <2>1. PICK age : age = writeAge'
    OBVIOUS
  <2>2. age = [writeAge EXCEPT ![s] = 0]
    BY <1>1, <2>1 DEF Reaper!Write
  <2>3. /\ age \in [Reaper!Sensors -> Nat]
        /\ \A r \in Reaper!Sensors : age[r] <= WriteTimeout[r]
    BY <2>2, AgeReset
  <2>4. Reaper!UpdateReaper(writeAlive \cup {s}, age, [externalShown EXCEPT ![s] = v])
    BY <1>1, <2>1 DEF Reaper!Write
  <2>5. reaperQueued' \in Nat /\ reaperDue \subseteq Nat /\ reapedEarly = {}
    BY <1>1 DEF Reaper!Write, ReaperInv, Reaper!ReaperIsSet
  <2> QED BY <2>1, <2>3, <2>4, <2>5, UpdateReaperStep DEF ReaperInv
<1>2. ASSUME NEW s \in Reaper!Sensors, Reaper!Replace(s) PROVE ReaperInv'
  <2>1. /\ writeAlive' = writeAlive \ {s} /\ writeAge' = [writeAge EXCEPT ![s] = 0]
        /\ UNCHANGED <<reaperDue, reaperQueued, reapedEarly>>
    BY <1>2 DEF Reaper!Replace
  <2>2. /\ writeAge' \in [Reaper!Sensors -> Nat]
        /\ \A r \in Reaper!Sensors : writeAge'[r] <= WriteTimeout[r]
        /\ \A r \in Reaper!Sensors \ {s} : writeAge'[r] = writeAge[r]
    BY <2>1, AgeReset
  <2> QED BY <2>1, <2>2 DEF ReaperInv, Reaper!ReaperIsSet
<1>3. CASE Reaper!Tick
  <2>1. /\ writeAge' = [s \in Reaper!Sensors |->
                          IF writeAge[s] < WriteTimeout[s] THEN writeAge[s] + 1 ELSE writeAge[s]]
        /\ reaperDue' = {IF d > 0 THEN d - 1 ELSE 0 : d \in reaperDue}
        /\ UNCHANGED <<writeAlive, reaperQueued, reapedEarly>>
    BY <1>3 DEF Reaper!Tick
  <2>2. /\ writeAge' \in [Reaper!Sensors -> Nat]
        /\ \A s \in Reaper!Sensors : writeAge'[s] <= WriteTimeout[s] /\ writeAge'[s] <= writeAge[s] + 1
    BY <2>1, TimeoutsAreNumbers DEF ReaperInv
  <2>3. reaperDue' \subseteq Nat
    <3>1. \A d \in reaperDue : (IF d > 0 THEN d - 1 ELSE 0) \in Nat
      BY DEF ReaperInv
    <3> QED BY <2>1, <3>1
  <2>4. \A s \in writeAlive \cap Reaper!Perishable :
           reaperQueued > 0 \/ \E d \in reaperDue' : d <= WriteTimeout[s] - writeAge'[s]
    <3> SUFFICES ASSUME NEW s \in writeAlive \cap Reaper!Perishable, ~(reaperQueued > 0)
                 PROVE  \E d \in reaperDue' : d <= WriteTimeout[s] - writeAge'[s]
      OBVIOUS
    <3>1. PICK d \in reaperDue : d <= WriteTimeout[s] - writeAge[s]
      BY DEF ReaperInv, Reaper!ReaperIsSet
    <3>2. PICK e \in reaperDue' : e = IF d > 0 THEN d - 1 ELSE 0
      BY <2>1
    <3>3. /\ d \in Nat /\ s \in Reaper!Sensors /\ WriteTimeout[s] \in Nat /\ writeAge[s] \in Nat
          /\ writeAge'[s] \in Nat
      BY <2>2, TimeoutsAreNumbers DEF ReaperInv
    <3>4. e <= WriteTimeout[s] - writeAge'[s]
      BY <2>2, <3>1, <3>2, <3>3
    <3> QED BY <3>2, <3>4
  <2> QED BY <2>1, <2>2, <2>3, <2>4 DEF ReaperInv, Reaper!ReaperIsSet
<1>4. CASE Reaper!ReaperExpires
  <2>1. /\ reaperDue' = {} /\ reaperQueued' = reaperQueued + 1
        /\ UNCHANGED <<writeAlive, writeAge, reapedEarly>>
    BY <1>4 DEF Reaper!ReaperExpires
  <2> QED BY <2>1 DEF ReaperInv, Reaper!ReaperIsSet
<1>5. CASE Reaper!Reap
  <2>1. Reaper!UpdateReaper(writeAlive, writeAge, externalShown) /\ writeAge' = writeAge
    BY <1>5 DEF Reaper!Reap
  <2>2. reaperQueued' \in Nat /\ reaperDue \subseteq Nat /\ reapedEarly = {}
    BY <1>5 DEF Reaper!Reap, ReaperInv, Reaper!ReaperIsSet
  <2> QED BY <2>1, <2>2, UpdateReaperStep DEF ReaperInv
<1>6. CASE UNCHANGED reaperVars
  BY <1>6 DEF ReaperInv, Reaper!ReaperIsSet, reaperVars
<1> QED BY <1>1, <1>2, <1>3, <1>4, <1>5, <1>6 DEF Reaper!Next, Reaper!Proceeds

-----------------------------------------------------------------------------
(* Forwarded ports: all are served, or none.                               *)
ForwardInv ==
    /\ taken \subseteq Forward!Ports /\ enabled \in {TRUE, FALSE} /\ sessionIds \in Nat
    /\ sessions \subseteq [id : Nat, at : {"connecting", "carrying"}, port : Forward!Ports]
    /\ IsFiniteSet(sessions) /\ Cardinality(sessions) <= MaxSessions
    /\ enabled = TRUE => listeners = Forward!Ports /\ taken = {}
    /\ enabled = FALSE => listeners = {}
    /\ \A s \in sessions : enabled = TRUE \/ s.port \in forgotten \/ s.id \in lateSessions

LEMMA SessionsBounded == MaxSessions \in Nat \ {0}
BY DaemonsAssumption DEF Forward!ForwardAssumption

LEMMA OneMore ==
  ASSUME NEW S, NEW x, IsFiniteSet(S)
  PROVE  /\ IsFiniteSet(S \cup {x}) /\ Cardinality(S) \in Nat /\ Cardinality(S \cup {x}) \in Nat
         /\ Cardinality(S \cup {x}) <= Cardinality(S) + 1
<1>1. PICK n \in Nat : Cardinality(S) = n
  BY FS_CardinalityType
<1>2. IsFiniteSet(S \cup {x}) /\ Cardinality(S \cup {x}) \in {n, n + 1}
  BY <1>1, FS_AddElement
<1> QED BY <1>1, <1>2

LEMMA ForwardCounts == \A S : Forward!Cardinality(S) = Cardinality(S)
BY DEF Forward!Cardinality, Cardinality

LEMMA ForwardStart == ASSUME Forward!Start PROVE ForwardInv
<1>1. IsFiniteSet({}) /\ Cardinality({}) = 0
  BY FS_EmptySet
<1>2. enabled = FALSE /\ taken = {} /\ listeners = {} /\ sessions = {} /\ sessionIds = 0
  BY Zenon DEF Forward!Start
<1>3. Cardinality(sessions) <= MaxSessions
  BY <1>1, <1>2, SessionsBounded
<1> QED BY <1>1, <1>2, <1>3 DEF ForwardInv

LEMMA ForwardStep == ASSUME ForwardInv, Forward!Next \/ UNCHANGED forwardVars PROVE ForwardInv'
<1>0. IsFiniteSet({}) /\ Cardinality({}) = 0 /\ 0 <= MaxSessions
  BY FS_EmptySet, SessionsBounded
<1>1. ASSUME NEW r \in BOOLEAN, Forward!SetEnabled(r) PROVE ForwardInv'
  <2>1. UNCHANGED <<taken, sessionIds, lateSessions>>
    BY <1>1 DEF Forward!SetEnabled
  <2>2. CASE /\ listeners' = Forward!Ports /\ enabled' = TRUE /\ UNCHANGED <<forgotten, sessions>>
             /\ \A p \in Forward!Ports : ~Forward!Busy(p)
    <3>1. taken = {}
      BY <2>2 DEF ForwardInv, Forward!Busy
    <3> QED BY <2>1, <2>2, <3>1 DEF ForwardInv
  <2>3. CASE listeners' = {} /\ sessions' = {} /\ enabled' = FALSE
    BY <1>0, <2>1, <2>3 DEF ForwardInv
  <2>4. enabled = FALSE \/ r = FALSE
    BY <1>1 DEF Forward!SetEnabled, ForwardInv
  <2> QED BY <1>1, <2>2, <2>3, <2>4
          DEF Forward!SetEnabled, Forward!StartForwarding, Forward!StopForwarding
<1>2. ASSUME NEW p \in Forward!Ports, Forward!ClientConnects(p) PROVE ForwardInv'
  BY <1>2 DEF Forward!ClientConnects, ForwardInv
<1>3. ASSUME NEW p \in Forward!Ports, Forward!OnAccept(p) PROVE ForwardInv'
  <2>1. UNCHANGED <<enabled, taken, listeners, forgotten>>
    BY <1>3 DEF Forward!OnAccept
  <2>2. CASE UNCHANGED <<sessions, sessionIds, lateSessions>>
    BY <2>1, <2>2 DEF ForwardInv
  <2>3. CASE /\ Cardinality(sessions) < MaxSessions /\ sessionIds' = sessionIds + 1
             /\ \/ sessions' = sessions \cup {[id |-> sessionIds + 1, at |-> "connecting", port |-> p]}
                \/ UNCHANGED sessions
             /\ lateSessions' = IF p \in listeners \cup forgotten THEN lateSessions
                                ELSE lateSessions \cup {sessionIds + 1}
    <3>0. sessionIds + 1 \in Nat
      BY DEF ForwardInv
    <3>1. PICK s \in [id : Nat, at : {"connecting", "carrying"}, port : Forward!Ports] :
            s = [id |-> sessionIds + 1, at |-> "connecting", port |-> p]
      BY <3>0
    <3>2. /\ IsFiniteSet(sessions \cup {s}) /\ Cardinality(sessions) \in Nat
          /\ Cardinality(sessions \cup {s}) <= Cardinality(sessions) + 1
      BY OneMore DEF ForwardInv
    <3>3. sessions' = sessions \cup {s} \/ sessions' = sessions
      BY <2>3, <3>1
    <3>4. IsFiniteSet(sessions') /\ Cardinality(sessions') <= MaxSessions
      <4>1. PICK n \in Nat, m \in Nat : n = Cardinality(sessions) /\ m = Cardinality(sessions \cup {s})
        BY <3>2, OneMore DEF ForwardInv
      <4>2. m <= n + 1 /\ n < MaxSessions
        BY <2>3, <3>2, <4>1
      <4>3. m <= MaxSessions /\ n <= MaxSessions
        BY <4>2, SessionsBounded
      <4> QED BY <3>2, <3>3, <4>1, <4>3, Zenon DEF ForwardInv
    <3>5. lateSessions \subseteq lateSessions'
      BY <2>3
    <3>6. enabled = TRUE \/ s.port \in forgotten \/ s.id \in lateSessions'
      BY <2>3, <3>1 DEF ForwardInv
    <3>7. \A t \in sessions' : enabled' = TRUE \/ t.port \in forgotten' \/ t.id \in lateSessions'
      BY <2>1, <3>3, <3>5, <3>6 DEF ForwardInv
    <3>8. /\ sessions' \subseteq [id : Nat, at : {"connecting", "carrying"}, port : Forward!Ports]
          /\ sessionIds' \in Nat
      BY <2>3, <3>0, <3>3 DEF ForwardInv
    <3> QED BY <2>1, <3>4, <3>7, <3>8, Zenon DEF ForwardInv
  <2> QED BY <1>3, <2>2, <2>3, ForwardCounts DEF Forward!OnAccept, Forward!CanAcceptNewSession
<1>4. ASSUME NEW p \in Forward!Ports, Forward!PortTaken(p) PROVE ForwardInv'
  <2>1. /\ p \notin listeners /\ taken' \subseteq taken \cup {p}
        /\ UNCHANGED <<enabled, listeners, forgotten, sessions, sessionIds, lateSessions>>
    BY <1>4 DEF Forward!PortTaken
  <2> QED BY <2>1 DEF ForwardInv
<1>5. ASSUME NEW s \in sessions, Forward!RemoteConnected(s) PROVE ForwardInv'
  <2>1. PICK t : t = [s EXCEPT !.at = "carrying"]
    OBVIOUS
  <2>2. /\ t \in [id : Nat, at : {"connecting", "carrying"}, port : Forward!Ports]
        /\ t.id = s.id /\ t.port = s.port
    BY <2>1 DEF ForwardInv
  <2>3. /\ sessions' = (sessions \ {s}) \cup {t}
        /\ UNCHANGED <<enabled, taken, listeners, forgotten, sessionIds, lateSessions>>
    BY <1>5, <2>1 DEF Forward!RemoteConnected
  <2>4. /\ IsFiniteSet(sessions \ {s}) /\ Cardinality(sessions \ {s}) = Cardinality(sessions) - 1
        /\ Cardinality(sessions) \in Nat
    BY FS_RemoveElement, FS_CardinalityType DEF ForwardInv
  <2>5. IsFiniteSet(sessions') /\ Cardinality(sessions') <= Cardinality(sessions)
    <3>1. PICK rest : rest = sessions \ {s}
      OBVIOUS
    <3>2. IsFiniteSet(rest) /\ Cardinality(rest) \in Nat
      BY <2>4, <3>1, FS_CardinalityType
    <3>3. Cardinality(rest \cup {t}) <= Cardinality(rest) + 1 /\ IsFiniteSet(rest \cup {t})
      BY <3>2, OneMore
    <3>4. Cardinality(rest \cup {t}) \in Nat
      BY <3>2, OneMore
    <3> QED BY <2>3, <2>4, <3>1, <3>2, <3>3, <3>4
  <2>6. Cardinality(sessions') <= MaxSessions
    BY <2>4, <2>5, SessionsBounded, FS_CardinalityType DEF ForwardInv
  <2>7. sessions' \subseteq [id : Nat, at : {"connecting", "carrying"}, port : Forward!Ports]
    BY <2>2, <2>3 DEF ForwardInv
  <2>8. \A r \in sessions' : enabled' = TRUE \/ r.port \in forgotten' \/ r.id \in lateSessions'
    BY <2>2, <2>3 DEF ForwardInv
  <2> QED BY <2>3, <2>5, <2>6, <2>7, <2>8, Zenon DEF ForwardInv
<1>6. ASSUME NEW s \in sessions, Forward!SessionEnds(s) PROVE ForwardInv'
  <2>1. /\ sessions' = sessions \ {s}
        /\ UNCHANGED <<enabled, taken, listeners, forgotten, sessionIds, lateSessions>>
    BY <1>6 DEF Forward!SessionEnds
  <2>2. /\ IsFiniteSet(sessions') /\ Cardinality(sessions') = Cardinality(sessions) - 1
        /\ Cardinality(sessions) \in Nat
    BY <2>1, FS_RemoveElement, FS_CardinalityType DEF ForwardInv
  <2>3. Cardinality(sessions') <= MaxSessions
    BY <2>2, SessionsBounded DEF ForwardInv
  <2> QED BY <2>1, <2>2, <2>3 DEF ForwardInv
<1>7. CASE UNCHANGED forwardVars
  BY <1>7 DEF ForwardInv, forwardVars
<1> QED BY <1>1, <1>2, <1>3, <1>4, <1>5, <1>6, <1>7 DEF Forward!Next

LEMMA ForwardGoesOn == ASSUME ForwardInv PROVE Forward!EnabledIsServed
BY ForwardCounts DEF ForwardInv, Forward!EnabledIsServed

-----------------------------------------------------------------------------
(* Fans: a line a fan has is waited on; one that has a line of its own is  *)
(* waited on once, and its handler finds the edge it was queued for.       *)
Awaited(p) ==
    /\ pinEdges[p] \in Nat /\ presenceWaits[p] \in Nat /\ presenceReads[p] \in Nat
    /\ Fan!Sharing(p) # {} => presenceWaits[p] + presenceReads[p] > 0 \/ p \in blockedOn
    /\ \A f \in FanNames : Fan!Sharing(p) = {f} =>
         /\ p \notin blockedOn /\ presenceWaits[p] + presenceReads[p] = 1
         /\ presenceReads[p] = 1 => pinEdges[p] > 0
    /\ Fan!Sharing(p) = {} =>
         p \notin blockedOn /\ presenceWaits[p] = 0 /\ presenceReads[p] = 0
FanInv ==
    /\ pinOf \in [FanNames -> Fan!Pins]
    /\ pinEdges \in [Fan!Pins -> Nat] /\ presenceWaits \in [Fan!Pins -> Nat]
    /\ presenceReads \in [Fan!Pins -> Nat]
    /\ blockedOn \subseteq Fan!Pins /\ \A p \in blockedOn : blockedOn = {p}
    /\ fanRedundancy \in {"none",
                          Fan!StatusOf(Fan!Cardinality({f \in FanNames : fanStatuses[f]}))}
    /\ \A p \in Fan!Pins : Awaited(p)

LEMMA FanCounts == \A S : Fan!Cardinality(S) = Cardinality(S)
BY DEF Fan!Cardinality, Cardinality

LEMMA FewFans ==
  ASSUME NEW S, S \subseteq FanNames
  PROVE  /\ Cardinality(S) \in Nat
         /\ S = {} => Cardinality(S) = 0
         /\ S # {} => Cardinality(S) > 0
         /\ \A f \in FanNames : S = {f} => Cardinality(S) = 1
         /\ S # {} /\ (\A f \in FanNames : S # {f}) => Cardinality(S) > 1
<1>1. IsFiniteSet(S)
  <2>1. IsFiniteSet(FanNames)
    BY DaemonsAssumption DEF Fan!FansAssumption, Fan!IsFiniteSet, IsFiniteSet
  <2> QED BY <2>1, FS_Subset
<1>2. PICK n \in Nat : n = Cardinality(S)
  BY <1>1, FS_CardinalityType
<1>3. n = 0 <=> S = {}
  BY <1>1, <1>2, FS_EmptySet
<1>4. n = 1 <=> \E x : S = {x}
  BY <1>1, <1>2, FS_Singleton
<1>5. \A f \in FanNames : S = {f} => n = 1
  BY <1>4
<1>6. n = 1 => \E f \in FanNames : S = {f}
  BY <1>4
<1> QED BY <1>2, <1>3, <1>5, <1>6

LEMMA FanStarts ==
  ASSUME NEW wiring \in [FanNames -> Fan!Pins], Fan!StartWith(wiring) PROVE FanInv
<1>1. /\ pinOf = wiring /\ pinEdges = [p \in Fan!Pins |-> 0]
      /\ presenceReads = [p \in Fan!Pins |-> 0] /\ blockedOn = {} /\ fanRedundancy = "none"
  BY DEF Fan!StartWith
<1>2. presenceWaits = [p \in Fan!Pins |-> Cardinality(Fan!Sharing(p))]
  BY FanCounts DEF Fan!StartWith, Fan!Sharing
<1>3. ASSUME NEW p \in Fan!Pins PROVE Awaited(p)
  <2>1. PICK S : S = Fan!Sharing(p)
    OBVIOUS
  <2>2. S \subseteq FanNames
    BY <2>1 DEF Fan!Sharing
  <2>3. PICK n : n = Cardinality(S)
    OBVIOUS
  <2>4. /\ n \in Nat /\ (S = {} => n = 0) /\ (S # {} => n > 0)
        /\ \A f \in FanNames : S = {f} => n = 1
    BY <2>2, <2>3, FewFans, Zenon
  <2>5. pinEdges[p] = 0 /\ presenceReads[p] = 0 /\ presenceWaits[p] = n
    BY <1>1, <1>2, <2>1, <2>3
  <2> QED BY <1>1, <2>1, <2>4, <2>5 DEF Awaited
<1>4. presenceWaits \in [Fan!Pins -> Nat]
  BY <1>2, <1>3 DEF Awaited
<1> QED BY <1>1, <1>3, <1>4 DEF FanInv

LEMMA FanStart == ASSUME Fan!Init \/ Fan!Start PROVE FanInv
<1>1. [f \in FanNames |-> "pin1"] \in [FanNames -> Fan!Pins]
  BY DEF Fan!Pins
<1> QED BY <1>1, FanStarts DEF Fan!Init, Fan!Start

LEMMA LinesStandStill ==
  ASSUME FanInv, UNCHANGED <<pinOf, pinEdges, presenceWaits, presenceReads, blockedOn>>,
         \/ UNCHANGED <<fanRedundancy, fanStatuses>>
         \/ fanRedundancy' \in {"none",
              Fan!StatusOf(Fan!Cardinality({f \in FanNames : fanStatuses'[f]}))}
  PROVE  FanInv'
<1>1. ASSUME NEW p \in Fan!Pins PROVE Awaited(p)'
  <2>1. Awaited(p)
    BY DEF FanInv
  <2> QED BY <2>1 DEF Awaited, Fan!Sharing
<1>2. (fanRedundancy \in {"none",
          Fan!StatusOf(Fan!Cardinality({f \in FanNames : fanStatuses[f]}))})'
  BY Zenon DEF FanInv, Fan!StatusOf
<1> QED BY <1>1, <1>2 DEF FanInv

LineChanges(p, e, w, r) ==
    /\ UNCHANGED pinOf /\ UNCHANGED fanRedundancy /\ UNCHANGED fanStatuses
    /\ pinEdges' = [pinEdges EXCEPT ![p] = e]
    /\ presenceWaits' = [presenceWaits EXCEPT ![p] = w]
    /\ presenceReads' = [presenceReads EXCEPT ![p] = r]
    /\ \/ blockedOn' = blockedOn
       \/ blockedOn \subseteq {p} /\ blockedOn' \in {{p}, {}}
    /\ Fan!Sharing(p) # {} => w + r > 0 \/ p \in blockedOn'
    /\ \A f \in FanNames : Fan!Sharing(p) = {f} =>
         p \notin blockedOn' /\ w + r = 1 /\ (r = 1 => e > 0)
    /\ Fan!Sharing(p) = {} => p \notin blockedOn' /\ w = 0 /\ r = 0

LEMMA OneLineChanges ==
  ASSUME FanInv, NEW p \in Fan!Pins, NEW e \in Nat, NEW w \in Nat, NEW r \in Nat,
         LineChanges(p, e, w, r)
  PROVE  FanInv'
<1>1. /\ pinEdges' \in [Fan!Pins -> Nat] /\ presenceWaits' \in [Fan!Pins -> Nat]
      /\ presenceReads' \in [Fan!Pins -> Nat]
      /\ pinEdges'[p] = e /\ presenceWaits'[p] = w /\ presenceReads'[p] = r
      /\ \A q \in Fan!Pins \ {p} : /\ pinEdges'[q] = pinEdges[q]
                                   /\ presenceWaits'[q] = presenceWaits[q]
                                   /\ presenceReads'[q] = presenceReads[q]
                                   /\ q \in blockedOn' <=> q \in blockedOn
  BY DEF LineChanges, FanInv
<1>2. \A q : Fan!Sharing(q)' = Fan!Sharing(q)
  BY DEF LineChanges, Fan!Sharing
<1>3. ASSUME NEW q \in Fan!Pins PROVE Awaited(q)'
  <2>1. CASE q = p
    BY <1>1, <1>2, <2>1 DEF LineChanges, Awaited
  <2>2. CASE q # p
    <3>1. Awaited(q)
      BY DEF LineChanges, FanInv
    <3> QED BY <1>1, <1>2, <2>2, <3>1 DEF LineChanges, Awaited
  <2> QED BY <2>1, <2>2
<1>4. (fanRedundancy \in {"none",
          Fan!StatusOf(Fan!Cardinality({f \in FanNames : fanStatuses[f]}))})'
  BY DEF LineChanges, FanInv, Fan!StatusOf
<1>5. (blockedOn \subseteq Fan!Pins /\ \A q \in blockedOn : blockedOn = {q})'
  BY DEF LineChanges, FanInv
<1> QED BY <1>1, <1>3, <1>4, <1>5 DEF LineChanges, FanInv

LEMMA FanStep == ASSUME FanInv, Fan!Next \/ UNCHANGED fansVars PROVE FanInv'
<1>1. CASE Fan!RedundancyAnswered
  <2>1. fanRedundancy' = "Full" /\ fanStatuses' = [f \in FanNames |-> FALSE]
    BY <1>1 DEF Fan!RedundancyAnswered
  <2>2. {f \in FanNames : fanStatuses'[f]} = {}
    BY <2>1
  <2>3. Fan!StatusOf(Fan!Cardinality({})) = "Full"
    BY FewFans, FanCounts DEF Fan!StatusOf
  <2>4. UNCHANGED <<pinOf, pinEdges, presenceWaits, presenceReads, blockedOn>>
    BY <1>1 DEF Fan!RedundancyAnswered, Fan!lineVars
  <2> QED BY <2>1, <2>2, <2>3, <2>4, LinesStandStill
<1>2. ASSUME NEW f \in FanNames, Fan!HandleResponse(f) PROVE FanInv'
  <2>1. UNCHANGED <<pinOf, pinEdges, presenceWaits, presenceReads, blockedOn>>
    BY <1>2 DEF Fan!HandleResponse, Fan!lineVars
  <2>2. \/ UNCHANGED <<fanRedundancy, fanStatuses>>
        \/ fanRedundancy' = Fan!StatusOf(Fan!Cardinality({g \in FanNames : fanStatuses'[g]}))
    BY <1>2, Zenon DEF Fan!HandleResponse, Fan!CheckThresholds, Fan!UpdateRedundancy
  <2> QED BY <2>1, <2>2, LinesStandStill
<1>3. ASSUME NEW f \in FanNames, NEW now, Fan!RpmChanges(f, now) PROVE FanInv'
  BY <1>3, LinesStandStill DEF Fan!RpmChanges, Fan!lineVars
<1>4. CASE UNCHANGED fansVars
  BY <1>4, LinesStandStill DEF fansVars
<1>5. ASSUME NEW f \in FanNames, Fan!ReplaceFan(f) PROVE FanInv'
  <2>1. PICK p \in Fan!Pins : p = pinOf[f]
    BY DEF FanInv
  <2>2. f \in Fan!Sharing(p) /\ Awaited(p)
    BY <2>1 DEF FanInv, Fan!Sharing
  <2>3. blockedOn = {} /\ UNCHANGED <<pinOf, fanRedundancy, fanStatuses, blockedOn>>
    BY <1>5 DEF Fan!ReplaceFan, Fan!Runs
  <2>4. CASE Fan!Sharing(p) = {f}
    <3>1. /\ pinEdges' = [pinEdges EXCEPT ![p] = 0] /\ presenceWaits' = [presenceWaits EXCEPT ![p] = 1]
          /\ presenceReads' = [presenceReads EXCEPT ![p] = 0]
      BY <1>5, <2>1, <2>4 DEF Fan!ReplaceFan
    <3>2. PICK w \in Nat, r \in Nat, e \in Nat : w = 1 /\ r = 0 /\ e = 0
      OBVIOUS
    <3>3. w + r > 0 /\ w + r = 1 /\ r # 1
      BY <3>2
    <3>4. /\ pinEdges' = [pinEdges EXCEPT ![p] = e] /\ presenceWaits' = [presenceWaits EXCEPT ![p] = w]
          /\ presenceReads' = [presenceReads EXCEPT ![p] = r]
      BY <3>1, <3>2
    <3>5. blockedOn' = blockedOn /\ p \notin blockedOn' /\ Fan!Sharing(p) # {}
      BY <2>2, <2>3
    <3>6. Fan!Sharing(p) # {} => w + r > 0 \/ p \in blockedOn'
      BY <3>3
    <3>7. \A g \in FanNames : Fan!Sharing(p) = {g} =>
            p \notin blockedOn' /\ w + r = 1 /\ (r = 1 => e > 0)
      BY <3>3, <3>5
    <3>8. Fan!Sharing(p) = {} => p \notin blockedOn' /\ w = 0 /\ r = 0
      BY <3>5
    <3>9. LineChanges(p, e, w, r)
      BY <2>3, <3>4, <3>5, <3>6, <3>7, <3>8 DEF LineChanges
    <3> QED BY <3>9, OneLineChanges
  <2>5. CASE Fan!Sharing(p) # {f}
    <3>1. PICK w \in Nat, e \in Nat, r \in Nat :
            w = presenceWaits[p] + 1 /\ e = pinEdges[p] /\ r = presenceReads[p]
      BY <2>2 DEF Awaited
    <3>2. /\ pinEdges' = [pinEdges EXCEPT ![p] = e] /\ presenceWaits' = [presenceWaits EXCEPT ![p] = w]
          /\ presenceReads' = [presenceReads EXCEPT ![p] = r]
      BY <1>5, <2>1, <2>5, <3>1 DEF Fan!ReplaceFan, FanInv
    <3>3. \A g \in FanNames : Fan!Sharing(p) # {g}
      BY <2>2, <2>5
    <3>4. w + r > 0
      BY <2>2, <3>1 DEF Awaited
    <3>9. LineChanges(p, e, w, r)
      BY <2>2, <2>3, <3>2, <3>3, <3>4 DEF LineChanges
    <3> QED BY <3>9, OneLineChanges
  <2> QED BY <2>4, <2>5
<1>6. ASSUME NEW p \in Fan!Pins, Fan!LineIsReadable(p) PROVE FanInv'
  <2>1. Awaited(p)
    BY DEF FanInv
  <2>2. PICK w \in Nat, e \in Nat, r \in Nat :
          w = presenceWaits[p] /\ e = pinEdges[p] /\ r = presenceReads[p] + presenceWaits[p]
    BY <2>1 DEF Awaited
  <2>3. /\ e > 0 /\ w > 0 /\ r >= w /\ UNCHANGED <<pinOf, fanRedundancy, fanStatuses, blockedOn>>
        /\ pinEdges' = [pinEdges EXCEPT ![p] = e] /\ presenceWaits' = [presenceWaits EXCEPT ![p] = 0]
        /\ presenceReads' = [presenceReads EXCEPT ![p] = r]
    BY <1>6, <2>1, <2>2 DEF Fan!LineIsReadable, FanInv, Awaited
  <2>4. Fan!Sharing(p) # {} => 0 + r > 0
    BY <2>3
  <2>5. \A f \in FanNames : Fan!Sharing(p) = {f} => p \notin blockedOn /\ 0 + r = 1
    BY <2>1, <2>2 DEF Awaited
  <2>6. Fan!Sharing(p) # {}
    BY <2>1, <2>2, <2>3 DEF Awaited
  <2>9. LineChanges(p, e, 0, r)
    BY <2>3, <2>4, <2>5, <2>6 DEF LineChanges
  <2> QED BY <2>9, OneLineChanges
<1>7. ASSUME NEW p \in Fan!Pins, Fan!ReadPresence(p) PROVE FanInv'
  <2>1. Awaited(p) /\ presenceReads[p] > 0
    BY <1>7 DEF FanInv, Fan!ReadPresence
  <2>2. PICK w \in Nat, e \in Nat, r \in Nat :
          w = presenceWaits[p] /\ e = pinEdges[p] /\ r = presenceReads[p] - 1
    BY <2>1 DEF Awaited
  <2>3. /\ blockedOn = {} /\ UNCHANGED <<pinOf, fanRedundancy, fanStatuses>>
        /\ presenceReads' = [presenceReads EXCEPT ![p] = r]
    BY <1>7, <2>2 DEF Fan!ReadPresence, Fan!Runs
  <2>4. Fan!Sharing(p) # {}
    BY <2>1 DEF Awaited
  <2>5. CASE e > 0
    <3>1. PICK e1 \in Nat, w1 \in Nat : e1 = e - 1 /\ w1 = w + 1
      BY <2>5
    <3>2. /\ pinEdges' = [pinEdges EXCEPT ![p] = e1] /\ presenceWaits' = [presenceWaits EXCEPT ![p] = w1]
          /\ blockedOn' = blockedOn
      BY <1>7, <2>2, <2>5, <3>1 DEF Fan!ReadPresence, Fan!ReadEdge
    <3>3. w1 + r > 0 /\ \A f \in FanNames : Fan!Sharing(p) = {f} => w1 + r = 1 /\ r # 1
      BY <2>1, <2>2, <3>1 DEF Awaited
    <3>4. p \notin blockedOn'
      BY <2>3, <3>2
    <3>5. Fan!Sharing(p) # {} => w1 + r > 0 \/ p \in blockedOn'
      BY <3>3
    <3>6. \A g \in FanNames : Fan!Sharing(p) = {g} =>
            p \notin blockedOn' /\ w1 + r = 1 /\ (r = 1 => e1 > 0)
      BY <3>3, <3>4
    <3>7. Fan!Sharing(p) = {} => p \notin blockedOn' /\ w1 = 0 /\ r = 0
      BY <2>4
    <3>9. LineChanges(p, e1, w1, r)
      BY <2>3, <3>2, <3>5, <3>6, <3>7 DEF LineChanges
    <3> QED BY <3>9, OneLineChanges
  <2>6. CASE ~(e > 0)
    <3>1. /\ pinEdges' = [pinEdges EXCEPT ![p] = e] /\ presenceWaits' = [presenceWaits EXCEPT ![p] = w]
          /\ blockedOn' = {p}
      BY <1>7, <2>2, <2>6 DEF Fan!ReadPresence, FanInv
    <3>2. \A f \in FanNames : Fan!Sharing(p) # {f}
      BY <2>1, <2>2, <2>6 DEF Awaited
    <3>9. LineChanges(p, e, w, r)
      BY <2>3, <2>4, <3>1, <3>2 DEF LineChanges
    <3> QED BY <3>9, OneLineChanges
  <2> QED BY <2>5, <2>6
<1>8. ASSUME NEW p \in Fan!Pins, Fan!Unblocked(p) PROVE FanInv'
  <2>1. Awaited(p) /\ blockedOn = {p} /\ pinEdges[p] > 0
    BY <1>8 DEF FanInv, Fan!Unblocked
  <2>2. PICK w \in Nat, e \in Nat, r \in Nat :
          w = presenceWaits[p] + 1 /\ e = pinEdges[p] - 1 /\ r = presenceReads[p]
    BY <2>1 DEF Awaited
  <2>3. /\ UNCHANGED <<pinOf, fanRedundancy, fanStatuses>> /\ blockedOn' = {}
        /\ pinEdges' = [pinEdges EXCEPT ![p] = e] /\ presenceWaits' = [presenceWaits EXCEPT ![p] = w]
        /\ presenceReads' = [presenceReads EXCEPT ![p] = r]
    BY <1>8, <2>2 DEF Fan!Unblocked, Fan!ReadEdge, FanInv
  <2>4. Fan!Sharing(p) # {} /\ \A f \in FanNames : Fan!Sharing(p) # {f}
    BY <2>1 DEF Awaited
  <2>5. w + r > 0
    BY <2>1, <2>2 DEF Awaited
  <2>9. LineChanges(p, e, w, r)
    BY <2>1, <2>3, <2>4, <2>5 DEF LineChanges
  <2> QED BY <2>9, OneLineChanges
<1>9. ASSUME NEW p \in Fan!Pins, Fan!FanMoves(p) PROVE FanInv'
  <2>1. Awaited(p) /\ Fan!Sharing(p) # {}
    BY <1>9 DEF FanInv, Fan!FanMoves
  <2>2. PICK w \in Nat, e \in Nat, r \in Nat :
          w = presenceWaits[p] /\ e = pinEdges[p] + 1 /\ r = presenceReads[p]
    BY <2>1 DEF Awaited
  <2>3. /\ UNCHANGED <<pinOf, fanRedundancy, fanStatuses, blockedOn>>
        /\ pinEdges' = [pinEdges EXCEPT ![p] = e] /\ presenceWaits' = [presenceWaits EXCEPT ![p] = w]
        /\ presenceReads' = [presenceReads EXCEPT ![p] = r]
    BY <1>9, <2>2 DEF Fan!FanMoves, FanInv
  <2>4. e > 0
    BY <2>1, <2>2 DEF Awaited
  <2>5. w + r > 0 \/ p \in blockedOn'
    BY <2>1, <2>2, <2>3 DEF Awaited
  <2>6. \A f \in FanNames : Fan!Sharing(p) = {f} => p \notin blockedOn' /\ w + r = 1
    BY <2>1, <2>2, <2>3 DEF Awaited
  <2>9. LineChanges(p, e, w, r)
    BY <2>1, <2>3, <2>4, <2>5, <2>6 DEF LineChanges
  <2> QED BY <2>9, OneLineChanges
<1> QED
  <2>1. CASE Fan!Proceeds
    BY <1>1, <1>6, <1>7, <1>8, <2>1 DEF Fan!Proceeds
  <2>2. CASE ~Fan!Proceeds /\ Fan!Next
    BY <1>2, <1>3, <1>5, <1>9, <2>2 DEF Fan!Next
  <2> QED BY <1>4, <2>1, <2>2

LEMMA FansGoOn == ASSUME FanInv PROVE Fan!EdgesAreAwaited
<1>1. ASSUME NEW p \in blockedOn PROVE Fan!Cardinality(Fan!Sharing(p)) > 1
  <2>1. Awaited(p)
    BY DEF FanInv
  <2>2. /\ Fan!Sharing(p) \subseteq FanNames /\ Fan!Sharing(p) # {}
        /\ \A f \in FanNames : Fan!Sharing(p) # {f}
    BY <2>1 DEF Awaited, Fan!Sharing
  <2> QED BY <2>2, FewFans, FanCounts
<1>2. \A p \in Fan!Pins : Fan!Sharing(p) # {} => presenceWaits[p] + presenceReads[p] > 0 \/ p \in blockedOn
  BY DEF FanInv, Awaited
<1> QED BY <1>1, <1>2 DEF FanInv, Fan!EdgesAreAwaited

LEMMA ServiceSteps ==
  ASSUME [DaemonsNext]_daemonsVars
  PROVE  /\ Cpu!Next \/ UNCHANGED cpuVars
         /\ Ipmb!Next \/ UNCHANGED ipmbVars
         /\ Cable!Next \/ UNCHANGED cableVars
         /\ Reaper!Next \/ UNCHANGED reaperVars
         /\ Forward!Next \/ UNCHANGED forwardVars
         /\ Fan!Next \/ UNCHANGED fansVars
<1>1. CASE UNCHANGED daemonsVars
  BY <1>1 DEF daemonsVars
<1>2. CASE DaemonsNext
  <2>1. Cpu!Next \/ UNCHANGED cpuVars
    BY <1>2, Zenon DEF DaemonsNext, Only
  <2>2. Ipmb!Next \/ UNCHANGED ipmbVars
    BY <1>2, Zenon DEF DaemonsNext, Only
  <2>3. Cable!Next \/ UNCHANGED cableVars
    BY <1>2, Zenon DEF DaemonsNext, Only
  <2>4. Reaper!Next \/ UNCHANGED reaperVars
    BY <1>2, Zenon DEF DaemonsNext, Only
  <2>5. Forward!Next \/ UNCHANGED forwardVars
    BY <1>2, Zenon DEF DaemonsNext, Only
  <2>6. Fan!Next \/ UNCHANGED fansVars
    BY <1>2, Zenon DEF DaemonsNext, Only
  <2> QED BY <2>1, <2>2, <2>3, <2>4, <2>5, <2>6
<1> QED BY <1>1, <1>2

(* CpuDetect, IpmbPoll, CableMonitor, ExternalReaper, PortForward, Fans:   *)
(* in every state what a daemon has to do next is arranged for, however    *)
(* many processors, devices, cables, values, ports and fans there are.     *)
ServicesInv == CpuInv /\ IpmbInv /\ CableInv /\ ReaperInv /\ ForwardInv /\ FanInv

THEOREM ServicesGoOn == DaemonsSpec => []ServiceGoesOn
<1>1. DaemonsInit => ServicesInv
  <2> SUFFICES ASSUME DaemonsInit PROVE ServicesInv
    OBVIOUS
  <2>1. (Cpu!Init \/ Cpu!Start) /\ (Ipmb!Init \/ Ipmb!Start)
    BY DEF DaemonsInit
  <2>2. (Cable!Init \/ Cable!Start) /\ (Fan!Init \/ Fan!Start)
    BY DEF DaemonsInit
  <2>3. Reaper!Start /\ Forward!Start
    BY DEF DaemonsInit
  <2> QED BY <2>1, <2>2, <2>3, CpuStart, IpmbStart, CableStart, ReaperStart, ForwardStart, FanStart
          DEF ServicesInv
<1>2. ServicesInv /\ [DaemonsNext]_daemonsVars => ServicesInv'
  BY ServiceSteps, CpuStep, IpmbStep, CableStep, ReaperStep, ForwardStep, FanStep DEF ServicesInv
<1>3. ServicesInv => ServiceGoesOn
  <2> SUFFICES ASSUME ServicesInv PROVE ServiceGoesOn
    OBVIOUS
  <2>1. /\ Cpu!DetectionGoesOn /\ Cpu!PollsUnlessExported /\ Ipmb!PollingGoesOn
        /\ Forward!EnabledIsServed /\ Fan!EdgesAreAwaited
    BY CpuGoesOn, IpmbGoesOn, ForwardGoesOn, FansGoOn DEF ServicesInv
  <2>2. Cable!FileIsWatched /\ Reaper!ReaperIsSet
    BY DEF ServicesInv, CableInv, ReaperInv
  <2> QED BY <2>1, <2>2, Zenon DEF ServiceGoesOn
<1> QED BY <1>1, <1>2, <1>3, PTL DEF DaemonsSpec

-----------------------------------------------------------------------------
(* Queues *)
Has(q, x) == \E i \in DOMAIN q : q[i] = x

LEMMA QueueGrows ==
  ASSUME NEW S, NEW q \in Seq(S), NEW x \in S
  PROVE  /\ Append(q, x) \in Seq(S) /\ Append(q, x) # <<>>
         /\ Len(Append(q, x)) = Len(q) + 1 /\ Append(q, x)[Len(q) + 1] = x
         /\ \A i \in 1 .. Len(q) : Append(q, x)[i] = q[i]
OBVIOUS

LEMMA QueueShrinks ==
  ASSUME NEW S, NEW q \in Seq(S), q # <<>>
  PROVE  /\ Tail(q) \in Seq(S) /\ Len(Tail(q)) = Len(q) - 1 /\ Len(q) >= 1
         /\ Head(q) = q[1] /\ Head(q) \in S
         /\ \A i \in 1 .. Len(q) - 1 : Tail(q)[i] = q[i + 1]
OBVIOUS

LEMMA HasAppended ==
  ASSUME NEW S, NEW q \in Seq(S), NEW x \in S, NEW y
  PROVE  Has(Append(q, x), y) <=> Has(q, y) \/ y = x
<1>1. PICK r : r = Append(q, x)
  OBVIOUS
<1>2. /\ r \in Seq(S) /\ Len(r) = Len(q) + 1 /\ r[Len(q) + 1] = x
      /\ \A i \in 1 .. Len(q) : r[i] = q[i]
  BY <1>1, QueueGrows
<1>3. DOMAIN q = 1 .. Len(q) /\ DOMAIN r = 1 .. Len(q) + 1 /\ Len(q) \in Nat
  BY <1>2
<1>4. Has(r, y) <=> Has(q, y) \/ y = x
  BY <1>2, <1>3 DEF Has
<1> QED BY <1>1, <1>4

LEMMA HasTail ==
  ASSUME NEW S, NEW q \in Seq(S), q # <<>>, NEW y
  PROVE  /\ Has(Tail(q), y) => Has(q, y)
         /\ Has(q, y) => Has(Tail(q), y) \/ Head(q) = y
         /\ Head(q) = y => Has(q, y)
<1>1. PICK r : r = Tail(q)
  OBVIOUS
<1>2. /\ r \in Seq(S) /\ Len(r) = Len(q) - 1 /\ Len(q) >= 1 /\ Head(q) = q[1]
      /\ \A i \in 1 .. Len(q) - 1 : r[i] = q[i + 1]
  BY <1>1, QueueShrinks
<1>3. DOMAIN q = 1 .. Len(q) /\ DOMAIN r = 1 .. Len(q) - 1 /\ Len(q) \in Nat
  BY <1>2
<1>4. Has(r, y) => Has(q, y)
  BY <1>2, <1>3 DEF Has
<1>5. ASSUME NEW i \in DOMAIN q, q[i] = y PROVE Has(r, y) \/ Head(q) = y
  <2>1. CASE i = 1
    BY <1>2, <1>5, <2>1
  <2>2. CASE i # 1
    <3>1. i - 1 \in 1 .. Len(q) - 1 /\ (i - 1) + 1 = i
      BY <1>3, <2>2
    <3>2. r[i - 1] = y
      BY <1>2, <1>5, <3>1
    <3> QED BY <1>3, <3>1, <3>2 DEF Has
  <2> QED BY <2>1, <2>2
<1>6. Head(q) = y => Has(q, y)
  BY <1>2, <1>3 DEF Has
<1> QED BY <1>1, <1>4, <1>5, <1>6 DEF Has

-----------------------------------------------------------------------------
(* The USB gadget: a change the host has not been told of is in the mail,  *)
(* is ignored, or its Discovery Notify failed; the reply comes once,       *)
(* before anything is ignored.                                             *)
GadgetInv ==
    /\ isSetup \in {TRUE, FALSE}
    /\ gadget \in [bound : BOOLEAN, rules : {"none", "part", "whole"}, address : BOOLEAN]
    /\ gadgetMail \in Seq(Gadget!Eids \cup {"reply"}) /\ unnotified \subseteq Gadget!Eids
    /\ unheard \subseteq Gadget!Eids /\ Gadget!AssignedIsSetUp
    /\ gadgetAsk \in {"asked", "replied"} => netLocalEids = {"unknown"}
    /\ Has(gadgetMail, "reply") => gadgetAsk = "replied"
    /\ \A i, j \in DOMAIN gadgetMail : gadgetMail[i] = "reply" /\ gadgetMail[j] = "reply" => i = j
    /\ \A eid \in unnotified : eid \in netLocalEids \/ eid \in unheard \/ Has(gadgetMail, eid)

LEMMA GadgetStart == ASSUME Gadget!Start PROVE GadgetInv
<1>1. gadgetMail = <<>> /\ DOMAIN gadgetMail = {} /\ gadgetMail \in Seq(Gadget!Eids \cup {"reply"})
  BY DEF Gadget!Start
<1> QED BY <1>1 DEF Gadget!Start, GadgetInv, Gadget!AssignedIsSetUp, Has

\* The mail of a device that is subscribed anew, or dropped.
LEMMA MailIsEmpty ==
  ASSUME netLocalEids' = {"unknown"}, gadgetMail' = <<>>, unnotified' = {},
         unheard' = {}
  PROVE  /\ gadgetMail' \in Seq(Gadget!Eids \cup {"reply"}) /\ unnotified' \subseteq Gadget!Eids
         /\ unheard' \subseteq Gadget!Eids
         /\ (gadgetAsk \in {"asked", "replied"} => netLocalEids = {"unknown"})'
         /\ (Has(gadgetMail, "reply") => gadgetAsk = "replied")'
         /\ (\A i, j \in DOMAIN gadgetMail :
                gadgetMail[i] = "reply" /\ gadgetMail[j] = "reply" => i = j)'
         /\ (\A eid \in unnotified :
                eid \in netLocalEids \/ eid \in unheard \/ Has(gadgetMail, eid))'
<1>1. DOMAIN gadgetMail' = {}
  OBVIOUS
<1> QED BY <1>1 DEF Has

LEMMA SubscriptionKept ==
  ASSUME GadgetInv, UNCHANGED <<netLocalEids, gadgetAsk, replied, gadgetMail, unnotified, unheard>>,
         isSetup' \in {TRUE, FALSE},
         gadget' \in [bound : BOOLEAN, rules : {"none", "part", "whole"}, address : BOOLEAN],
         Gadget!AssignedIsSetUp'
  PROVE  GadgetInv'
BY DEF GadgetInv, Has

LEMMA GadgetSetup ==
  ASSUME GadgetInv, NEW spent, gadgetState # "Assigned", Gadget!Setup(spent)
  PROVE  GadgetInv'
<1>1. isSetup = FALSE
  BY DEF GadgetInv, Gadget!AssignedIsSetUp
<1>2. PICK outcome \in Gadget!Failures \cup {Gadget!Success} :
        /\ gadget' = outcome[1]
        /\ \/ /\ outcome[2] \in {"endpoint", "exists"}
              /\ toldAll' = (outcome[2] = "exists")
              /\ Gadget!Subscribed
           \/ /\ outcome[2] \in {"error", "nothing"}
              /\ gadgetState' = IF outcome[2] = "error" THEN "Unassigned" ELSE "Assigning"
              /\ UNCHANGED <<toldAll, isSetup, netLocalEids, gadgetAsk, replied, gadgetMail, unnotified, unheard>>
  BY DEF Gadget!Setup, Gadget!subscription
<1>3. /\ outcome[1] \in [bound : BOOLEAN, rules : {"none", "part", "whole"}, address : BOOLEAN]
      /\ outcome[2] \in {"endpoint", "exists"} => outcome[1].bound /\ outcome[1].rules # "none"
      /\ outcome[2] = "endpoint" => outcome[1].address
  <2> DEFINE Records == [bound : BOOLEAN, rules : {"none", "part", "whole"}, address : BOOLEAN]
  <2>0. gadget \in Records
    BY DEF GadgetInv
  <2>1. PICK b \in Records : b = [gadget EXCEPT !.bound = TRUE] /\ b.bound = TRUE
    <3>1. PICK b : b = [gadget EXCEPT !.bound = TRUE]
      OBVIOUS
    <3>2. b \in Records /\ b.bound = TRUE
      BY <2>0, <3>1
    <3> QED BY <3>1, <3>2
  <2>2. \A rules \in {"part", "whole"} :
          /\ [b EXCEPT !.rules = rules] \in Records
          /\ [b EXCEPT !.rules = rules].bound = TRUE /\ [b EXCEPT !.rules = rules].rules # "none"
          /\ [[b EXCEPT !.rules = rules] EXCEPT !.address = TRUE] \in Records
    BY <2>1
  <2>3. PICK w \in Records : /\ w = [gadget EXCEPT !.bound = TRUE, !.rules = "part", !.address = TRUE]
                             /\ w.bound = TRUE /\ w.rules # "none" /\ w.address = TRUE
    <3>1. PICK w : w = [gadget EXCEPT !.bound = TRUE, !.rules = "part", !.address = TRUE]
      OBVIOUS
    <3>2. w \in Records /\ w.bound = TRUE /\ w.rules # "none" /\ w.address = TRUE
      BY <2>0, <3>1
    <3> QED BY <3>1, <3>2
  <2>4. CASE outcome = Gadget!Success
    BY <2>4 DEF Gadget!Success
  <2>5. CASE outcome = <<gadget, "error">>
    BY <2>5 DEF GadgetInv
  <2>6. CASE outcome \in {<<g, told>> : g \in {b}, told \in {"error", "nothing"}}
    <3>1. PICK told \in {"error", "nothing"} : outcome = <<b, told>>
      BY <2>6
    <3> QED BY <3>1
  <2>7. CASE outcome \in {<<g, told>> : g \in {[b EXCEPT !.rules = rules] : rules \in {"part", "whole"}},
                                      told \in {"error", "nothing", "exists"}}
    <3>1. PICK rules \in {"part", "whole"}, told \in {"error", "nothing", "exists"} :
            outcome = <<[b EXCEPT !.rules = rules], told>>
      BY <2>7
    <3>2. outcome[1] = [b EXCEPT !.rules = rules] /\ outcome[2] # "endpoint"
      BY <3>1
    <3> QED BY <2>2, <3>2
  <2>8. CASE outcome \in {<<[g EXCEPT !.address = TRUE], "error">> :
                          g \in {[b EXCEPT !.rules = rules] : rules \in {"part", "whole"}}}
    <3>1. PICK rules \in {"part", "whole"} :
            outcome = <<[[b EXCEPT !.rules = rules] EXCEPT !.address = TRUE], "error">>
      BY <2>8
    <3>2. outcome[1] = [[b EXCEPT !.rules = rules] EXCEPT !.address = TRUE] /\ outcome[2] = "error"
      BY <3>1
    <3> QED BY <2>2, <3>2
  <2>9. CASE outcome = <<w, "endpoint">>
    BY <2>3, <2>9
  <2>10. {[g EXCEPT !.rules = rules] : g \in {b}, rules \in {"part", "whole"}}
            = {[b EXCEPT !.rules = rules] : rules \in {"part", "whole"}}
    OBVIOUS
  <2>11. /\ Gadget!BoundGadget = {b}
         /\ Gadget!Filtered = {[b EXCEPT !.rules = rules] : rules \in {"part", "whole"}}
    BY <2>1, <2>10 DEF Gadget!BoundGadget, Gadget!Filtered
  <2> QED BY <2>1, <2>3, <2>4, <2>5, <2>6, <2>7, <2>8, <2>9, <2>11 DEF Gadget!Failures
<1>4. CASE outcome[2] \in {"endpoint", "exists"}
  <2>1. /\ gadgetState' = "Assigned" /\ isSetup' = TRUE /\ toldAll' = (outcome[2] = "exists")
        /\ netLocalEids' = {"unknown"} /\ gadgetMail' = <<>> /\ unnotified' = {} /\ unheard' = {}
    BY <1>2, <1>4 DEF Gadget!Subscribed
  <2>2. Gadget!AssignedIsSetUp'
    BY <1>2, <1>3, <1>4, <2>1 DEF Gadget!AssignedIsSetUp
  <2> QED BY <1>2, <1>3, <2>1, <2>2, MailIsEmpty DEF GadgetInv
<1>5. CASE outcome[2] \notin {"endpoint", "exists"}
  <2>1. gadgetState' # "Assigned" /\ isSetup' = FALSE
    BY <1>1, <1>2, <1>5
  <2>2. Gadget!AssignedIsSetUp'
    BY <2>1 DEF Gadget!AssignedIsSetUp
  <2> QED BY <1>2, <1>3, <1>5, <2>1, <2>2, SubscriptionKept
<1> QED BY <1>4, <1>5

LEMMA MailHandled ==
  ASSUME GadgetInv, Gadget!HandleMail PROVE GadgetInv'
<1>1. PICK q : q = gadgetMail
  OBVIOUS
<1>2. PICK t : t = Tail(q)
  OBVIOUS
<1>3. /\ q \in Seq(Gadget!Eids \cup {"reply"}) /\ q # <<>> /\ gadgetMail' = t
      /\ UNCHANGED <<gadgetState, gadget, toldAll, isSetup>>
  BY <1>1, <1>2 DEF Gadget!HandleMail, GadgetInv
<1>4. /\ t \in Seq(Gadget!Eids \cup {"reply"}) /\ Len(t) = Len(q) - 1 /\ Head(q) = q[1]
      /\ Len(q) \in Nat /\ Len(q) >= 1 /\ DOMAIN q = 1 .. Len(q) /\ DOMAIN t = 1 .. Len(q) - 1
      /\ \A i \in 1 .. Len(q) - 1 : t[i] = q[i + 1]
  BY <1>2, <1>3, QueueShrinks
<1>5. \A i, j \in DOMAIN t : t[i] = "reply" /\ t[j] = "reply" => i = j
  <2> SUFFICES ASSUME NEW i \in DOMAIN t, NEW j \in DOMAIN t, t[i] = "reply", t[j] = "reply"
               PROVE  i = j
    OBVIOUS
  <2>1. /\ i \in Nat /\ j \in Nat /\ i + 1 \in DOMAIN q /\ j + 1 \in DOMAIN q
        /\ q[i + 1] = "reply" /\ q[j + 1] = "reply"
    BY <1>4
  <2>2. i + 1 = j + 1
    BY <1>1, <2>1 DEF GadgetInv
  <2> QED BY <2>1, <2>2
<1>6. \A y : (Has(t, y) => Has(q, y)) /\ (Has(q, y) => Has(t, y) \/ Head(q) = y)
             /\ (Head(q) = y => Has(q, y))
  BY <1>2, <1>3, HasTail
<1>7. isSetup' \in {TRUE, FALSE} /\ Gadget!AssignedIsSetUp'
      /\ gadget' \in [bound : BOOLEAN, rules : {"none", "part", "whole"}, address : BOOLEAN]
  BY <1>3 DEF GadgetInv, Gadget!AssignedIsSetUp
<1>8. CASE Head(q) = "reply"
  <2>1. netLocalEids = {"unknown"} /\ gadgetAsk' = "none" /\ UNCHANGED <<unnotified, unheard>>
    BY <1>1, <1>6, <1>8 DEF GadgetInv, Gadget!HandleMail
  <2>2. ~Has(t, "reply")
    <3> SUFFICES ASSUME NEW i \in DOMAIN t, t[i] = "reply" PROVE FALSE
      BY DEF Has
    <3>1. i \in Nat /\ i >= 1 /\ i + 1 \in DOMAIN q /\ q[i + 1] = "reply" /\ 1 \in DOMAIN q /\ q[1] = "reply"
      BY <1>4, <1>8
    <3>2. i + 1 = 1
      BY <1>1, <3>1 DEF GadgetInv
    <3> QED BY <3>1, <3>2
  <2>3. \A eid \in unnotified : eid \in unheard \/ Has(t, eid)
    <3>1. \A eid \in unnotified : eid \in Gadget!Eids /\ eid # "reply" /\ eid # "unknown"
      BY DEF GadgetInv, Gadget!Eids
    <3> QED BY <1>1, <1>6, <1>8, <2>1, <3>1 DEF GadgetInv
  <2> QED BY <1>3, <1>4, <1>5, <1>7, <2>1, <2>2, <2>3 DEF GadgetInv
<1>9. CASE Head(q) # "reply"
  <2>1. /\ UNCHANGED <<netLocalEids, gadgetAsk>>
        /\ \/ Head(q) \in netLocalEids /\ UNCHANGED <<unnotified, unheard>>
           \/ unnotified' = {} /\ unheard' = {}
           \/ unnotified' = unnotified /\ unheard' = unheard \cup {Head(q)}
    BY <1>1, <1>9 DEF Gadget!HandleMail, Gadget!Ignores, Gadget!SendDiscoveryNotify
  <2>2. /\ \A eid \in unnotified' : /\ eid \in unnotified
                                     /\ (eid \in netLocalEids' \/ eid \in unheard' \/ Has(t, eid))
        /\ unheard' \subseteq Gadget!Eids
    <3>1. Head(q) \in Gadget!Eids
      BY <1>3, <1>4, <1>9
    <3> QED BY <1>1, <1>6, <2>1, <3>1 DEF GadgetInv
  <2> QED BY <1>1, <1>3, <1>4, <1>5, <1>6, <1>7, <2>1, <2>2 DEF GadgetInv
<1> QED BY <1>8, <1>9

LEMMA MailSent ==
  ASSUME GadgetInv, NEW m \in Gadget!Eids \cup {"reply"}, gadgetMail' = Append(gadgetMail, m),
         UNCHANGED <<gadgetState, gadget, toldAll, isSetup, netLocalEids, unheard>>,
         \/ m = "reply" /\ gadgetAsk = "asked" /\ gadgetAsk' = "replied" /\ unnotified' = unnotified
         \/ m # "reply" /\ gadgetAsk' = gadgetAsk /\ unnotified' \in {unnotified, unnotified \cup {m}}
  PROVE  GadgetInv'
<1>1. PICK q : q = gadgetMail
  OBVIOUS
<1>2. PICK t : t = Append(q, m)
  OBVIOUS
<1>3. q \in Seq(Gadget!Eids \cup {"reply"}) /\ gadgetMail' = t
  BY <1>1, <1>2 DEF GadgetInv
<1>4. /\ t \in Seq(Gadget!Eids \cup {"reply"}) /\ Len(t) = Len(q) + 1 /\ t[Len(q) + 1] = m
      /\ Len(q) \in Nat /\ DOMAIN q = 1 .. Len(q) /\ DOMAIN t = 1 .. Len(q) + 1
      /\ \A i \in 1 .. Len(q) : t[i] = q[i]
  BY <1>2, <1>3, QueueGrows
<1>5. \A y : Has(t, y) <=> Has(q, y) \/ y = m
  BY <1>2, <1>3, HasAppended
<1>6. Has(t, "reply") => gadgetAsk' = "replied"
  BY <1>1, <1>5 DEF GadgetInv
<1>7. m = "reply" => ~Has(q, "reply")
  BY <1>1 DEF GadgetInv
<1>8. \A i, j \in DOMAIN t : t[i] = "reply" /\ t[j] = "reply" => i = j
  <2> SUFFICES ASSUME NEW i \in DOMAIN t, NEW j \in DOMAIN t, t[i] = "reply", t[j] = "reply"
               PROVE  i = j
    OBVIOUS
  <2>1. CASE i \in DOMAIN q /\ j \in DOMAIN q
    BY <1>1, <1>4, <2>1 DEF GadgetInv
  <2>2. CASE m = "reply"
    BY <1>4, <1>7, <2>2 DEF Has
  <2>3. CASE m # "reply"
    BY <1>4, <2>1, <2>3
  <2> QED BY <2>2, <2>3
<1>9. \A eid \in unnotified' : /\ eid \in Gadget!Eids
                               /\ (eid \in netLocalEids' \/ eid \in unheard \/ Has(t, eid))
  <2> SUFFICES ASSUME NEW eid \in unnotified'
               PROVE  eid \in Gadget!Eids /\ (eid \in netLocalEids \/ eid \in unheard \/ Has(t, eid))
    OBVIOUS
  <2>1. eid \in unnotified \/ (eid = m /\ m # "reply")
    OBVIOUS
  <2> QED BY <1>1, <1>5, <2>1 DEF GadgetInv
<1>10. gadgetAsk' \in {"asked", "replied"} => netLocalEids' = {"unknown"}
  BY DEF GadgetInv
<1>11. isSetup' \in {TRUE, FALSE} /\ Gadget!AssignedIsSetUp'
       /\ gadget' \in [bound : BOOLEAN, rules : {"none", "part", "whole"}, address : BOOLEAN]
  BY DEF GadgetInv, Gadget!AssignedIsSetUp
<1> QED BY <1>3, <1>4, <1>6, <1>8, <1>9, <1>10, <1>11 DEF GadgetInv

LEMMA GadgetStep == ASSUME GadgetInv, Gadget!Next \/ UNCHANGED gadgetVars PROVE GadgetInv'
<1>1. CASE Gadget!Manage
  <2>1. CASE gadgetState = "Unmanaged" /\ Gadget!Setup(1)
    BY <2>1, GadgetSetup
  <2>2. CASE /\ \/ gadgetState = "Removing" /\ gadgetState' = "Unassigned"
                \/ gadgetState = "Quarantine" /\ gadgetState' = "Assigning"
             /\ UNCHANGED <<gadget, toldAll, isSetup, netLocalEids, gadgetAsk, replied, gadgetMail, unnotified, unheard>>
    <3>1. Gadget!AssignedIsSetUp'
      BY <2>2 DEF GadgetInv, Gadget!AssignedIsSetUp
    <3>2. isSetup' \in {TRUE, FALSE}
          /\ gadget' \in [bound : BOOLEAN, rules : {"none", "part", "whole"}, address : BOOLEAN]
      BY <2>2 DEF GadgetInv
    <3> QED BY <2>2, <3>1, <3>2, SubscriptionKept
  <2> QED BY <1>1, <2>1, <2>2 DEF Gadget!Manage, Gadget!subscription
<1>2. CASE Gadget!Tick
  BY <1>2, GadgetSetup DEF Gadget!Tick
<1>3. CASE Gadget!Unmanage
  <2>1. CASE gadgetState' = "Removing" /\ Gadget!Remove
    <3>1. UNCHANGED <<gadget, toldAll>> /\ isSetup' = FALSE
          /\ netLocalEids' = {"unknown"} /\ gadgetMail' = <<>> /\ unnotified' = {} /\ unheard' = {}
      BY <1>3, <2>1 DEF Gadget!Unmanage, Gadget!Remove
    <3>2. Gadget!AssignedIsSetUp'
      BY <2>1, <3>1 DEF Gadget!AssignedIsSetUp
    <3> QED BY <3>1, <3>2, MailIsEmpty DEF GadgetInv
  <2>2. CASE /\ gadgetState # "Assigned" /\ gadgetState' # "Assigned"
             /\ UNCHANGED <<isSetup, netLocalEids, gadgetAsk, replied, gadgetMail, unnotified, unheard>>
    <3>1. UNCHANGED <<gadget, toldAll>>
      BY <1>3 DEF Gadget!Unmanage
    <3>2. Gadget!AssignedIsSetUp'
      BY <2>2, <3>1 DEF GadgetInv, Gadget!AssignedIsSetUp
    <3>3. isSetup' \in {TRUE, FALSE}
          /\ gadget' \in [bound : BOOLEAN, rules : {"none", "part", "whole"}, address : BOOLEAN]
      BY <2>2, <3>1 DEF GadgetInv
    <3> QED BY <2>2, <3>1, <3>2, <3>3, SubscriptionKept
  <2> QED BY <1>3, <2>1, <2>2 DEF Gadget!Unmanage, Gadget!subscription
<1>4. CASE Gadget!ObjectChanges
  <2>1. PICK eid \in Gadget!Eids, isLocal \in BOOLEAN :
          /\ gadgetMail' = Append(gadgetMail, eid)
          /\ unnotified' = IF isLocal THEN unnotified ELSE unnotified \cup {eid}
    BY <1>4 DEF Gadget!ObjectChanges
  <2>2. eid # "reply" /\ unnotified' \in {unnotified, unnotified \cup {eid}}
    BY <2>1 DEF Gadget!Eids
  <2>3. UNCHANGED <<gadgetState, gadget, toldAll, isSetup, netLocalEids, unheard>> /\ gadgetAsk' = gadgetAsk
    BY <1>4 DEF Gadget!ObjectChanges
  <2> QED BY <2>1, <2>2, <2>3, MailSent
<1>5. CASE Gadget!Reply
  <2>1. /\ gadgetAsk = "asked" /\ gadgetAsk' = "replied" /\ gadgetMail' = Append(gadgetMail, "reply")
        /\ UNCHANGED <<gadgetState, gadget, toldAll, isSetup, netLocalEids, unheard>> /\ unnotified' = unnotified
    BY <1>5 DEF Gadget!Reply
  <2> QED BY <2>1, MailSent
<1>6. CASE Gadget!HandleMail
  BY <1>6, MailHandled
<1>7. CASE UNCHANGED gadgetVars
  <2>1. UNCHANGED <<gadgetState, isSetup, gadget, toldAll>>
        /\ UNCHANGED <<netLocalEids, gadgetAsk, replied, gadgetMail, unnotified, unheard>>
    BY <1>7 DEF gadgetVars
  <2> QED BY <2>1, SubscriptionKept DEF GadgetInv, Gadget!AssignedIsSetUp
<1> QED BY <1>1, <1>2, <1>3, <1>4, <1>5, <1>6, <1>7 DEF Gadget!Next

LEMMA GadgetGoesOn == ASSUME GadgetInv PROVE Gadget!AssignedIsSetUp /\ Gadget!HostIsNotified
<1>1. gadgetMail = <<>> => \A eid : ~Has(gadgetMail, eid)
  BY DEF Has
<1> QED BY <1>1 DEF GadgetInv, Gadget!HostIsNotified

-----------------------------------------------------------------------------
(* An endpoint behind a bridge: the last signal that waits tells whether   *)
(* the endpoint exists.                                                    *)
LastTells ==
    poolSignals # <<>> => (poolSignals[Len(poolSignals)] = "added" <=> predicted \in endpoints)
PoolInv == poolSignals \in Seq({"added", "removed"}) /\ Pool!AssociatedExists /\ LastTells

LEMMA PoolStart == ASSUME Pool!Start PROVE PoolInv
<1>1. poolSignals = <<>> /\ poolSignals \in Seq({"added", "removed"}) /\ associated = 0
  BY DEF Pool!Start
<1> QED BY <1>1 DEF PoolInv, Pool!AssociatedExists, LastTells

\* Nothing is associated, and nothing waits to be handled or the signals are as they were.
LEMMA PoolSettles ==
  ASSUME PoolInv, associated' = 0, endpoints' = endpoints,
         poolSignals' = <<>> \/ (poolSignals' = poolSignals /\ predicted' = predicted)
  PROVE  PoolInv'
<1>1. CASE poolSignals' = <<>>
  <2>1. poolSignals' \in Seq({"added", "removed"})
    BY <1>1
  <2> QED BY <1>1, <2>1 DEF PoolInv, Pool!AssociatedExists, LastTells
<1>2. CASE poolSignals' = poolSignals /\ predicted' = predicted
  BY <1>2 DEF PoolInv, Pool!AssociatedExists, LastTells
<1> QED BY <1>1, <1>2

\* mctpd publishes or withdraws an endpoint, and tells a device that watches it.
LEMMA PoolSignalled ==
  ASSUME PoolInv, NEW e, NEW kind \in {"added", "removed"}, Pool!Signalled(e, kind),
         UNCHANGED <<lifecycle, predicted, setupCallback, associated>>,
         \A x : x # e => (x \in endpoints' <=> x \in endpoints), kind = "added" <=> e \in endpoints'
  PROVE  PoolInv'
<1>1. CASE e # predicted
  <2>1. poolSignals' = poolSignals /\ (predicted \in endpoints' <=> predicted \in endpoints)
    BY <1>1 DEF Pool!Signalled
  <2>2. associated # 0 => (associated \in endpoints' <=> associated \in endpoints)
    BY <2>1 DEF PoolInv, Pool!AssociatedExists
  <2> QED BY <2>1, <2>2 DEF PoolInv, Pool!AssociatedExists, LastTells
<1>2. CASE e = predicted
  <2>1. PICK q : q = poolSignals
    OBVIOUS
  <2>2. PICK t : t = Append(q, kind)
    OBVIOUS
  <2>3. q \in Seq({"added", "removed"}) /\ poolSignals' = t
    BY <1>2, <2>1, <2>2 DEF PoolInv, Pool!Signalled
  <2>4. /\ t \in Seq({"added", "removed"}) /\ Len(t) = Len(q) + 1 /\ t[Len(q) + 1] = kind
        /\ Len(q) + 1 \in DOMAIN t
    BY <2>2, <2>3, QueueGrows
  <2>5. LastTells'
    BY <1>2, <2>3, <2>4 DEF LastTells
  <2>6. associated # 0 => \/ associated \in endpoints'
                          \/ \E i \in DOMAIN t : t[i] = "removed"
    BY <1>2, <2>4 DEF PoolInv, Pool!AssociatedExists
  <2> QED BY <2>3, <2>4, <2>5, <2>6 DEF PoolInv, Pool!AssociatedExists
<1> QED BY <1>1, <1>2

LEMMA PoolSignalHandled ==
  ASSUME PoolInv, Pool!EndpointAdded \/ Pool!EndpointRemoved PROVE PoolInv'
<1>1. PICK q : q = poolSignals
  OBVIOUS
<1>2. PICK t : t = Tail(q)
  OBVIOUS
<1>3. /\ q \in Seq({"added", "removed"}) /\ q # <<>> /\ poolSignals' = t
      /\ UNCHANGED <<endpoints, predicted>>
  BY <1>1, <1>2 DEF Pool!EndpointAdded, Pool!EndpointRemoved, Pool!Handles, Pool!mctpd, PoolInv
<1>4. /\ t \in Seq({"added", "removed"}) /\ Len(t) = Len(q) - 1 /\ Head(q) = q[1]
      /\ Len(q) \in Nat /\ Len(q) >= 1 /\ DOMAIN q = 1 .. Len(q) /\ DOMAIN t = 1 .. Len(q) - 1
      /\ \A i \in 1 .. Len(q) - 1 : t[i] = q[i + 1]
  BY <1>2, <1>3, QueueShrinks
<1>5. t # <<>> => Len(t) >= 1 /\ t[Len(t)] = q[Len(q)] /\ t[Len(t)] \in {"added", "removed"}
                  /\ Len(t) \in DOMAIN t
  BY <1>4
<1>6. LastTells'
  BY <1>1, <1>3, <1>5 DEF LastTells, PoolInv
<1>7. CASE associated' = 0
  BY <1>3, <1>4, <1>6, <1>7 DEF PoolInv, Pool!AssociatedExists
<1>8. CASE Pool!EndpointAdded
  <2>1. q[1] = "added"
    BY <1>1, <1>4, <1>8 DEF Pool!EndpointAdded, Pool!Handles
  <2>2. predicted \in endpoints \/ \E i \in DOMAIN t : t[i] = "removed"
    <3>1. CASE t = <<>>
      <4>1. Len(q) = 1
        BY <1>4, <3>1
      <4> QED BY <1>1, <1>3, <2>1, <4>1 DEF PoolInv, LastTells
    <3>2. CASE t # <<>>
      BY <1>1, <1>3, <1>5, <3>2 DEF PoolInv, LastTells
    <3> QED BY <3>1, <3>2
  <2>3. CASE setupCallback /\ Pool!NotifyPresent
    <3>1. associated' = predicted' /\ ~setupCallback' /\ lifecycle' \in {"Assigned", "Recovered"}
      BY <1>3, <2>3 DEF Pool!NotifyPresent
    <3> QED BY <1>3, <1>4, <1>6, <2>2, <3>1 DEF PoolInv, Pool!AssociatedExists
  <2>4. CASE UNCHANGED <<lifecycle, setupCallback, associated>>
    BY <1>3, <1>4, <1>6, <2>2, <2>4 DEF PoolInv, Pool!AssociatedExists
  <2> QED BY <1>8, <2>3, <2>4 DEF Pool!EndpointAdded
<1> QED BY <1>7, <1>8 DEF Pool!EndpointRemoved

LEMMA PoolStep == ASSUME PoolInv, Pool!Next \/ UNCHANGED poolVars PROVE PoolInv'
<1>0. lifecycle \notin {"Assigned", "Recovered"} => associated = 0
  BY DEF PoolInv, Pool!AssociatedExists
<1>1. CASE Pool!Introspect
  <2>1. UNCHANGED <<endpoints, poolSignals, predicted>>
    BY <1>1 DEF Pool!Introspect, Pool!mctpd
  <2>2. CASE predicted \in endpoints /\ Pool!NotifyPresent
    <3>1. associated' = predicted' /\ ~setupCallback' /\ lifecycle' \in {"Assigned", "Recovered"}
      BY <2>1, <2>2 DEF Pool!NotifyPresent
    <3> QED BY <2>1, <2>2, <3>1 DEF PoolInv, Pool!AssociatedExists, LastTells
  <2>3. CASE UNCHANGED <<lifecycle, setupCallback, associated>>
    BY <2>1, <2>3 DEF PoolInv, Pool!AssociatedExists, LastTells
  <2> QED BY <1>1, <2>2, <2>3 DEF Pool!Introspect
<1>2. CASE Pool!Tick
  <2>1. associated' = 0 /\ endpoints' = endpoints
    BY <1>0, <1>2 DEF Pool!Tick, Pool!mctpd
  <2>2. poolSignals' = <<>> \/ (poolSignals' = poolSignals /\ predicted' = predicted)
    BY <1>2 DEF Pool!Tick, Pool!Setup
  <2> QED BY <2>1, <2>2, PoolSettles
<1>3. ASSUME endpoints' = endpoints, Pool!Kept, lifecycle' = lifecycle \/ lifecycle \notin {"Assigned", "Recovered"}
                                                \/ lifecycle' \in {"Assigned", "Recovered"}
      PROVE  PoolInv'
  <2>1. UNCHANGED <<poolSignals, predicted, setupCallback, associated>>
    BY <1>3 DEF Pool!Kept
  <2>2. LastTells' /\ poolSignals' \in Seq({"added", "removed"})
    BY <1>3, <2>1 DEF PoolInv, LastTells
  <2> QED BY <1>0, <1>3, <2>1, <2>2 DEF PoolInv, Pool!AssociatedExists
<1>4. ASSUME endpoints' = endpoints, Pool!Dropped PROVE PoolInv'
  BY <1>4, PoolSettles DEF Pool!Dropped
<1>5. CASE Pool!Manage
  <2>1. endpoints' = endpoints
    BY <1>5 DEF Pool!Manage, Pool!mctpd
  <2>2. CASE lifecycle = "Unmanaged" /\ Pool!Setup("Assigning") /\ UNCHANGED associated
    <3>1. poolSignals' = <<>> \/ (poolSignals' = poolSignals /\ predicted' = predicted)
      BY <2>2 DEF Pool!Setup
    <3> QED BY <1>0, <2>1, <2>2, <3>1, PoolSettles
  <2> QED BY <1>3, <1>4, <1>5, <2>1, <2>2 DEF Pool!Manage
<1>6. CASE Pool!Unmanage
  <2>1. endpoints' = endpoints
    BY <1>6 DEF Pool!Unmanage, Pool!mctpd
  <2> QED BY <1>3, <1>4, <1>6, <2>1 DEF Pool!Unmanage
<1>7. CASE Pool!EndpointAppears
  <2>1. PICK e : endpoints' = endpoints \cup {e} /\ Pool!Signalled(e, "added")
    BY <1>7 DEF Pool!EndpointAppears
  <2>2. UNCHANGED <<lifecycle, predicted, setupCallback, associated>>
    BY <1>7 DEF Pool!EndpointAppears
  <2> QED BY <2>1, <2>2, PoolSignalled
<1>8. CASE Pool!EndpointDisappears
  <2>1. PICK e : endpoints' = endpoints \ {e} /\ Pool!Signalled(e, "removed")
    BY <1>8 DEF Pool!EndpointDisappears
  <2>2. UNCHANGED <<lifecycle, predicted, setupCallback, associated>>
    BY <1>8 DEF Pool!EndpointDisappears
  <2> QED BY <2>1, <2>2, PoolSignalled
<1>9. CASE Pool!BridgeChanges \/ UNCHANGED poolVars
  <2>1. UNCHANGED <<endpoints, poolSignals, lifecycle, predicted, setupCallback, associated>>
    BY <1>9 DEF Pool!BridgeChanges, poolVars
  <2> QED BY <2>1 DEF PoolInv, Pool!AssociatedExists, LastTells
<1> QED BY <1>1, <1>2, <1>5, <1>6, <1>7, <1>8, <1>9, PoolSignalHandled DEF Pool!Next, Pool!Proceeds

-----------------------------------------------------------------------------
(* Recovery over USB: while a test runs, the reactor knows and hears       *)
(* nothing to the contrary, or is about to hear of it last.                *)
Ends == {"idle", "ended", "lost", "owned"}
Begins == {"running", "begun", "found", "malformed"}
News == Ends \cup Begins \cup {"unknown"}
NothingEnds(q) == \A i \in DOMAIN q : q[i] \notin Ends
WillTell(q) ==
    \E i \in DOMAIN q : q[i] \in Begins /\ \A j \in DOMAIN q : j > i => q[j] \notin Ends
UsbInv ==
    /\ istNews \in Seq(News) /\ istCalls \in Seq({"find", "get"})
    /\ ist = "running" /\ ~istMisled /\ istCalls = <<>> =>
         (istInProgress = TRUE /\ NothingEnds(istNews)) \/ WillTell(istNews)

LEMMA TellsLast ==
  ASSUME NEW q \in Seq(News), NEW m \in Begins PROVE WillTell(Append(q, m))
<1>1. PICK t : t = Append(q, m)
  OBVIOUS
<1>2. t \in Seq(News) /\ Len(t) = Len(q) + 1 /\ t[Len(q) + 1] = m
  BY <1>1, QueueGrows DEF News
<1>3. DOMAIN t = 1 .. Len(q) + 1 /\ Len(q) \in Nat
  BY <1>2
<1>4. Len(q) + 1 \in DOMAIN t /\ \A j \in DOMAIN t : ~(j > Len(q) + 1)
  BY <1>3
<1> QED BY <1>1, <1>2, <1>4 DEF WillTell

LEMMA HeardFirst ==
  ASSUME NEW q \in Seq(News), q # <<>>
  PROVE  /\ Tail(q) \in Seq(News) /\ Head(q) \in News
         /\ NothingEnds(q) => NothingEnds(Tail(q)) /\ Head(q) \notin Ends
         /\ WillTell(q) => WillTell(Tail(q)) \/ (Head(q) \in Begins /\ NothingEnds(Tail(q)))
<1>1. PICK t : t = Tail(q)
  OBVIOUS
<1>2. /\ t \in Seq(News) /\ Len(t) = Len(q) - 1 /\ Head(q) = q[1] /\ Head(q) \in News
      /\ Len(q) \in Nat /\ Len(q) >= 1 /\ DOMAIN q = 1 .. Len(q) /\ DOMAIN t = 1 .. Len(q) - 1
      /\ \A i \in 1 .. Len(q) - 1 : t[i] = q[i + 1]
  BY <1>1, QueueShrinks
<1>3. NothingEnds(q) => NothingEnds(t) /\ Head(q) \notin Ends
  BY <1>2 DEF NothingEnds
<1>4. ASSUME NEW i \in DOMAIN q, q[i] \in Begins, \A j \in DOMAIN q : j > i => q[j] \notin Ends
      PROVE  WillTell(t) \/ (Head(q) \in Begins /\ NothingEnds(t))
  <2>1. CASE i = 1
    <3>1. ASSUME NEW j \in DOMAIN t PROVE t[j] \notin Ends
      <4>1. j + 1 \in DOMAIN q /\ j + 1 > i /\ t[j] = q[j + 1]
        BY <1>2, <2>1
      <4> QED BY <1>4, <4>1
    <3> QED BY <1>2, <1>4, <2>1, <3>1 DEF NothingEnds
  <2>2. CASE i # 1
    <3>1. PICK k \in DOMAIN t : k + 1 = i
      <4>1. i - 1 \in DOMAIN t /\ (i - 1) + 1 = i
        BY <1>2, <2>2
      <4> QED BY <4>1
    <3>2. ASSUME NEW j \in DOMAIN t, j > k PROVE t[j] \notin Ends
      <4>1. j + 1 \in DOMAIN q /\ j + 1 > i /\ t[j] = q[j + 1]
        BY <1>2, <3>1, <3>2
      <4> QED BY <1>4, <4>1
    <3>3. t[k] \in Begins
      BY <1>2, <1>4, <3>1
    <3> QED BY <3>2, <3>3 DEF WillTell
  <2> QED BY <2>1, <2>2
<1> QED BY <1>1, <1>2, <1>3, <1>4 DEF WillTell

LEMMA CallsAsked ==
  ASSUME UsbInv, NEW c \in {"find", "get"}
  PROVE  Usb!Asked(c) \in Seq({"find", "get"}) /\ Usb!Asked(c) # <<>>
<1>1. istCalls \in Seq({"find", "get"})
  BY DEF UsbInv
<1>2. CASE \E i \in DOMAIN istCalls : istCalls[i] = c
  BY <1>1, <1>2 DEF Usb!Asked
<1>3. CASE ~\E i \in DOMAIN istCalls : istCalls[i] = c
  <2>1. Usb!Asked(c) = Append(istCalls, c)
    BY <1>3 DEF Usb!Asked
  <2> QED BY <1>1, <2>1, QueueGrows
<1> QED BY <1>2, <1>3

LEMMA UsbStart == ASSUME Usb!Start PROVE UsbInv
<1>1. istNews = <<>> /\ istCalls = <<"find">> /\ ist = "absent"
  BY DEF Usb!Start
<1> QED BY <1>1 DEF UsbInv

\* What the calls are and what is known, when news are heard.
LEMMA UsbHears ==
  ASSUME UsbInv, Usb!IstHeard
  PROVE  /\ istNews # <<>> /\ istNews' = Tail(istNews) /\ ist' = ist /\ istMisled' = istMisled
         /\ istCalls' = istCalls \/ (istCalls' \in Seq({"find", "get"}) /\ istCalls' # <<>>)
         /\ Head(istNews) \in {"running", "begun"} => istInProgress' = TRUE
         /\ Head(istNews) \in {"found", "malformed"} => istCalls' # <<>>
         /\ Head(istNews) = "unknown" => istInProgress' = istInProgress
<1>1. /\ Usb!Asked("find") \in Seq({"find", "get"}) /\ Usb!Asked("find") # <<>>
      /\ Usb!Asked("get") \in Seq({"find", "get"}) /\ Usb!Asked("get") # <<>>
  BY CallsAsked
<1>2. ist' = ist /\ istMisled' = istMisled
  BY DEF Usb!IstHeard
<1>3. CASE Usb!Replied
  BY <1>2, <1>3 DEF Usb!Replied, Usb!Hears
<1>4. CASE Usb!StateHeard
  BY <1>1, <1>2, <1>4 DEF Usb!StateHeard, Usb!Hears
<1>5. CASE Usb!Malformed
  BY <1>1, <1>2, <1>5 DEF Usb!Malformed, Usb!RefreshState, Usb!Hears
<1>6. CASE Usb!Found
  BY <1>1, <1>2, <1>6 DEF Usb!Found, Usb!Hears
<1>7. CASE Usb!OwnerChanged
  BY <1>1, <1>2, <1>7 DEF Usb!OwnerChanged, Usb!ReadIstInProgress, Usb!Hears
<1> QED BY <1>3, <1>4, <1>5, <1>6, <1>7 DEF Usb!IstHeard

LEMMA UsbHeard == ASSUME UsbInv, Usb!IstHeard PROVE UsbInv'
<1>1. PICK q : q = istNews
  OBVIOUS
<1>2. q \in Seq(News) /\ q # <<>> /\ istCalls \in Seq({"find", "get"})
  BY <1>1, UsbHears DEF UsbInv
<1>3. /\ istNews' = Tail(q) /\ ist' = ist /\ istMisled' = istMisled
      /\ istCalls' = istCalls \/ (istCalls' \in Seq({"find", "get"}) /\ istCalls' # <<>>)
      /\ Head(q) \in {"running", "begun"} => istInProgress' = TRUE
      /\ Head(q) \in {"found", "malformed"} => istCalls' # <<>>
      /\ Head(q) = "unknown" => istInProgress' = istInProgress
  BY <1>1, UsbHears
<1>4. /\ Tail(q) \in Seq(News) /\ Head(q) \in News
      /\ NothingEnds(q) => NothingEnds(Tail(q)) /\ Head(q) \notin Ends
      /\ WillTell(q) => WillTell(Tail(q)) \/ (Head(q) \in Begins /\ NothingEnds(Tail(q)))
  BY <1>2, HeardFirst
<1>5. ASSUME ist' = "running", ~istMisled', istCalls' = <<>>
      PROVE  (istInProgress' = TRUE /\ NothingEnds(Tail(q))) \/ WillTell(Tail(q))
  <2>1. istCalls = <<>> /\ Head(q) \notin {"found", "malformed"}
    BY <1>3, <1>5
  <2>2. CASE istInProgress = TRUE /\ NothingEnds(q)
    <3>1. Head(q) \in {"running", "begun", "unknown"}
      BY <1>4, <2>1, <2>2 DEF News, Begins
    <3> QED BY <1>3, <1>4, <2>2, <3>1
  <2>3. CASE WillTell(q)
    <3>1. CASE Head(q) \in Begins /\ NothingEnds(Tail(q))
      BY <1>3, <2>1, <3>1 DEF Begins
    <3> QED BY <1>4, <2>3, <3>1
  <2> QED BY <1>1, <1>3, <1>5, <2>1, <2>2, <2>3 DEF UsbInv
<1> QED BY <1>2, <1>3, <1>4, <1>5 DEF UsbInv

LEMMA UsbStep == ASSUME UsbInv, Usb!Next \/ UNCHANGED usbVars PROVE UsbInv'
<1>0. istNews \in Seq(News) /\ istCalls \in Seq({"find", "get"})
  BY DEF UsbInv
<1>1. CASE Usb!IstServed
  <2>1. /\ istCalls # <<>> /\ istCalls' = Tail(istCalls) /\ ist' = ist /\ istInProgress' = istInProgress
        /\ \/ istNews' = Append(istNews, Usb!Answer(Head(istCalls))) /\ UNCHANGED istMisled
           \/ /\ istNews' = Append(istNews, Usb!Failure(Head(istCalls)))
              /\ istMisled' = (istMisled \/ ist = "running")
    BY <1>1 DEF Usb!IstServed, Usb!istKnowledge
  <2>2. Head(istCalls) \in {"find", "get"} /\ istCalls' \in Seq({"find", "get"})
    BY <1>0, <2>1, QueueShrinks
  <2>3. /\ Usb!Answer(Head(istCalls)) \in News /\ Usb!Failure(Head(istCalls)) \in News
        /\ ist = "running" => Usb!Answer(Head(istCalls)) \in Begins
    BY <2>2 DEF Usb!Answer, Usb!Failure, News, Ends, Begins
  <2>4. istNews' \in Seq(News)
    <3>1. PICK m \in News : istNews' = Append(istNews, m)
      BY <2>1, <2>3
    <3> QED BY <1>0, <3>1, QueueGrows
  <2>5. ASSUME ist' = "running", ~istMisled' PROVE WillTell(istNews')
    BY <1>0, <2>1, <2>3, <2>5, TellsLast
  <2> QED BY <2>2, <2>4, <2>5 DEF UsbInv
<1>2. CASE Usb!IstChanges
  <2>1. UNCHANGED <<istInProgress, istCalls, istMisled>>
    BY <1>2 DEF Usb!IstChanges, Usb!istKnowledge
  <2>2. \E m \in News : /\ istNews' = Append(istNews, m) \/ (istNews' = istNews /\ ist' # "running")
                        /\ ist' = "running" => m \in Begins
    BY <1>2 DEF Usb!IstChanges, Usb!Tells, Usb!TellsOwner, News, Ends, Begins
  <2>3. PICK m \in News : /\ istNews' = Append(istNews, m) \/ (istNews' = istNews /\ ist' # "running")
                          /\ ist' = "running" => m \in Begins
    BY <2>2
  <2>4. istNews' \in Seq(News)
    BY <1>0, <2>3, QueueGrows
  <2>5. ist' = "running" => WillTell(istNews')
    BY <1>0, <2>3, TellsLast
  <2> QED BY <1>0, <2>1, <2>4, <2>5 DEF UsbInv
<1>3. ASSUME UNCHANGED <<ist, istNews, istMisled>>, UNCHANGED <<istInProgress, istCalls>>
      PROVE  UsbInv'
  BY <1>3 DEF UsbInv
<1>4. CASE Usb!SetupFails
  <2>1. UNCHANGED <<ist, istNews, istMisled>>
    BY <1>4 DEF Usb!SetupFails
  <2>2. CASE UNCHANGED <<istInProgress, istCalls>>
    BY <1>3, <2>1, <2>2
  <2>3. CASE Usb!RefreshState
    <3>1. istCalls' \in Seq({"find", "get"}) /\ istCalls' # <<>>
      BY <2>3, CallsAsked DEF Usb!RefreshState
    <3> QED BY <1>0, <2>1, <3>1 DEF UsbInv
  <2> QED BY <1>4, <2>2, <2>3 DEF Usb!SetupFails
<1>5. CASE Usb!SetupSucceeds \/ Usb!ForceUSBRecovery \/ Usb!DeviceChanges \/ UNCHANGED usbVars
  BY <1>3, <1>5 DEF Usb!SetupSucceeds, Usb!ForceUSBRecovery, Usb!DeviceChanges, Usb!istKnowledge, usbVars
<1> QED BY <1>1, <1>2, <1>4, <1>5, UsbHeard DEF Usb!Next

LEMMA UsbGoesOn == ASSUME UsbInv PROVE Usb!TestIsKnown
<1>1. istNews = <<>> => ~WillTell(istNews)
  BY DEF WillTell
<1> QED BY <1>1 DEF UsbInv, Usb!TestIsKnown

-----------------------------------------------------------------------------
(* The health of an endpoint: it is watched.                               *)
Timers == [armed : BOOLEAN, queued : BOOLEAN]
WatchInv ==
    /\ established \in {TRUE, FALSE} /\ inRecovery \in {TRUE, FALSE}
    /\ healthTimer \in Timers /\ recoveryTimer \in Timers
    /\ Health!IsWatched

LEMMA TimersRun ==
  ASSUME NEW t \in Timers
  PROVE  /\ Health!Armed(t) \in Timers /\ Health!Pending(Health!Armed(t))
         /\ Health!Cancelled(t) \in Timers
         /\ [t EXCEPT !.queued = FALSE] \in Timers
         /\ Health!Queued \in Timers /\ Health!Pending(Health!Queued)
         /\ [armed |-> TRUE, queued |-> FALSE] \in Timers
         /\ Health!Pending([armed |-> TRUE, queued |-> FALSE])
<1>1. Health!Armed(t) \in Timers /\ Health!Armed(t).armed = TRUE
  BY DEF Timers, Health!Armed
<1>2. Health!Cancelled(t) \in Timers /\ [t EXCEPT !.queued = FALSE] \in Timers
  BY DEF Timers, Health!Cancelled
<1>3. Health!Queued \in Timers /\ Health!Queued.queued = TRUE
  BY DEF Timers, Health!Queued
<1>4. /\ [armed |-> TRUE, queued |-> FALSE] \in Timers
      /\ [armed |-> TRUE, queued |-> FALSE].armed = TRUE
  BY DEF Timers
<1> QED BY <1>1, <1>2, <1>3, <1>4 DEF Health!Pending

LEMMA WatchStart == ASSUME Health!Init \/ Health!Start PROVE WatchInv
<1>1. PICK b : Health!StartWith(b)
  BY DEF Health!Init, Health!Start
<1>2. established = FALSE /\ inRecovery = FALSE /\ healthTimer = Health!Idle /\ recoveryTimer = Health!Idle
  BY <1>1 DEF Health!StartWith
<1>3. Health!Idle \in Timers
  BY DEF Health!Idle, Timers
<1> QED BY <1>2, <1>3 DEF WatchInv, Health!IsWatched

LEMMA WatchKept ==
  ASSUME WatchInv, UNCHANGED <<established, inRecovery, healthTimer, recoveryTimer, unwatched>>,
         link' = link \/ link' = "Degraded"
  PROVE  WatchInv'
BY DEF WatchInv, Health!IsWatched, Health!Pending

\* An endpoint is established: its timer is armed.
LEMMA WatchEstablished ==
  ASSUME WatchInv, Health!EndpointEstablished, established' \in {TRUE, FALSE} PROVE WatchInv'
<1>1. inRecovery' = FALSE /\ recoveryTimer' = Health!Cancelled(recoveryTimer)
      /\ healthTimer' = Health!Armed(healthTimer)
  BY DEF Health!EndpointEstablished
<1>2. healthTimer' \in Timers /\ recoveryTimer' \in Timers /\ Health!Pending(healthTimer')
  BY <1>1, TimersRun DEF WatchInv
<1>3. Health!Pending(healthTimer)'
  BY <1>2 DEF Health!Pending
<1> QED BY <1>1, <1>2, <1>3 DEF WatchInv, Health!IsWatched

LEMMA WatchStep == ASSUME WatchInv, Health!Next \/ UNCHANGED healthVars PROVE WatchInv'
<1>1. CASE Health!HealthTimerExpires
  <2>1. healthTimer' = Health!Queued /\ UNCHANGED <<established, inRecovery, recoveryTimer>>
    BY <1>1 DEF Health!HealthTimerExpires
  <2>2. healthTimer' \in Timers /\ Health!Pending(healthTimer)'
    BY <2>1, TimersRun DEF WatchInv, Health!Pending
  <2> QED BY <2>1, <2>2 DEF WatchInv, Health!IsWatched
<1>2. CASE Health!RecoveryTimerExpires
  <2>1. /\ recoveryTimer' = Health!Queued /\ recoveryTimer.armed
        /\ UNCHANGED <<established, inRecovery, healthTimer, link, unwatched>>
    BY <1>2 DEF Health!RecoveryTimerExpires, Health!world, Health!history
  <2>2. recoveryTimer' \in Timers /\ Health!Pending(recoveryTimer)'
    BY <2>1, TimersRun DEF WatchInv, Health!Pending
  <2>3. Health!IsWatched'
    BY <2>1, <2>2 DEF WatchInv, Health!IsWatched, Health!Pending
  <2> QED BY <2>1, <2>2, <2>3 DEF WatchInv
<1>3. CASE Health!PerformHealthCheck
  <2>1. /\ healthTimer' = [armed |-> TRUE, queued |-> FALSE]
        /\ UNCHANGED <<established, inRecovery, recoveryTimer>>
    BY <1>3 DEF Health!PerformHealthCheck
  <2>2. healthTimer' \in Timers /\ Health!Pending(healthTimer)'
    BY <2>1, TimersRun DEF WatchInv, Health!Pending
  <2> QED BY <2>1, <2>2 DEF WatchInv, Health!IsWatched
<1>4. CASE Health!RecoveryTimeout
  <2>1. /\ recoveryTimer' = [recoveryTimer EXCEPT !.queued = FALSE]
        /\ inRecovery' = (inRecovery /\ ~established)
        /\ healthTimer' = IF inRecovery THEN Health!Armed(healthTimer) ELSE healthTimer
        /\ UNCHANGED <<established, link, unwatched>>
    BY <1>4 DEF Health!RecoveryTimeout, Health!world, Health!history
  <2>2. recoveryTimer' \in Timers /\ healthTimer' \in Timers
    BY <2>1, TimersRun DEF WatchInv
  <2>3. inRecovery = TRUE => Health!Pending(healthTimer)'
    BY <2>1, TimersRun DEF WatchInv, Health!Pending
  <2>4. inRecovery = FALSE => healthTimer' = healthTimer
    BY <2>1
  <2>5. Health!IsWatched'
    BY <2>1, <2>3, <2>4 DEF WatchInv, Health!IsWatched, Health!Pending
  <2>6. inRecovery' \in {TRUE, FALSE} /\ established' \in {TRUE, FALSE}
    BY <2>1 DEF WatchInv
  <2> QED BY <2>2, <2>5, <2>6 DEF WatchInv
<1>5. CASE Health!PingFails
  <2>1. UNCHANGED <<established, link, unwatched>>
    BY <1>5 DEF Health!PingFails, Health!world
  <2>2. CASE Health!RecoverEndpoint
    <3>1. /\ inRecovery' = TRUE /\ healthTimer' = Health!Cancelled(healthTimer)
          /\ recoveryTimer' = Health!Armed(recoveryTimer)
      BY <2>2 DEF Health!RecoverEndpoint
    <3>2. healthTimer' \in Timers /\ recoveryTimer' \in Timers /\ Health!Pending(recoveryTimer)'
      BY <3>1, TimersRun DEF WatchInv, Health!Pending
    <3> QED BY <2>1, <3>1, <3>2 DEF WatchInv, Health!IsWatched
  <2>3. CASE UNCHANGED <<inRecovery, healthTimer, recoveryTimer>>
    BY <2>1, <2>3, WatchKept
  <2> QED BY <1>5, <2>2, <2>3 DEF Health!PingFails
<1>6. CASE Health!PingSucceeds
  <2>1. /\ inRecovery' = (inRecovery /\ ~established)
        /\ unwatched' = (unwatched \/ (inRecovery /\ established /\ ~Health!Pending(healthTimer)))
        /\ UNCHANGED <<established, link, healthTimer, recoveryTimer>>
    BY <1>6 DEF Health!PingSucceeds, Health!world
  <2>2. Health!IsWatched'
    BY <2>1 DEF WatchInv, Health!IsWatched, Health!Pending
  <2> QED BY <2>1, <2>2 DEF WatchInv
<1>7. CASE Health!PoolPingFails \/ Health!PoolPingSucceeds
  BY <1>7, WatchKept DEF Health!PoolPingFails, Health!PoolPingSucceeds, Health!world, Health!history
<1>8. CASE Health!Available
  <2>1. Health!EndpointEstablished /\ established' = established
    BY <1>8 DEF Health!Available
  <2> QED BY <2>1, WatchEstablished DEF WatchInv
<1>9. CASE Health!EndpointLost
  <2>1. /\ recoveryTimer' = IF inRecovery THEN recoveryTimer ELSE Health!Cancelled(recoveryTimer)
        /\ established' = FALSE /\ UNCHANGED <<inRecovery, healthTimer>>
    BY <1>9 DEF Health!EndpointLost, Health!EndpointRemoved
  <2>2. recoveryTimer' \in Timers
    BY <2>1, TimersRun DEF WatchInv
  <2> QED BY <2>1, <2>2 DEF WatchInv, Health!IsWatched
<1>10. ASSUME Health!Degraded PROVE WatchInv'
  <2>1. /\ link' = "Degraded" /\ healthTimer' = Health!Cancelled(healthTimer)
        /\ UNCHANGED <<established, inRecovery, recoveryTimer>>
    BY <1>10 DEF Health!Degraded
  <2>2. healthTimer' \in Timers
    BY <2>1, TimersRun DEF WatchInv
  <2> QED BY <2>1, <2>2 DEF WatchInv, Health!IsWatched
<1>11. CASE Health!SetupServed
  <2>1. CASE established' = TRUE /\ Health!EndpointEstablished
    BY <2>1, WatchEstablished
  <2>2. CASE Health!Unserved
    BY <2>2, WatchKept DEF Health!Unserved, Health!world, Health!history
  <2> QED BY <1>11, <2>1, <2>2 DEF Health!SetupServed
<1>12. CASE Health!RecoverServed \/ Health!RecoverPoolServed
  <2>1. CASE Health!Unserved
    BY <2>1, WatchKept DEF Health!Unserved, Health!world, Health!history
  <2> QED BY <1>10, <1>12, <2>1 DEF Health!RecoverServed, Health!RecoverPoolServed
<1>13. CASE Health!LearnServed \/ Health!DiscoveryTimeout \/ Health!Tick \/ UNCHANGED healthVars
  BY <1>13, WatchKept
     DEF Health!LearnServed, Health!DiscoveryTimeout, Health!Tick, Health!world, Health!history, healthVars
<1>14. CASE Health!Disturb
  <2>1. CASE Health!Degraded
    BY <1>10, <2>1
  <2>2. CASE UNCHANGED <<established, inRecovery, healthTimer, recoveryTimer, unwatched, link>>
    BY <2>2, WatchKept
  <2> QED BY <1>14, <2>1, <2>2 DEF Health!Disturb, Health!world, Health!history
<1>15. CASE Health!PingReply \/ Health!StrayReply
  BY <1>5, <1>6, <1>7, <1>15 DEF Health!PingReply, Health!StrayReply
<1> QED BY <1>1, <1>2, <1>3, <1>4, <1>8, <1>9, <1>11, <1>12, <1>13, <1>14, <1>15
        DEF Health!Next, Health!Serves

(* An outage is logged once: a ping is not suppressed when the next        *)
(* failure is the one that reaches the threshold, and there is one ping.   *)
OncePinged(q) == \A i, j \in DOMAIN q : q[i] = "main" /\ q[j] = "main" => i = j
LoggedOnce ==
    /\ OncePinged(pings)
    /\ logged \in {0, 1} /\ (logged = 1 => failures["main"] = PingThreshold)
    /\ Has(pings, "main") /\ suppressed = FALSE /\ established = TRUE =>
         failures["main"] = PingThreshold - 1
LogTypes ==
    /\ established \in {TRUE, FALSE} /\ inRecovery \in {TRUE, FALSE}
    /\ suppressed \in {TRUE, FALSE} /\ overtaken \in {TRUE, FALSE}
    /\ failures \in [Health!Eids -> Nat] /\ pings \in Seq(Health!Eids)
LogInv ==
    /\ LogTypes
    /\ inRecovery = TRUE /\ established = TRUE => failures["main"] = PingThreshold
    /\ overtaken = FALSE => LoggedOnce

LEMMA PingAnswered ==
  ASSUME NEW q \in Seq(Health!Eids), q # <<>>
  PROVE  /\ Tail(q) \in Seq(Health!Eids)
         /\ OncePinged(q) => OncePinged(Tail(q))
         /\ OncePinged(q) /\ Head(q) = "main" => ~Has(Tail(q), "main")
<1>1. PICK t : t = Tail(q)
  OBVIOUS
<1>2. /\ t \in Seq(Health!Eids) /\ Len(t) = Len(q) - 1 /\ Head(q) = q[1]
      /\ Len(q) \in Nat /\ Len(q) >= 1 /\ DOMAIN q = 1 .. Len(q) /\ DOMAIN t = 1 .. Len(q) - 1
      /\ \A i \in 1 .. Len(q) - 1 : t[i] = q[i + 1]
  BY <1>1, QueueShrinks
<1>3. \A i \in DOMAIN t : i \in Nat /\ i >= 1 /\ i + 1 \in DOMAIN q /\ t[i] = q[i + 1]
  BY <1>2
<1>4. ASSUME OncePinged(q), NEW i \in DOMAIN t, NEW j \in DOMAIN t, t[i] = "main", t[j] = "main"
      PROVE  i = j
  <2>1. i + 1 = j + 1
    BY <1>3, <1>4 DEF OncePinged
  <2> QED BY <1>3, <2>1
<1>5. ASSUME OncePinged(q), Head(q) = "main", NEW i \in DOMAIN t, t[i] = "main" PROVE FALSE
  <2>1. i + 1 = 1
    BY <1>2, <1>3, <1>5 DEF OncePinged
  <2> QED BY <1>3, <2>1
<1> QED BY <1>1, <1>2, <1>4, <1>5 DEF OncePinged, Has

LEMMA PingsSent ==
  ASSUME NEW q \in Seq(Health!Eids), NEW p \in {<<"main">>, <<"main", "pool">>}
  PROVE  /\ q \o p \in Seq(Health!Eids)
         /\ ~Has(q, "main") => OncePinged(q \o p)
<1>1. PICK t : t = q \o p
  OBVIOUS
<1>2. /\ p \in Seq(Health!Eids) /\ p[1] = "main" /\ Len(p) \in {1, 2}
      /\ \A k \in DOMAIN p : p[k] = "main" => k = 1
  <2>1. CASE p = <<"main">>
    BY <2>1 DEF Health!Eids
  <2>2. CASE p = <<"main", "pool">>
    BY <2>2 DEF Health!Eids
  <2> QED BY <2>1, <2>2
<1>3. /\ t \in Seq(Health!Eids) /\ Len(t) = Len(q) + Len(p) /\ Len(q) \in Nat
      /\ DOMAIN t = 1 .. Len(q) + Len(p) /\ DOMAIN q = 1 .. Len(q) /\ DOMAIN p = 1 .. Len(p)
  BY <1>1, <1>2
<1>4. \A i \in DOMAIN t : IF i <= Len(q) THEN t[i] = q[i] ELSE t[i] = p[i - Len(q)]
  BY <1>1, <1>2, <1>3
<1>5. ASSUME ~Has(q, "main"), NEW i \in DOMAIN t, t[i] = "main" PROVE i = Len(q) + 1
  <2>1. ~(i <= Len(q))
    BY <1>3, <1>4, <1>5 DEF Has
  <2>2. PICK k \in DOMAIN p : k = i - Len(q)
    BY <1>2, <1>3, <2>1
  <2>3. k = 1
    BY <1>2, <1>4, <1>5, <2>1, <2>2
  <2> QED BY <1>3, <2>2, <2>3
<1> QED BY <1>1, <1>3, <1>5 DEF OncePinged

LEMMA LogStart == ASSUME Health!Init \/ Health!Start PROVE LogInv
<1>1. PICK b : Health!StartWith(b)
  BY DEF Health!Init, Health!Start
<1>2. /\ established = FALSE /\ inRecovery = FALSE /\ suppressed = FALSE /\ overtaken = FALSE
      /\ failures = [e \in Health!Eids |-> 0] /\ pings = <<>> /\ logged = 0
  BY <1>1 DEF Health!StartWith
<1>3. pings \in Seq(Health!Eids) /\ OncePinged(pings) /\ failures \in [Health!Eids -> Nat]
  BY <1>2 DEF OncePinged
<1>4. LogTypes
  BY <1>2, <1>3 DEF LogTypes
<1>5. ~Has(pings, "main") /\ logged \in {0, 1} /\ logged # 1
  BY <1>2 DEF Has
<1> QED BY <1>2, <1>3, <1>4, <1>5 DEF LogInv, LoggedOnce

LEMMA LogKept ==
  ASSUME LogInv, UNCHANGED <<inRecovery, suppressed, overtaken, pings, logged>>,
         established' \in {established, FALSE},
         failures' = failures \/ failures' = [failures EXCEPT !["pool"] = 0]
  PROVE  LogInv'
<1>1. failures' \in [Health!Eids -> Nat] /\ failures'["main"] = failures["main"]
  BY DEF LogInv, LogTypes, Health!Eids
<1> QED BY <1>1 DEF LogInv, LogTypes, LoggedOnce, Has, OncePinged

LEMMA LogEstablished ==
  ASSUME LogInv, Health!EndpointEstablished, established' \in {TRUE, FALSE},
         UNCHANGED <<pings, suppressed>>
  PROVE  LogInv'
<1>1. /\ inRecovery' = FALSE /\ failures' = [failures EXCEPT !["main"] = 0] /\ logged' = 0
      /\ overtaken' = Has(pings, "main")
  BY DEF Health!EndpointEstablished, Health!PingUnderWay, Has
<1>2. LogTypes'
  <2>1. failures' \in [Health!Eids -> Nat]
    BY <1>1 DEF LogInv, LogTypes
  <2>2. overtaken' \in {TRUE, FALSE}
    BY <1>1, Zenon DEF Has
  <2> QED BY <1>1, <2>1, <2>2 DEF LogInv, LogTypes
<1>3. overtaken' = FALSE => OncePinged(pings') /\ ~Has(pings', "main")
  BY <1>1 DEF Has, OncePinged
<1>4. logged' \in {0, 1} /\ logged' # 1
  BY <1>1
<1> QED BY <1>1, <1>2, <1>3, <1>4 DEF LogInv, LoggedOnce

LEMMA Threshold == PingThreshold \in Nat /\ PingThreshold - 1 \in Nat /\ PingThreshold - 1 # PingThreshold
BY DaemonsAssumption DEF Health!HealthAssumption

LEMMA LogPingFails == ASSUME LogInv, Health!PingFails PROVE LogInv'
<1> DEFINE f == failures["main"]
<1>1. LogTypes /\ f \in Nat
  BY DEF LogInv, LogTypes, Health!Eids
<1>2. /\ pings # <<>> /\ Head(pings) = "main" /\ pings' = Tail(pings)
      /\ UNCHANGED <<established, overtaken>>
      /\ failures' = IF inRecovery \/ ~established THEN failures
                     ELSE [failures EXCEPT !["main"] = Health!AtLeast(@)]
      /\ logged' = Health!TransportErrors
  BY DEF Health!PingFails, Health!Answered
<1>3. PICK n \in Nat : n = Health!AtLeast(f) /\ (f = PingThreshold - 1 => n = PingThreshold)
                                             /\ (f = PingThreshold => n = PingThreshold)
  BY <1>1, Threshold DEF Health!AtLeast
<1>4. /\ failures' \in [Health!Eids -> Nat]
      /\ inRecovery = TRUE \/ established = FALSE => failures' = failures
      /\ inRecovery = FALSE /\ established = TRUE => failures'["main"] = n
      /\ failures'["main"] \in {f, n}
  BY <1>1, <1>2, <1>3 DEF LogTypes, Health!Eids
<1>5. \/ inRecovery' = TRUE /\ suppressed' = TRUE /\ failures'["main"] = PingThreshold
      \/ UNCHANGED <<inRecovery, suppressed>>
  BY DEF Health!PingFails, Health!RecoverEndpoint
<1>6. inRecovery' = TRUE /\ established' = TRUE => failures'["main"] = PingThreshold
  BY <1>2, <1>4, <1>5 DEF LogInv
<1>7. pings' \in Seq(Health!Eids)
  BY <1>1, <1>2, PingAnswered DEF LogTypes
<1>8. ASSUME overtaken' = FALSE PROVE LoggedOnce'
  <2>1. LoggedOnce
    BY <1>2, <1>8 DEF LogInv
  <2>2. OncePinged(pings') /\ ~Has(pings', "main") /\ Has(pings, "main")
    BY <1>1, <1>2, <2>1, PingAnswered, HasTail DEF LoggedOnce, LogTypes
  <2>3. CASE suppressed = FALSE /\ established = TRUE
    <3>1. f = PingThreshold - 1 /\ inRecovery = FALSE
      BY <1>1, <2>1, <2>2, <2>3, Threshold DEF LoggedOnce, LogInv, LogTypes
    <3>2. logged = 0 /\ failures'["main"] = PingThreshold
      BY <1>3, <1>4, <2>1, <2>3, <3>1, Threshold DEF LoggedOnce
    <3>3. logged' = 1
      BY <1>2, <2>3, <3>2 DEF Health!TransportErrors
    <3> QED BY <2>2, <3>2, <3>3 DEF LoggedOnce
  <2>4. CASE suppressed = TRUE \/ established = FALSE
    <3>1. logged' = logged
      BY <1>2, <2>4 DEF Health!TransportErrors
    <3>2. logged' = 1 => failures'["main"] = PingThreshold
      BY <1>3, <1>4, <2>1, <3>1 DEF LoggedOnce
    <3> QED BY <2>1, <2>2, <3>1, <3>2 DEF LoggedOnce
  <2> QED BY <1>1, <2>3, <2>4 DEF LogTypes
<1>9. LogTypes'
  BY <1>1, <1>2, <1>4, <1>5, <1>7 DEF LogTypes
<1> QED BY <1>6, <1>8, <1>9 DEF LogInv

LEMMA LogPingSucceeds == ASSUME LogInv, Health!PingSucceeds PROVE LogInv'
<1>1. /\ pings # <<>> /\ Head(pings) = "main" /\ pings' = Tail(pings)
      /\ UNCHANGED <<established, overtaken>> /\ suppressed' = FALSE /\ logged' = 0
      /\ failures' = [failures EXCEPT !["main"] = 0]
      /\ inRecovery' = (inRecovery /\ ~established)
  BY DEF Health!PingSucceeds, Health!Answered
<1>2. LogTypes'
  <2>1. failures' \in [Health!Eids -> Nat]
    BY <1>1 DEF LogInv, LogTypes
  <2>2. pings' \in Seq(Health!Eids)
    BY <1>1, PingAnswered DEF LogInv, LogTypes
  <2>3. inRecovery' \in {TRUE, FALSE}
    BY <1>1, Zenon
  <2> QED BY <1>1, <2>1, <2>2, <2>3 DEF LogInv, LogTypes
<1>3. ~(inRecovery' = TRUE /\ established' = TRUE)
  BY <1>1
<1>4. overtaken' = FALSE => OncePinged(pings') /\ ~Has(pings', "main")
  BY <1>1, PingAnswered DEF LogInv, LogTypes, LoggedOnce
<1>5. logged' \in {0, 1} /\ logged' # 1
  BY <1>1
<1> QED BY <1>2, <1>3, <1>4, <1>5 DEF LogInv, LoggedOnce

LEMMA LogPoolAnswers ==
  ASSUME LogInv, Health!PoolPingFails \/ Health!PoolPingSucceeds PROVE LogInv'
<1>1. /\ pings # <<>> /\ pings' = Tail(pings)
      /\ UNCHANGED <<established, inRecovery, suppressed, overtaken, logged>>
  BY DEF Health!PoolPingFails, Health!PoolPingSucceeds, Health!Answered, Health!history
<1>2. \A n \in Nat : Health!AtLeast(n) \in Nat
  BY DEF Health!AtLeast
<1>3. failures' \in [Health!Eids -> Nat] /\ failures'["main"] = failures["main"]
  <2>1. failures \in [Health!Eids -> Nat] /\ failures["pool"] \in Nat
    BY DEF LogInv, LogTypes, Health!Eids
  <2>2. \/ failures' = failures
        \/ failures' = [failures EXCEPT !["pool"] = Health!AtLeast(failures["pool"])]
        \/ failures' = [failures EXCEPT !["pool"] = 0]
    BY DEF Health!PoolPingFails, Health!PoolPingSucceeds
  <2> QED BY <1>2, <2>1, <2>2 DEF Health!Eids
<1>4. /\ pings' \in Seq(Health!Eids) /\ (OncePinged(pings) => OncePinged(pings'))
      /\ Has(pings', "main") => Has(pings, "main")
  BY <1>1, PingAnswered, HasTail DEF LogInv, LogTypes
<1>5. LogTypes'
  BY <1>1, <1>3, <1>4 DEF LogInv, LogTypes
<1>6. overtaken' = FALSE => LoggedOnce'
  BY <1>1, <1>3, <1>4 DEF LogInv, LoggedOnce
<1> QED BY <1>1, <1>3, <1>5, <1>6 DEF LogInv

LEMMA LogPings == ASSUME LogInv, Health!PerformHealthCheck PROVE LogInv'
<1>1. /\ suppressed' = ~Health!Counts(failures["main"]) /\ pings' = pings \o Health!Pinged
      /\ overtaken' = (overtaken \/ Has(pings, "main"))
      /\ UNCHANGED <<established, inRecovery, failures, logged>>
  BY DEF Health!PerformHealthCheck, Health!PingUnderWay, Has
<1>2. Health!Pinged \in {<<"main">>, <<"main", "pool">>}
  BY DEF Health!Pinged
<1>3. pings' \in Seq(Health!Eids) /\ (~Has(pings, "main") => OncePinged(pings'))
  BY <1>1, <1>2, PingsSent DEF LogInv, LogTypes
<1>4. LogTypes'
  <2>1. suppressed' \in {TRUE, FALSE} /\ overtaken' \in {TRUE, FALSE}
    BY <1>1, Zenon DEF Health!Counts
  <2> QED BY <1>1, <1>3, <2>1 DEF LogInv, LogTypes
<1>5. suppressed' = FALSE => failures["main"] = PingThreshold - 1
  BY <1>1 DEF Health!Counts
<1>6. overtaken' = FALSE => overtaken = FALSE /\ ~Has(pings, "main")
  BY <1>1 DEF LogInv, LogTypes
<1>7. overtaken' = FALSE => LoggedOnce'
  BY <1>1, <1>3, <1>5, <1>6 DEF LogInv, LoggedOnce
<1> QED BY <1>1, <1>4, <1>7 DEF LogInv

LEMMA LogStep == ASSUME LogInv, Health!Next \/ UNCHANGED healthVars PROVE LogInv'
<1>1. CASE Health!RecoveryTimeout
  <2>1. /\ UNCHANGED <<established, suppressed, overtaken, failures, pings, logged>>
        /\ inRecovery' = (inRecovery /\ ~established)
    BY <1>1 DEF Health!RecoveryTimeout, Health!history
  <2>2. inRecovery' \in {TRUE, FALSE} /\ ~(inRecovery' = TRUE /\ established' = TRUE)
    BY <2>1, Zenon
  <2>3. LogTypes' /\ (LoggedOnce => LoggedOnce')
    BY <2>1, <2>2 DEF LogInv, LogTypes, LoggedOnce, Has, OncePinged
  <2> QED BY <2>1, <2>2, <2>3 DEF LogInv
<1>2. CASE Health!PingReply \/ Health!StrayReply
  BY <1>2, LogPingFails, LogPingSucceeds, LogPoolAnswers DEF Health!PingReply, Health!StrayReply
<1>3. CASE Health!Available
  <2>1. Health!EndpointEstablished /\ UNCHANGED <<pings, suppressed>> /\ established' = established
    BY <1>3 DEF Health!Available
  <2> QED BY <2>1, LogEstablished DEF LogInv, LogTypes
<1>4. CASE Health!EndpointLost
  BY <1>4, LogKept DEF Health!EndpointLost, Health!EndpointRemoved, Health!history
<1>5. CASE Health!SetupServed
  <2>1. CASE established' = TRUE /\ Health!EndpointEstablished /\ UNCHANGED <<pings, suppressed>>
    BY <2>1, LogEstablished
  <2>2. CASE Health!Unserved
    BY <2>2, LogKept DEF Health!Unserved, Health!history
  <2> QED BY <1>5, <2>1, <2>2 DEF Health!SetupServed
<1>6. CASE Health!RecoverServed \/ Health!RecoverPoolServed
  <2>1. CASE Health!Unserved
    BY <2>1, LogKept DEF Health!Unserved, Health!history
  <2>2. CASE Health!Degraded
    BY <2>2, LogKept DEF Health!Degraded, Health!history
  <2> QED BY <1>6, <2>1, <2>2 DEF Health!RecoverServed, Health!RecoverPoolServed
<1>7. CASE \/ Health!LearnServed \/ Health!DiscoveryTimeout \/ Health!Tick \/ UNCHANGED healthVars
           \/ Health!HealthTimerExpires \/ Health!RecoveryTimerExpires
  BY <1>7, LogKept
     DEF Health!LearnServed, Health!DiscoveryTimeout, Health!Tick, Health!history, healthVars,
         Health!HealthTimerExpires, Health!RecoveryTimerExpires
<1>8. CASE Health!Disturb
  <2>1. CASE Health!Degraded
    BY <2>1, LogKept DEF Health!Degraded, Health!history
  <2>2. CASE UNCHANGED <<established, inRecovery, suppressed, overtaken, failures, pings, logged>>
    BY <2>2, LogKept
  <2> QED BY <1>8, <2>1, <2>2 DEF Health!Disturb, Health!history
<1> QED BY <1>1, <1>2, <1>3, <1>4, <1>5, <1>6, <1>7, <1>8, LogPings
        DEF Health!Next, Health!Serves

LEMMA HealthGoesOn == ASSUME WatchInv, LogInv PROVE Health!IsWatched /\ Health!OneLog
<1>1. overtaken = FALSE => logged < 2
  BY DEF LogInv, LoggedOnce
<1> QED BY <1>1 DEF WatchInv, LogInv, LogTypes, Health!OneLog

-----------------------------------------------------------------------------
(* Heartbeats: while the process runs, an answer to "enable" is one of an  *)
(* ERoT that expects heartbeats, and run() is sent again by the signal of  *)
(* one that is new.  Once it ends, an answer to "restart" is one of an     *)
(* ERoT that starts, and nothing is sent that makes it expect heartbeats.  *)
Calls == [name : Heart!Commands, attempt : 1 .. MaxAttempts]
Replies == Heart!Commands \cup {"old"}
HasReply(c) == Has(socket, c) \/ Has(late, c)
Greets == startup = TRUE /\ doing # <<>> /\ Head(doing).name \in {"boot", "enable"}

\* No endpoint was met yet, nor is known to be missed.
Fresh == looking = TRUE /\ service = FALSE
AddedLast == endpointSignals # <<>> => endpointSignals[Len(endpointSignals)] = "added"
RunShape ==
    \/ doing = <<>> /\ startup = FALSE
    \/ \E d \in Calls : /\ doing = <<d>> /\ d.name \in {"boot", "enable", "beat"}
                        /\ startup = TRUE \/ d.name = "beat"
RunInv ==
    /\ endpointSignals \in Seq({"added", "removed"})
    /\ socket \in Seq(Replies) /\ late \in Seq(Replies)
    /\ erot # "absent" => AddedLast
    /\ RunShape
    /\ ~HasReply("restart") /\ (HasReply("enable") => erot = "expecting")
    /\ erot # "absent" /\ endpointSignals = <<>> /\ ~Greets =>
         erot = "expecting" \/ mistaken \/ gaveUp \/ Fresh
EndShape ==
    /\ startup = FALSE
    /\ \/ doing = <<>>
       \/ \E d \in Calls : doing = <<d>> /\ d.name \in {"beat", "restart"}
       \/ \E d, b \in Calls : doing = <<d, b>> /\ d.name = "restart" /\ b.name = "beat"
EndInv ==
    /\ socket \in Seq(Replies) /\ late \in Seq(Replies)
    /\ EndShape
    /\ HasReply("restart") => erot = "started"
    /\ doing = <<>> \/ Head(doing).name = "beat" => erot # "expecting" \/ untold \/ mistaken
HeartInv ==
    /\ running \in {TRUE, FALSE} /\ startup \in {TRUE, FALSE}
    /\ service \in {TRUE, FALSE} /\ interrupted \in {TRUE, FALSE}
    /\ running = TRUE => RunInv
    /\ running = FALSE /\ service = TRUE /\ interrupted = FALSE => EndInv

\* Without a service there are no heartbeats.
QuietInv ==
    /\ service \in {TRUE, FALSE}
    /\ service = FALSE => beatTimer = [armed |-> FALSE, queued |-> FALSE] /\ doing = <<>>

LEMMA HeartStart == ASSUME Heart!Init \/ Heart!Start PROVE HeartInv /\ QuietInv
<1>1. PICK found \in {"absent", "started", "expecting"} : Heart!StartWith(found)
  BY DEF Heart!Init, Heart!Start
<1>2. /\ endpointSignals = <<>> /\ socket = <<>> /\ late = <<>> /\ doing = <<>> /\ startup = FALSE
      /\ running = TRUE /\ looking = TRUE /\ service = FALSE /\ interrupted = FALSE
      /\ beatTimer = [armed |-> FALSE, queued |-> FALSE]
  BY <1>1 DEF Heart!StartWith
<1>3. /\ endpointSignals \in Seq({"added", "removed"})
      /\ socket \in Seq(Replies) /\ late \in Seq(Replies)
  BY <1>2
<1>4. ~HasReply("restart") /\ ~HasReply("enable")
  BY <1>2 DEF HasReply, Has
<1>5. RunInv
  BY <1>2, <1>3, <1>4 DEF RunInv, RunShape, AddedLast, Fresh
<1> QED BY <1>2, <1>5 DEF HeartInv, QuietInv

LEMMA QuietStep == ASSUME QuietInv, Heart!Next \/ UNCHANGED beatVars PROVE QuietInv'
<1>1. CASE Heart!Attempt
  BY <1>1 DEF QuietInv, Heart!Attempt, Heart!Idle
<1>2. CASE Heart!LateAnswer \/ Heart!CheckExisting \/ Heart!EndpointChanges \/ UNCHANGED beatVars
  BY <1>2 DEF QuietInv, Heart!LateAnswer, Heart!CheckExisting, Heart!EndpointChanges, Heart!ended,
              beatVars, Heart!beatVars
<1>3. CASE Heart!EndpointAdded
  BY <1>3 DEF QuietInv, Heart!EndpointAdded, Heart!Run
<1> DEFINE Unarmed == [armed |-> FALSE, queued |-> FALSE]
<1>4. /\ Unarmed.armed = FALSE /\ Unarmed.queued = FALSE
      /\ [Unarmed EXCEPT !.armed = FALSE] = Unarmed
  <2>1. Unarmed \in [armed : {FALSE}, queued : {FALSE}]
    OBVIOUS
  <2>2. ASSUME NEW u \in [armed : {FALSE}, queued : {FALSE}]
        PROVE  u.armed = FALSE /\ u.queued = FALSE /\ [u EXCEPT !.armed = FALSE] = u
    OBVIOUS
  <2> HIDE DEF Unarmed
  <2> QED BY <2>1, <2>2
<1>5. CASE Heart!EndpointRemoved
  <2>1. UNCHANGED <<service, doing>> /\ beatTimer' = [beatTimer EXCEPT !.armed = FALSE]
    BY <1>5 DEF Heart!EndpointRemoved, Heart!ended
  <2>2. CASE service = FALSE
    BY <1>4, <2>1, <2>2 DEF QuietInv
  <2> QED BY <2>1, <2>2 DEF QuietInv
<1>6. CASE Heart!TimerExpires \/ Heart!Beat
  <2>1. UNCHANGED service /\ (beatTimer.armed \/ beatTimer.queued)
    BY <1>6 DEF Heart!TimerExpires, Heart!Beat, Heart!ended
  <2>2. service # FALSE
    BY <1>4, <2>1 DEF QuietInv
  <2> QED BY <2>1, <2>2 DEF QuietInv
<1>7. CASE Heart!Terminate
  <2>1. /\ UNCHANGED service /\ beatTimer' = [beatTimer EXCEPT !.armed = FALSE]
        /\ doing' = IF service THEN <<Heart!First("restart")>> \o doing ELSE doing
    BY <1>7 DEF Heart!Terminate
  <2>2. CASE service = FALSE
    BY <1>4, <2>1, <2>2 DEF QuietInv
  <2> QED BY <2>1, <2>2 DEF QuietInv
<1> QED BY <1>1, <1>2, <1>3, <1>5, <1>6, <1>7 DEF Heart!Next, Heart!Proceeds, Heart!Signals

LEMMA FirstCall ==
  \A c \in Heart!Commands : Heart!First(c) \in Calls /\ Heart!First(c).name = c
BY DaemonsAssumption DEF Heart!First, Calls, Heart!HeartbeatAssumption

\* An attempt to send the command d: what it leaves of the answers, and how it ends.
LEMMA Attempted ==
  ASSUME Heart!Attempt, NEW d \in Calls, Head(doing) = d,
         socket \in Seq(Replies), late \in Seq(Replies)
  PROVE  LET c == d.name
             told == erot # "absent" /\ erot' = Heart!Told(c)
         IN  /\ socket' \in Seq(Replies) /\ late' \in Seq(Replies)
             /\ \A y : HasReply(y)' => HasReply(y) \/ (y = c /\ told)
             /\ erot' = erot \/ told
             /\ mistaken => mistaken'
             /\ \/ Heart!Completed(c, TRUE) /\ (mistaken' \/ HasReply(c) \/ told)
                \/ Heart!Completed(c, FALSE)
                \/ \E e \in Calls : /\ e.name = c /\ doing' = <<e>> \o Tail(doing)
                                    /\ UNCHANGED <<startup, beatTimer, gaveUp, untold>>
             /\ UNCHANGED <<endpointSignals, looking, running, service, interrupted>>
<1> DEFINE c == d.name
           told == erot # "absent" /\ erot' = Heart!Told(c)
<1>1. c \in Replies
  BY DEF Calls, Replies
<1>2. PICK fate \in {"answered", "late", "lost", "unsent"} :
        LET answers == IF fate = "answered" THEN Append(socket, c) ELSE socket
        IN
         /\ fate \in {"lost", "unsent"} \/ erot # "absent"
         /\ erot' = IF fate \in {"answered", "late"} THEN Heart!Told(c) ELSE erot
         /\ late' = IF fate = "late" THEN Append(late, c) ELSE late
         /\ IF answers # <<>> /\ fate # "unsent"
              THEN /\ socket' = Tail(answers)
                   /\ mistaken' = (mistaken \/ Head(answers) # c)
                   /\ Heart!Completed(c, TRUE)
              ELSE /\ socket' = answers /\ UNCHANGED mistaken
                   /\ \/ /\ d.attempt < MaxAttempts
                         /\ doing' = <<[d EXCEPT !.attempt = @ + 1]>> \o Tail(doing)
                         /\ UNCHANGED <<startup, beatTimer, gaveUp, untold>>
                      \/ /\ d.attempt = MaxAttempts
                         /\ Heart!Completed(c, FALSE)
  BY DEF Heart!Attempt
<1>3. PICK q : q = IF fate = "answered" THEN Append(socket, c) ELSE socket
  OBVIOUS
<1>4. /\ q \in Seq(Replies)
      /\ \A y : Has(q, y) => Has(socket, y) \/ (fate = "answered" /\ y = c)
  BY <1>1, <1>3, QueueGrows, HasAppended
<1>5. /\ late' \in Seq(Replies)
      /\ \A y : Has(late', y) => Has(late, y) \/ (fate = "late" /\ y = c)
  BY <1>1, <1>2, QueueGrows, HasAppended
<1>6. /\ socket' \in Seq(Replies)
      /\ \A y : Has(socket', y) => Has(q, y)
      /\ q # <<>> => Has(q, Head(q))
  BY <1>2, <1>3, <1>4, QueueShrinks, HasTail, Zenon
<1>7. (erot' = erot \/ told) /\ (fate \in {"answered", "late"} => told)
  BY <1>2
<1>8. \A y : HasReply(y)' => HasReply(y) \/ (y = c /\ told)
  BY <1>4, <1>5, <1>6, <1>7 DEF HasReply
<1>9. mistaken => mistaken'
  BY <1>2
<1>10. \/ Heart!Completed(c, TRUE) /\ (mistaken' \/ HasReply(c) \/ told)
       \/ Heart!Completed(c, FALSE)
       \/ \E e \in Calls : /\ e.name = c /\ doing' = <<e>> \o Tail(doing)
                           /\ UNCHANGED <<startup, beatTimer, gaveUp, untold>>
  <2>1. CASE q # <<>> /\ fate # "unsent"
    <3>1. Heart!Completed(c, TRUE) /\ mistaken' = (mistaken \/ Head(q) # c)
      BY <1>2, <1>3, <2>1
    <3>2. Head(q) = c => HasReply(c) \/ told
      BY <1>4, <1>6, <1>7, <2>1 DEF HasReply
    <3> QED BY <3>1, <3>2
  <2>2. CASE ~(q # <<>> /\ fate # "unsent")
    <3>1. CASE /\ d.attempt < MaxAttempts
               /\ doing' = <<[d EXCEPT !.attempt = @ + 1]>> \o Tail(doing)
               /\ UNCHANGED <<startup, beatTimer, gaveUp, untold>>
      <4>1. PICK e : e = [d EXCEPT !.attempt = @ + 1]
        OBVIOUS
      <4>2. e \in Calls /\ e.name = c
        BY <3>1, <4>1, DaemonsAssumption DEF Calls, Heart!HeartbeatAssumption
      <4> QED BY <3>1, <4>1, <4>2
    <3> QED BY <1>2, <1>3, <2>2, <3>1
  <2> QED BY <2>1, <2>2
<1>11. UNCHANGED <<endpointSignals, looking, running, service, interrupted>>
  BY DEF Heart!Attempt, Heart!events
<1> QED BY <1>5, <1>6, <1>7, <1>8, <1>9, <1>10, <1>11

LEMMA CallsInFront ==
  ASSUME NEW e \in Calls
  PROVE  /\ <<e>> \o <<>> = <<e>> /\ <<e>> # <<>> /\ Head(<<e>>) = e
         /\ \A b \in Calls : <<e>> \o <<b>> = <<e, b>>
<1>1. ASSUME NEW b \in Calls PROVE <<e>> \o <<b>> = <<e, b>>
  <2>1. PICK t : t = <<e>> \o <<b>>
    OBVIOUS
  <2>2. PICK u : u = <<e, b>>
    OBVIOUS
  <2>3. t \in Seq(Calls) /\ Len(t) = 2 /\ t[1] = e /\ t[2] = b
    BY <2>1
  <2>4. u \in Seq(Calls) /\ Len(u) = 2 /\ u[1] = e /\ u[2] = b
    BY <2>2
  <2>5. t \in [1 .. 2 -> Calls] /\ u \in [1 .. 2 -> Calls]
    BY <2>3, <2>4
  <2>6. \A i \in 1 .. 2 : t[i] = u[i]
    BY <2>3, <2>4
  <2>7. t = u
    BY <2>5, <2>6
  <2> QED BY <2>1, <2>2, <2>7
<1>2. <<e>> \o <<>> = <<e>>
  <2>1. Len(<<e>> \o <<>>) = 1 /\ (<<e>> \o <<>>)[1] = e
    OBVIOUS
  <2> QED BY <2>1
<1> QED BY <1>1, <1>2

LEMMA RunAttempt == ASSUME RunInv, Heart!Attempt PROVE RunInv'
<1>1. PICK d \in Calls : /\ doing = <<d>> /\ d.name \in {"boot", "enable", "beat"}
                         /\ startup = TRUE \/ d.name = "beat"
  BY DEF RunInv, RunShape, Heart!Attempt, Heart!Idle
<1> DEFINE c == d.name
           told == erot # "absent" /\ erot' = Heart!Told(c)
<1>2. Head(doing) = d /\ Tail(doing) = <<>>
  BY <1>1
<1>3. /\ socket' \in Seq(Replies) /\ late' \in Seq(Replies)
      /\ \A y : HasReply(y)' => HasReply(y) \/ (y = c /\ told)
      /\ erot' = erot \/ told
      /\ mistaken => mistaken'
      /\ UNCHANGED <<endpointSignals, looking, service>>
  BY <1>2, Attempted DEF RunInv
<1>4. \/ Heart!Completed(c, TRUE) /\ (mistaken' \/ HasReply(c) \/ told)
      \/ Heart!Completed(c, FALSE)
      \/ \E e \in Calls : /\ e.name = c /\ doing' = <<e>> \o Tail(doing)
                          /\ UNCHANGED <<startup, beatTimer, gaveUp, untold>>
  BY <1>2, Attempted DEF RunInv
<1>5. /\ erot = "expecting" => erot' = "expecting"
      /\ erot' = "absent" <=> erot = "absent"
      /\ c = "enable" /\ told => erot' = "expecting"
      /\ c = "beat" => erot' = erot
  BY <1>1, <1>3 DEF Heart!Told
<1>6. ~HasReply("restart")' /\ (HasReply("enable")' => erot' = "expecting")
  BY <1>1, <1>3, <1>5 DEF RunInv
<1>7. erot' # "absent" => AddedLast'
  BY <1>3, <1>5 DEF RunInv, AddedLast
<1> DEFINE Expects == erot' # "absent" /\ endpointSignals' = <<>> /\ ~Greets'
                        => erot' = "expecting" \/ mistaken' \/ gaveUp' \/ Fresh'
<1>8. SUFFICES RunShape' /\ Expects
  BY <1>3, <1>6, <1>7 DEF RunInv
<1>9. c = "beat" /\ erot' # "absent" /\ endpointSignals' = <<>> =>
       erot' = "expecting" \/ mistaken' \/ gaveUp \/ Fresh'
  <2>1. c = "beat" => ~Greets
    BY <1>2 DEF Greets
  <2> QED BY <1>3, <1>5, <2>1 DEF RunInv, Fresh
<1>10. ASSUME c = "boot", startup = TRUE, doing' = <<Heart!First("enable")>>, startup' = startup
       PROVE  RunShape' /\ Expects
  <2>1. PICK e \in Calls : e = Heart!First("enable") /\ e.name = "enable"
    BY FirstCall DEF Heart!Commands
  <2>2. doing' # <<>> /\ Head(doing') = e
    BY <1>10, <2>1
  <2> QED BY <1>10, <2>1, <2>2 DEF RunShape, Greets
<1>11. ASSUME c = "enable", startup = TRUE, doing' = <<Heart!First("beat")>>, startup' = startup,
              mistaken' \/ HasReply(c) \/ told
       PROVE  RunShape' /\ Expects
  <2>1. PICK e \in Calls : e = Heart!First("beat") /\ e.name = "beat"
    BY FirstCall DEF Heart!Commands
  <2>2. mistaken' \/ erot' = "expecting"
    BY <1>5, <1>11 DEF RunInv
  <2> QED BY <1>11, <2>1, <2>2 DEF RunShape
<1>12. ASSUME doing' = <<>>, startup' = FALSE, gaveUp' \/ (c = "beat" /\ gaveUp' = gaveUp)
       PROVE  RunShape' /\ Expects
  BY <1>9, <1>12 DEF RunShape
<1>13. CASE Heart!Completed(c, TRUE) /\ (mistaken' \/ HasReply(c) \/ told)
  <2>1. CASE c = "boot"
    BY <1>1, <1>10, <1>13, <2>1 DEF Heart!Completed, Heart!After
  <2>2. CASE c = "enable"
    BY <1>1, <1>11, <1>13, <2>2 DEF Heart!Completed, Heart!After
  <2>3. CASE c = "beat"
    BY <1>12, <1>13, <2>3 DEF Heart!Completed
  <2> QED BY <1>1, <2>1, <2>2, <2>3
<1>14. CASE Heart!Completed(c, FALSE)
  BY <1>1, <1>12, <1>14 DEF Heart!Completed
<1>15. ASSUME NEW e \in Calls, e.name = c, doing' = <<e>> \o Tail(doing),
              UNCHANGED <<startup, beatTimer, gaveUp, untold>>
       PROVE  RunShape' /\ Expects
  <2>1. doing' = <<e>> /\ doing' # <<>> /\ Head(doing') = e
    BY <1>2, <1>15, CallsInFront
  <2>2. RunShape'
    BY <1>1, <1>15, <2>1 DEF RunShape
  <2>3. CASE c = "beat"
    BY <1>9, <1>15, <2>2, <2>3
  <2>4. CASE c # "beat"
    <3>1. Greets'
      BY <1>1, <1>15, <2>1, <2>4 DEF Greets
    <3> QED BY <2>2, <3>1
  <2> QED BY <2>2, <2>3, <2>4
<1> QED BY <1>4, <1>13, <1>14, <1>15

LEMMA EndAttempt == ASSUME EndInv, Heart!Attempt PROVE EndInv'
<1>1. PICK d \in Calls : /\ Head(doing) = d /\ d.name \in {"beat", "restart"}
                         /\ Tail(doing) = <<>> \/ \E b \in Calls : /\ Tail(doing) = <<b>> /\ b.name = "beat"
                                                                  /\ d.name = "restart"
  <2>1. CASE \E d \in Calls : doing = <<d>> /\ d.name \in {"beat", "restart"}
    <3>1. PICK d \in Calls : doing = <<d>> /\ d.name \in {"beat", "restart"}
      BY <2>1
    <3>2. Head(doing) = d /\ Tail(doing) = <<>>
      BY <3>1
    <3> QED BY <3>1, <3>2
  <2>2. CASE \E d, b \in Calls : doing = <<d, b>> /\ d.name = "restart" /\ b.name = "beat"
    <3>1. PICK d \in Calls, b \in Calls : doing = <<d, b>> /\ d.name = "restart" /\ b.name = "beat"
      BY <2>2
    <3>2. Head(doing) = d /\ Tail(doing) = <<b>>
      BY <3>1
    <3> QED BY <3>1, <3>2
  <2> QED BY <2>1, <2>2 DEF EndInv, EndShape, Heart!Attempt, Heart!Idle
<1> DEFINE c == d.name
           told == erot # "absent" /\ erot' = Heart!Told(c)
<1>2. doing # <<>> /\ startup = FALSE
  BY DEF Heart!Attempt, Heart!Idle, EndInv, EndShape
<1>3. /\ socket' \in Seq(Replies) /\ late' \in Seq(Replies)
      /\ \A y : HasReply(y)' => HasReply(y) \/ (y = c /\ told)
      /\ erot' = erot \/ told
      /\ mistaken => mistaken'
  BY <1>1, Attempted DEF EndInv
<1>4. \/ Heart!Completed(c, TRUE) /\ (mistaken' \/ HasReply(c) \/ told)
      \/ Heart!Completed(c, FALSE)
      \/ \E e \in Calls : /\ e.name = c /\ doing' = <<e>> \o Tail(doing)
                          /\ UNCHANGED <<startup, beatTimer, gaveUp, untold>>
  BY <1>1, Attempted DEF EndInv
<1>5. /\ erot = "started" => erot' = "started"
      /\ erot # "expecting" => erot' # "expecting"
      /\ c = "restart" /\ told => erot' = "started"
      /\ c = "beat" => erot' = erot
  BY <1>1, <1>3 DEF Heart!Told
<1>6. HasReply("restart")' => erot' = "started"
  BY <1>1, <1>3, <1>5 DEF EndInv
<1> DEFINE Told == doing' = <<>> \/ Head(doing').name = "beat" => erot' # "expecting" \/ untold' \/ mistaken'
<1>7. SUFFICES EndShape' /\ Told
  BY <1>3, <1>6 DEF EndInv
<1>8. c = "beat" => erot' # "expecting" \/ untold \/ mistaken'
  BY <1>1, <1>3, <1>5 DEF EndInv
<1>9. c = "beat" => Tail(doing) = <<>>
  BY <1>1
<1>10. ASSUME c = "restart", doing' = Tail(doing), startup' = startup,
              untold' \/ mistaken' \/ HasReply(c) \/ told
       PROVE  EndShape' /\ Told
  <2>1. EndShape'
    BY <1>1, <1>2, <1>10 DEF EndShape
  <2>2. untold' \/ mistaken' \/ erot' = "started"
    BY <1>5, <1>10 DEF EndInv
  <2> QED BY <2>1, <2>2
<1>11. ASSUME c = "beat", doing' = <<>>, startup' = FALSE, untold' = untold
       PROVE  EndShape' /\ Told
  BY <1>8, <1>11 DEF EndShape
<1>12. CASE Heart!Completed(c, TRUE) /\ (mistaken' \/ HasReply(c) \/ told)
  BY <1>1, <1>2, <1>10, <1>11, <1>12 DEF Heart!Completed
<1>13. CASE Heart!Completed(c, FALSE)
  BY <1>1, <1>2, <1>10, <1>11, <1>13 DEF Heart!Completed
<1>14. ASSUME NEW e \in Calls, e.name = c, doing' = <<e>> \o Tail(doing),
              UNCHANGED <<startup, beatTimer, gaveUp, untold>>
       PROVE  EndShape' /\ Told
  <2>1. doing' # <<>> /\ Head(doing') = e
    BY <1>1, <1>14
  <2>2. Told
    BY <1>8, <1>14, <2>1
  <2>3. CASE Tail(doing) = <<>>
    <3>1. doing' = <<e>>
      BY <1>14, <2>3, CallsInFront
    <3> QED BY <1>1, <1>2, <1>14, <2>2, <3>1 DEF EndShape
  <2>4. ASSUME NEW b \in Calls, Tail(doing) = <<b>>, b.name = "beat", c = "restart" PROVE EndShape'
    <3>1. doing' = <<e, b>>
      BY <1>14, <2>4, CallsInFront
    <3> QED BY <1>2, <1>14, <2>4, <3>1 DEF EndShape
  <2> QED BY <1>1, <2>2, <2>3, <2>4
<1> QED BY <1>4, <1>12, <1>13, <1>14

LEMMA LastKept ==
  ASSUME NEW S, NEW q \in Seq(S), q # <<>>
  PROVE  /\ Tail(q) # <<>> => Tail(q)[Len(Tail(q))] = q[Len(q)]
         /\ Tail(q) = <<>> => Head(q) = q[Len(q)]
<1>1. PICK r : r = Tail(q)
  OBVIOUS
<1>2. /\ r \in Seq(S) /\ Len(r) = Len(q) - 1 /\ Len(q) \in Nat /\ Len(q) >= 1 /\ Head(q) = q[1]
      /\ \A i \in 1 .. Len(q) - 1 : r[i] = q[i + 1]
  BY <1>1, QueueShrinks
<1>3. ASSUME r # <<>> PROVE r[Len(r)] = q[Len(q)]
  <2>1. Len(r) \in 1 .. Len(q) - 1
    BY <1>2, <1>3
  <2>2. r[Len(r)] = q[Len(r) + 1]
    BY <1>2, <2>1
  <2> QED BY <1>2, <2>2
<1>4. ASSUME r = <<>> PROVE Head(q) = q[Len(q)]
  BY <1>2, <1>4
<1> QED BY <1>1, <1>3, <1>4

LEMMA OutdatedAnswers ==
  ASSUME NEW q \in Seq(Replies)
  PROVE  /\ Heart!Outdated(q) \in Seq(Replies)
         /\ \A y : Has(Heart!Outdated(q), y) => y = "old"
<1>1. PICK r : r = [i \in 1 .. Len(q) |-> "old"]
  OBVIOUS
<1>2. DOMAIN q = 1 .. Len(q) /\ Len(q) \in Nat
  OBVIOUS
<1>3. r = Heart!Outdated(q)
  BY <1>1, <1>2 DEF Heart!Outdated
<1>4. r \in Seq(Replies)
  BY <1>1, <1>2 DEF Replies
<1>5. \A y : Has(r, y) => y = "old"
  BY <1>1 DEF Has
<1> QED BY <1>3, <1>4, <1>5

LEMMA HeartKept ==
  ASSUME HeartInv,
         UNCHANGED <<erot, endpointSignals, looking, doing, startup, socket, late, running, service,
                     mistaken, gaveUp, interrupted, untold>>
  PROVE  HeartInv'
<1>1. RunInv => RunInv'
  BY DEF RunInv, RunShape, HasReply, AddedLast, Greets, Fresh
<1>2. EndInv => EndInv'
  BY DEF EndInv, EndShape, HasReply
<1> QED BY <1>1, <1>2 DEF HeartInv

LEMMA HeartAttempts == ASSUME HeartInv, Heart!Attempt PROVE HeartInv'
<1>1. running' = running /\ service' = service /\ interrupted' = interrupted
  BY DEF Heart!Attempt
<1>2. startup' \in {startup, FALSE}
  <2>1. ASSUME NEW c, Heart!Completed(c, TRUE) \/ Heart!Completed(c, FALSE)
        PROVE  startup' = startup \/ startup' = FALSE
    <3>1. CASE Heart!Completed(c, TRUE)
      BY <3>1 DEF Heart!Completed
    <3>2. CASE Heart!Completed(c, FALSE)
      BY <3>2 DEF Heart!Completed
    <3> QED BY <2>1, <3>1, <3>2
  <2>2. PICK c : c = Head(doing).name
    OBVIOUS
  <2>3. Heart!Completed(c, TRUE) \/ Heart!Completed(c, FALSE) \/ startup' = startup
    BY <2>2 DEF Heart!Attempt
  <2> QED BY <2>1, <2>3
<1>3. RunInv => RunInv'
  BY RunAttempt
<1>4. EndInv => EndInv'
  BY EndAttempt
<1> QED BY <1>1, <1>2, <1>3, <1>4 DEF HeartInv

LEMMA HeartLate == ASSUME HeartInv, Heart!LateAnswer PROVE HeartInv'
<1>1. /\ late # <<>> /\ late' = Tail(late)
      /\ socket' = Append(socket, Head(late)) \/ socket' = socket
      /\ UNCHANGED <<erot, endpointSignals, looking, doing, startup, running, service,
                     mistaken, gaveUp, interrupted, untold>>
  BY DEF Heart!LateAnswer, Heart!events, Heart!ended, Heart!histories
<1>2. ASSUME socket \in Seq(Replies), late \in Seq(Replies)
      PROVE  /\ socket' \in Seq(Replies) /\ late' \in Seq(Replies)
             /\ \A y : HasReply(y)' => HasReply(y)
  <2>1. Head(late) \in Replies /\ late' \in Seq(Replies)
    BY <1>1, <1>2, QueueShrinks
  <2>2. /\ \A y : Has(late', y) => Has(late, y)
        /\ Has(late, Head(late))
    BY <1>1, <1>2, HasTail
  <2>3. PICK q : q = Append(socket, Head(late))
    OBVIOUS
  <2>4. q \in Seq(Replies) /\ \A y : Has(q, y) => Has(socket, y) \/ y = Head(late)
    BY <1>2, <2>1, <2>3, QueueGrows, HasAppended
  <2>5. socket' = q \/ socket' = socket
    BY <1>1, <2>3
  <2>6. socket' \in Seq(Replies) /\ \A y : Has(socket', y) => Has(socket, y) \/ y = Head(late)
    BY <1>2, <2>4, <2>5
  <2> QED BY <2>1, <2>2, <2>6 DEF HasReply
<1>3. RunInv => RunInv'
  BY <1>1, <1>2 DEF RunInv, RunShape, AddedLast, Greets, Fresh
<1>4. EndInv => EndInv'
  BY <1>1, <1>2 DEF EndInv, EndShape
<1> QED BY <1>1, <1>3, <1>4 DEF HeartInv

\* The event loop: run() and stop() of the signals, and the timer's beat.
LEMMA HeartLoops ==
  ASSUME HeartInv, Heart!EndpointAdded \/ Heart!EndpointRemoved \/ Heart!Beat PROVE HeartInv'
<1>1. running = TRUE /\ doing = <<>> /\ startup = FALSE /\ RunInv
  <2>1. running = TRUE /\ doing = <<>>
    BY DEF HeartInv, Heart!EndpointAdded, Heart!EndpointRemoved, Heart!Beat, Heart!Loop, Heart!Idle
  <2> QED BY <2>1 DEF HeartInv, RunInv, RunShape
<1>2. SUFFICES running' = running /\ startup' \in {TRUE, FALSE} /\ RunInv'
  <2>1. service' \in {service, TRUE} /\ interrupted' = interrupted
    BY DEF Heart!EndpointAdded, Heart!Run, Heart!EndpointRemoved, Heart!Beat, Heart!ended
  <2> QED BY <1>1, <2>1 DEF HeartInv
<1>3. ASSUME socket' = socket, late' = late PROVE \A y : HasReply(y)' <=> HasReply(y)
  BY <1>3 DEF HasReply
<1>4. ASSUME endpointSignals # <<>>, endpointSignals' = Tail(endpointSignals), erot' = erot
      PROVE  /\ endpointSignals' \in Seq({"added", "removed"})
             /\ erot' # "absent" => AddedLast'
             /\ erot # "absent" /\ endpointSignals' = <<>> => Head(endpointSignals) = "added"
  <2>1. endpointSignals \in Seq({"added", "removed"})
    BY <1>1 DEF RunInv
  <2>2. endpointSignals' \in Seq({"added", "removed"})
    BY <1>4, <2>1, QueueShrinks
  <2>3. erot # "absent" => endpointSignals[Len(endpointSignals)] = "added"
    BY <1>1, <1>4 DEF RunInv, AddedLast
  <2>4. /\ Tail(endpointSignals) # <<>> =>
             Tail(endpointSignals)[Len(Tail(endpointSignals))] = endpointSignals[Len(endpointSignals)]
        /\ Tail(endpointSignals) = <<>> => Head(endpointSignals) = endpointSignals[Len(endpointSignals)]
    BY <1>4, <2>1, LastKept
  <2> QED BY <1>4, <2>2, <2>3, <2>4 DEF AddedLast
<1>5. CASE Heart!EndpointAdded
  <2>1. /\ endpointSignals # <<>> /\ endpointSignals' = Tail(endpointSignals)
        /\ UNCHANGED <<erot, socket, late, running>>
        /\ \/ doing' = <<Heart!First("boot")>> /\ startup' = TRUE
           \/ gaveUp' = TRUE /\ UNCHANGED <<doing, startup>>
    BY <1>5 DEF Heart!EndpointAdded, Heart!Run, Heart!link
  <2>2. CASE doing' = <<Heart!First("boot")>> /\ startup' = TRUE
    <3>1. PICK e \in Calls : e = Heart!First("boot") /\ e.name = "boot"
      BY FirstCall DEF Heart!Commands
    <3>2. doing' # <<>> /\ Head(doing') = e
      BY <2>2, <3>1
    <3>3. RunShape' /\ Greets'
      BY <2>2, <3>1, <3>2 DEF RunShape, Greets
    <3> QED BY <1>1, <1>3, <1>4, <2>1, <2>2, <3>3 DEF RunInv
  <2>3. CASE gaveUp' = TRUE /\ UNCHANGED <<doing, startup>>
    <3>1. RunShape'
      BY <1>1, <2>3 DEF RunShape
    <3> QED BY <1>1, <1>3, <1>4, <2>1, <2>3, <3>1 DEF RunInv
  <2> QED BY <2>1, <2>2, <2>3
<1>6. CASE Heart!EndpointRemoved
  <2>1. /\ endpointSignals # <<>> /\ endpointSignals' = Tail(endpointSignals)
        /\ Head(endpointSignals) = "removed"
        /\ UNCHANGED <<erot, doing, startup, socket, late, running>>
    BY <1>6 DEF Heart!EndpointRemoved, Heart!link, Heart!ended
  <2>2. ~(erot' # "absent" /\ endpointSignals' = <<>>)
    BY <1>4, <2>1
  <2>3. RunShape'
    BY <1>1, <2>1 DEF RunShape
  <2> QED BY <1>1, <1>3, <1>4, <2>1, <2>2, <2>3 DEF RunInv
<1>7. CASE Heart!Beat
  <2>1. /\ doing' = <<Heart!First("beat")>>
        /\ UNCHANGED <<erot, endpointSignals, looking, startup, socket, late, running, service,
                       mistaken, gaveUp>>
    BY <1>7 DEF Heart!Beat, Heart!link, Heart!ended, Heart!events, Heart!histories
  <2>2. PICK e \in Calls : e = Heart!First("beat") /\ e.name = "beat"
    BY FirstCall DEF Heart!Commands
  <2>3. RunShape'
    BY <2>1, <2>2 DEF RunShape
  <2>4. ~Greets
    BY <1>1 DEF Greets
  <2>5. AddedLast => AddedLast'
    BY <2>1 DEF AddedLast
  <2> QED BY <1>1, <1>3, <2>1, <2>3, <2>4, <2>5 DEF RunInv, Fresh
<1> QED BY <1>5, <1>6, <1>7

LEMMA HeartTerminates == ASSUME HeartInv, Heart!Terminate PROVE HeartInv'
<1>1. /\ running = TRUE /\ running' = FALSE
      /\ doing' = IF service THEN <<Heart!First("restart")>> \o doing ELSE doing
      /\ interrupted' = startup
      /\ UNCHANGED <<erot, startup, socket, late, service>>
  BY DEF HeartInv, Heart!Terminate, Heart!link
<1>2. RunInv /\ startup' \in {TRUE, FALSE}
  BY <1>1 DEF HeartInv
<1>3. ASSUME service = TRUE, startup = FALSE PROVE EndInv'
  <2>1. PICK e \in Calls : e = Heart!First("restart") /\ e.name = "restart"
    BY FirstCall DEF Heart!Commands
  <2>2. doing' = <<e>> \o doing
    BY <1>1, <1>3, <2>1
  <2>3. ~HasReply("restart")'
    BY <1>1, <1>2 DEF RunInv, HasReply
  <2>4. EndShape' /\ doing' # <<>> /\ Head(doing') = e
    <3>1. CASE doing = <<>>
      <4>1. doing' = <<e>>
        BY <2>2, <3>1, CallsInFront
      <4>2. EndShape'
        BY <1>1, <1>3, <2>1, <4>1 DEF EndShape
      <4> QED BY <4>1, <4>2
    <3>2. ASSUME NEW b \in Calls, doing = <<b>>, b.name = "beat" PROVE EndShape' /\ doing' # <<>> /\ Head(doing') = e
      <4>1. doing' = <<e, b>>
        BY <2>2, <3>2, CallsInFront
      <4>2. EndShape'
        BY <1>1, <1>3, <2>1, <3>2, <4>1 DEF EndShape
      <4> QED BY <4>1, <4>2
    <3> QED BY <1>2, <1>3, <3>1, <3>2 DEF RunInv, RunShape
  <2>5. socket' \in Seq(Replies) /\ late' \in Seq(Replies)
    BY <1>1, <1>2 DEF RunInv
  <2> QED BY <2>1, <2>3, <2>4, <2>5 DEF EndInv
<1> QED BY <1>1, <1>2, <1>3 DEF HeartInv

LEMMA HeartChecks == ASSUME HeartInv, Heart!CheckExisting PROVE HeartInv'
<1>1. /\ \/ endpointSignals' = IF erot = "absent" THEN endpointSignals ELSE Append(endpointSignals, "added")
         \/ endpointSignals' = endpointSignals /\ (service = FALSE => gaveUp' = TRUE)
      /\ gaveUp' = gaveUp \/ gaveUp' = (gaveUp \/ ~service)
      /\ UNCHANGED <<erot, doing, startup, socket, late, running, service, mistaken, interrupted, untold>>
  BY DEF Heart!CheckExisting, Heart!link, Heart!ended
<1>2. gaveUp => gaveUp'
  BY <1>1
<1>3. EndInv => EndInv'
  BY <1>1 DEF EndInv, EndShape, HasReply
<1>4. ASSUME RunInv PROVE RunInv'
  <2>1. RunShape' /\ (Greets' <=> Greets) /\ \A y : HasReply(y)' <=> HasReply(y)
    BY <1>1, <1>4 DEF RunInv, RunShape, HasReply, Greets
  <2>2. CASE endpointSignals' = endpointSignals
    <3>1. erot' = "absent" \/ (Fresh => gaveUp')
      <4>1. CASE erot = "absent"
        BY <1>1, <4>1
      <4>2. CASE service = FALSE => gaveUp' = TRUE
        BY <4>2 DEF Fresh
      <4>3. CASE erot # "absent" /\ endpointSignals' = Append(endpointSignals, "added")
        BY <1>4, <2>2, <4>3 DEF RunInv
      <4> QED BY <1>1, <4>1, <4>2, <4>3
    <3>2. AddedLast' <=> AddedLast
      BY <2>2 DEF AddedLast
    <3> QED BY <1>1, <1>2, <1>4, <2>1, <2>2, <3>1, <3>2 DEF RunInv
  <2>3. CASE endpointSignals' = Append(endpointSignals, "added")
    <3>1. PICK q : q = Append(endpointSignals, "added")
      OBVIOUS
    <3>2. q \in Seq({"added", "removed"}) /\ q # <<>> /\ q[Len(q)] = "added"
      BY <1>4, <3>1, QueueGrows DEF RunInv
    <3>3. endpointSignals' = q /\ AddedLast'
      BY <2>3, <3>1, <3>2 DEF AddedLast
    <3> QED BY <1>1, <1>4, <2>1, <3>2, <3>3 DEF RunInv
  <2> QED BY <1>1, <2>2, <2>3
<1> QED BY <1>1, <1>3, <1>4 DEF HeartInv

LEMMA HeartChanges == ASSUME HeartInv, Heart!EndpointChanges PROVE HeartInv'
<1>1. UNCHANGED <<doing, startup, running, service, mistaken, gaveUp, interrupted, untold>>
  BY DEF Heart!EndpointChanges, Heart!ended, Heart!histories
<1>2. CASE /\ erot = "absent" /\ erot' = "started"
           /\ endpointSignals' = Append(endpointSignals, "added")
           /\ UNCHANGED <<socket, late>>
  <2>1. \A y : HasReply(y)' <=> HasReply(y)
    BY <1>2 DEF HasReply
  <2>2. EndInv => EndInv'
    BY <1>1, <1>2, <2>1 DEF EndInv, EndShape
  <2>3. ASSUME RunInv PROVE RunInv'
    <3>1. PICK q : q = Append(endpointSignals, "added")
      OBVIOUS
    <3>2. q \in Seq({"added", "removed"}) /\ q # <<>> /\ q[Len(q)] = "added"
      BY <2>3, <3>1, QueueGrows DEF RunInv
    <3>3. endpointSignals' = q /\ AddedLast'
      BY <1>2, <3>1, <3>2 DEF AddedLast
    <3>4. RunShape'
      BY <1>1, <2>3 DEF RunInv, RunShape
    <3>5. ~HasReply("enable")' /\ ~HasReply("restart")'
      BY <1>2, <2>1, <2>3 DEF RunInv
    <3> QED BY <1>2, <2>3, <3>2, <3>3, <3>4, <3>5 DEF RunInv
  <2> QED BY <1>1, <2>2, <2>3 DEF HeartInv
<1>3. CASE /\ erot # "absent" /\ erot' = "absent"
           /\ endpointSignals' = Append(endpointSignals, "removed")
           /\ socket' = Heart!Outdated(socket) /\ late' = Heart!Outdated(late)
  <2>1. ASSUME socket \in Seq(Replies), late \in Seq(Replies)
        PROVE  /\ socket' \in Seq(Replies) /\ late' \in Seq(Replies)
               /\ ~HasReply("enable")' /\ ~HasReply("restart")'
    <3>1. /\ socket' \in Seq(Replies) /\ late' \in Seq(Replies)
          /\ \A y : Has(socket', y) => y = "old"
          /\ \A y : Has(late', y) => y = "old"
      BY <1>3, <2>1, OutdatedAnswers
    <3> QED BY <3>1 DEF HasReply
  <2>2. EndInv => EndInv'
    BY <1>1, <1>3, <2>1 DEF EndInv, EndShape
  <2>3. ASSUME RunInv PROVE RunInv'
    <3>1. endpointSignals' \in Seq({"added", "removed"})
      BY <1>3, <2>3, QueueGrows DEF RunInv
    <3>2. RunShape'
      BY <1>1, <2>3 DEF RunInv, RunShape
    <3> QED BY <1>3, <2>1, <2>3, <3>1, <3>2 DEF RunInv
  <2> QED BY <1>1, <2>2, <2>3 DEF HeartInv
<1> QED BY <1>2, <1>3 DEF Heart!EndpointChanges, Heart!link

LEMMA HeartStep == ASSUME HeartInv, Heart!Next \/ UNCHANGED beatVars PROVE HeartInv'
<1>1. CASE Heart!Attempt
  BY <1>1, HeartAttempts
<1>2. CASE Heart!LateAnswer
  BY <1>2, HeartLate
<1>3. CASE Heart!EndpointAdded \/ Heart!EndpointRemoved \/ Heart!Beat
  BY <1>3, HeartLoops
<1>4. CASE Heart!TimerExpires
  BY <1>4, HeartKept DEF Heart!TimerExpires, Heart!events, Heart!link, Heart!ended, Heart!histories
<1>5. CASE Heart!Terminate
  BY <1>5, HeartTerminates
<1>6. CASE Heart!CheckExisting
  BY <1>6, HeartChecks
<1>7. CASE Heart!EndpointChanges
  BY <1>7, HeartChanges
<1>8. CASE UNCHANGED beatVars
  BY <1>8, HeartKept DEF beatVars, Heart!beatVars
<1> QED BY <1>1, <1>2, <1>3, <1>4, <1>5, <1>6, <1>7, <1>8
        DEF Heart!Next, Heart!Proceeds, Heart!Signals

LEMMA HeartGoesOn == ASSUME HeartInv, QuietInv PROVE Heart!BeatsAreExpected /\ Heart!EndIsTold
<1>1. Heart!BeatsAreExpected
  <2>1. ASSUME Heart!Beating, running = TRUE, erot # "absent", endpointSignals = <<>>, startup = FALSE
        PROVE  erot = "expecting" \/ mistaken \/ gaveUp
    <3>1. ~Fresh
      BY <2>1 DEF Fresh, QuietInv, Heart!Beating
    <3> QED BY <2>1, <3>1 DEF HeartInv, RunInv, Greets
  <2> QED BY <2>1 DEF HeartInv, Heart!BeatsAreExpected
<1>2. Heart!EndIsTold
  <2>1. ASSUME running = FALSE, service = TRUE, interrupted = FALSE, doing = <<>>
        PROVE  erot # "expecting" \/ untold \/ mistaken
    BY <2>1 DEF HeartInv, EndInv
  <2> QED BY <2>1 DEF HeartInv, Heart!EndIsTold, Heart!Idle
<1> QED BY <1>1, <1>2

LEMMA EndpointSteps ==
  ASSUME [DaemonsNext]_daemonsVars
  PROVE  /\ Health!Next \/ UNCHANGED healthVars
         /\ Pool!Next \/ UNCHANGED poolVars
         /\ Heart!Next \/ UNCHANGED beatVars
         /\ Usb!Next \/ UNCHANGED usbVars
         /\ Gadget!Next \/ UNCHANGED gadgetVars
<1>1. CASE UNCHANGED daemonsVars
  BY <1>1 DEF daemonsVars
<1>2. CASE DaemonsNext
  <2>1. Health!Next \/ UNCHANGED healthVars
    BY <1>2, Zenon DEF DaemonsNext, Only
  <2>2. Pool!Next \/ UNCHANGED poolVars
    BY <1>2, Zenon DEF DaemonsNext, Only
  <2>3. Heart!Next \/ UNCHANGED beatVars
    BY <1>2, Zenon DEF DaemonsNext, Only
  <2>4. Usb!Next \/ UNCHANGED usbVars
    BY <1>2, Zenon DEF DaemonsNext, Only
  <2>5. Gadget!Next \/ UNCHANGED gadgetVars
    BY <1>2, Zenon DEF DaemonsNext, Only
  <2> QED BY <2>1, <2>2, <2>3, <2>4, <2>5
<1> QED BY <1>1, <1>2

(* MctpHealth, BridgePool, Heartbeat, UsbRecovery, UsbGadget: in every     *)
(* state an endpoint that is set up is watched and its outages are logged  *)
(* once, an association is with an endpoint that exists, heartbeats go to  *)
(* an ERoT that expects them and their end is told, a test that runs is    *)
(* known, and an EID assigned is set up and the host told of it.           *)
EndpointsInv == WatchInv /\ LogInv /\ PoolInv /\ HeartInv /\ QuietInv /\ UsbInv /\ GadgetInv

THEOREM EndpointsStayWatched == DaemonsSpec => []EndpointsAreWatched
<1>1. DaemonsInit => EndpointsInv
  <2> SUFFICES ASSUME DaemonsInit PROVE EndpointsInv
    OBVIOUS
  <2>1. Health!Init \/ Health!Start
    BY DEF DaemonsInit
  <2>2. Pool!Start /\ (Heart!Init \/ Heart!Start) /\ Usb!Start /\ Gadget!Start
    BY DEF DaemonsInit
  <2> QED BY <2>1, <2>2, WatchStart, LogStart, PoolStart, HeartStart, UsbStart, GadgetStart
          DEF EndpointsInv
<1>2. EndpointsInv /\ [DaemonsNext]_daemonsVars => EndpointsInv'
  BY EndpointSteps, WatchStep, LogStep, PoolStep, HeartStep, QuietStep, UsbStep, GadgetStep
     DEF EndpointsInv
<1>3. EndpointsInv => EndpointsAreWatched
  <2> SUFFICES ASSUME EndpointsInv PROVE EndpointsAreWatched
    OBVIOUS
  <2>1. Health!IsWatched /\ Health!OneLog
    BY HealthGoesOn DEF EndpointsInv
  <2>2. Pool!AssociatedExists /\ Heart!BeatsAreExpected /\ Heart!EndIsTold
    BY HeartGoesOn DEF EndpointsInv, PoolInv
  <2>3. Usb!TestIsKnown /\ Gadget!AssignedIsSetUp /\ Gadget!HostIsNotified
    BY UsbGoesOn, GadgetGoesOn DEF EndpointsInv
  <2> QED BY <2>1, <2>2, <2>3, Zenon DEF EndpointsAreWatched
<1> QED BY <1>1, <1>2, <1>3, PTL DEF DaemonsSpec
=============================================================================
