----------------------------- MODULE InfoStore ------------------------------
(***************************************************************************)
(* nvidia-info (src/src/nvidia-info): the inventory of each socket is      *)
(* uploaded, published on D-Bus, and stored in a file - written beside it, *)
(* synced and renamed - that is published again after a restart, unless it *)
(* cannot be read then or publishing fails.  The sockets of a module must  *)
(* have the same counts of components, or an upload is refused and a       *)
(* stored file removed.  The board the inventory belongs to is looked for  *)
(* when the daemon starts and when objects appear.                         *)
(***************************************************************************)
EXTENDS Naturals, FiniteSets

CONSTANTS
    Sockets,            \* the sockets of one module
    MaxUploads,         \* bound: uploads
    MaxInfoEvents       \* bound: restarts, losses of power and failures

InfoAssumption == Sockets # {} /\ {MaxUploads, MaxInfoEvents} \subseteq Nat

None == [count |-> 0, version |-> 0]
Payloads == [count : 1..2, version : 1..MaxUploads]

VARIABLES
    infos,              \* what is published, terminusInfos
    file, durable,      \* what the file of a socket says, and would after a loss of power
    temp,               \* what is written beside it
    upload,             \* the upload in the works: its step, socket and contents
    toLoad,             \* files not loaded since the daemon started; {} once it serves
    accepted,           \* history: the upload of each socket that was answered with success last
    unpublished,        \* history: sockets withdrawn, or passed over by recovery, since the start
    atOdds,             \* history: stored files did not agree in their counts
    uploads,
    board, boardPath,   \* the board is there, and was found
    searches,           \* discoverPaths under way, or due
    missedBoard,        \* history: the last search failed
    attached,           \* the sockets whose inventory is associated with the board
    infoEvents

infoVars == <<infos, file, durable, temp, upload, toLoad, accepted, unpublished, atOdds, uploads,
              board, boardPath, searches, missedBoard, attached, infoEvents>>

storeVars == <<infos, file, durable, temp, upload, toLoad, accepted, unpublished, atOdds, uploads>>
boardVars == <<board, boardPath, searches, missedBoard>>

NoUpload == [step |-> "idle", socket |-> 0, payload |-> None]
Nothing == [s \in Sockets |-> None]

Start ==
    /\ infos = Nothing /\ file = Nothing /\ durable = Nothing /\ temp = None
    /\ upload = NoUpload /\ toLoad = {} /\ accepted = Nothing /\ uploads = 0
    /\ unpublished = {} /\ atOdds = FALSE
    /\ board = FALSE /\ boardPath = FALSE /\ searches = 1 /\ missedBoard = FALSE
    /\ attached = {} /\ infoEvents = 0

Init == Start

Event == infoEvents < MaxInfoEvents /\ infoEvents' = infoEvents + 1

-----------------------------------------------------------------------------
\* assertUniformCounts, with the sockets published before.
Uniform(s, p) == \A o \in Sockets \ {s} : infos[o] # None => infos[o].count = p.count

\* attachAssociationsFor and attachAllAssociations.
AttachedWith(s) == IF boardPath THEN attached \cup {s} ELSE attached \ {s}
AllOf(found) == IF found THEN {s \in Sockets : infos[s] # None} ELSE attached

\* updateTerminusInfo; a publication that fails leaves nothing.
Publish(s, p) ==
    /\ infos' = [infos EXCEPT ![s] = p]
    /\ attached' = AttachedWith(s)

Withdraw(s) == infos' = [infos EXCEPT ![s] = None] /\ attached' = attached \ {s}

-----------------------------------------------------------------------------
(* CreateInfo; nothing else runs between its steps, but the daemon may be  *)
(* killed.                                                                 *)
CreateInfo ==
    /\ toLoad = {} /\ upload = NoUpload /\ uploads < MaxUploads
    /\ uploads' = uploads + 1
    /\ \E s \in Sockets, c \in 1..2 :
          LET p == [count |-> c, version |-> uploads']
          IN  /\ Uniform(s, p)
              /\ \/ Publish(s, p) /\ UNCHANGED infoEvents
                    /\ upload' = [step |-> "write", socket |-> s, payload |-> p]
                    /\ UNCHANGED unpublished
                 \/ Withdraw(s) /\ Event /\ unpublished' = unpublished \cup {s} /\ UNCHANGED upload
    /\ UNCHANGED <<file, durable, temp, toLoad, accepted, atOdds>> /\ UNCHANGED boardVars

Fails ==
    /\ Event /\ Withdraw(upload.socket)
    /\ upload' = NoUpload /\ temp' = None
    /\ unpublished' = unpublished \cup {upload.socket}
    /\ UNCHANGED <<file, durable, accepted, atOdds>>

\* persistInfoJson.
WriteTemp ==
    /\ upload.step = "write"
    /\ \/ /\ temp' = upload.payload /\ upload' = [upload EXCEPT !.step = "rename"]
          /\ UNCHANGED <<infos, file, durable, accepted, unpublished, atOdds, attached, infoEvents>>
       \/ Fails
    /\ UNCHANGED <<toLoad, uploads>> /\ UNCHANGED boardVars

\* The stored inventories of a set of sockets that do not have the counts of p.
Differing(S, p) == {o \in S : file[o] # None /\ file[o].count # p.count}

\* The directory is not synced, and that of the file may fail: after a loss of power
\* the file may be the old one, or nothing that can be loaded.
Rename ==
    /\ upload.step = "rename"
    /\ \/ LET s == upload.socket IN
          /\ file' = [file EXCEPT ![s] = upload.payload]
          /\ temp' = None
          /\ \E d \in {upload.payload, durable[s], None} : durable' = [durable EXCEPT ![s] = d]
          /\ accepted' = [accepted EXCEPT ![s] = upload.payload]
          /\ upload' = NoUpload /\ unpublished' = unpublished \ {s}
          /\ atOdds' = (atOdds \/ Differing(unpublished \ {s}, upload.payload) # {})
          /\ UNCHANGED <<infos, attached, infoEvents>>
       \/ Fails
    /\ UNCHANGED <<toLoad, uploads>> /\ UNCHANGED boardVars

-----------------------------------------------------------------------------
\* The constructor looks for the board when it has loaded the files.
Restarted(contents) ==
    /\ infos' = Nothing /\ attached' = {} /\ upload' = NoUpload
    /\ toLoad' = {s \in Sockets : contents[s] # None} /\ unpublished' = {}
    /\ boardPath' = FALSE /\ searches' = 1 /\ missedBoard' = FALSE

Restart ==
    /\ Event /\ Restarted(file)
    /\ UNCHANGED <<file, durable, temp, accepted, atOdds, uploads, board>>

Agree(f) == \A s, o \in Sockets : f[s] # None /\ f[o] # None => f[s].count = f[o].count

LosePower ==
    /\ Event /\ Restarted(durable)
    /\ file' = durable /\ temp' = None
    /\ accepted' = durable
    /\ atOdds' = (atOdds \/ ~Agree(durable))
    /\ UNCHANGED <<durable, uploads, board>>

LoadAlways(s) == TRUE

Accepts(s) == Uniform(s, file[s])

RemovePersistedFile(s) ==
    \/ /\ file' = [file EXCEPT ![s] = None] /\ durable' = [durable EXCEPT ![s] = None]
       /\ UNCHANGED infoEvents
    \/ Event /\ UNCHANGED <<file, durable>>

\* Files are loaded in any order; one that is refused is removed.
LoadFile(s) ==
    /\ toLoad' = toLoad \ {s}
    /\ \/ /\ Accepts(s) /\ Publish(s, file[s])
          /\ UNCHANGED <<file, durable, infoEvents, unpublished>>
       \/ /\ ~Accepts(s) /\ RemovePersistedFile(s) /\ Withdraw(s)
          /\ unpublished' = unpublished \cup {s}

\* One that cannot be read is passed over.
SkipFile(s) ==
    /\ Event /\ toLoad' = toLoad \ {s} /\ unpublished' = unpublished \cup {s}
    /\ UNCHANGED <<infos, attached, file, durable>>

\* An error of another kind, which a publication taken back may be, ends the loading.
AbandonFiles(s) ==
    /\ Event /\ toLoad' = {} /\ unpublished' = unpublished \cup toLoad
    /\ Withdraw(s) /\ UNCHANGED <<file, durable>>

LoadPersisted ==
    /\ \E s \in toLoad : LoadFile(s) \/ SkipFile(s) \/ AbandonFiles(s)
    /\ UNCHANGED <<temp, upload, accepted, atOdds, uploads>> /\ UNCHANGED boardVars

-----------------------------------------------------------------------------
\* InterfacesAdded: two seconds later the paths are looked for.
BoardAppears ==
    /\ ~board /\ board' = TRUE
    /\ searches' = searches + 1
    /\ UNCHANGED <<boardPath, missedBoard, attached, infoEvents>> /\ UNCHANGED storeVars

\* The answers of the mapper.
DiscoverMotherboardPath ==
    \/ boardPath' = board /\ missedBoard' = FALSE /\ UNCHANGED infoEvents
    \/ ~boardPath /\ missedBoard' = TRUE /\ Event /\ UNCHANGED boardPath

\* discoverPaths ends by attaching everything published.
Discovered ==
    /\ toLoad = {} /\ upload = NoUpload /\ searches > 0
    /\ searches' = searches - 1
    /\ DiscoverMotherboardPath
    /\ attached' = AllOf(boardPath')
    /\ UNCHANGED board /\ UNCHANGED storeVars

Proceeds == WriteTemp \/ Rename \/ LoadPersisted \/ Discovered

Next == Proceeds \/ CreateInfo \/ Restart \/ LosePower \/ BoardAppears

Spec == Init /\ [][Next]_infoVars /\ WF_infoVars(Proceeds)

-----------------------------------------------------------------------------
TypeOK ==
    /\ {infos[s] : s \in Sockets} \cup {file[s] : s \in Sockets} \subseteq Payloads \cup {None}
    /\ {durable[s] : s \in Sockets} \cup {temp, upload.payload} \subseteq Payloads \cup {None}
    /\ upload.step \in {"idle", "write", "rename"} /\ upload.step # "idle" => toLoad = {}
    /\ toLoad \subseteq Sockets /\ attached \subseteq Sockets /\ unpublished \subseteq Sockets
    /\ atOdds \in BOOLEAN
    /\ uploads \in 0..MaxUploads /\ infoEvents \in 0..MaxInfoEvents

(* What an upload was told is stored is in its file, and published but    *)
(* for the sockets that this run of the daemon has withdrawn or passed     *)
(* over, as long as the files agree: what is published agrees, but an      *)
(* upload may be accepted that an unpublished file is at odds with, and    *)
(* one of the two is then removed at a restart.                            *)
AcceptedIsPublished ==
    /\ Agree(infos)
    /\ toLoad = {} /\ upload = NoUpload /\ ~atOdds =>
         /\ file = accepted
         /\ \A s \in Sockets : infos[s] = IF s \in unpublished THEN None ELSE accepted[s]

(* Everything published is associated with the board, once both are there, *)
(* unless the search failed and nothing appeared since.                    *)
AllAttached == board /\ ~missedBoard => \A s \in Sockets : infos[s] # None => s \in attached
InventoryIsAttached == <>[]AllAttached
=============================================================================
