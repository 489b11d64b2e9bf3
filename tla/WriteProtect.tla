---------------------------- MODULE WriteProtect ----------------------------
(***************************************************************************)
(* Firmware write protection (src/src/nvidia-fw-write-protect): domains    *)
(* and groups combine GPIO inputs, D-Bus objects and other groups with AND *)
(* or OR.  They are configured in any order; a name that is not known yet  *)
(* gets a source node of its own, waited for as a D-Bus object, until a    *)
(* group or an input of that name takes its place.  The graph of nodes     *)
(* keeps every output up to date and tells observers only of changes.      *)
(*                                                                         *)
(* Configured groups form no cycle (Graph::connect throws for one that     *)
(* would) and no D-Bus object has the name of a configured group.          *)
(***************************************************************************)
EXTENDS Naturals, Sequences, FiniteSetsExt

CONSTANTS
    Configured,     \* name -> [kind : "input", "group" or "domain"; op; sources]
    MaxChanges      \* bound: changes of the inputs, settings and failed readings

ProtectAssumption ==
    /\ MaxChanges \in Nat
    /\ \A n \in DOMAIN Configured : Configured[n].kind \in {"input", "group", "domain"}

VARIABLES
    graph,          \* nodes - those not added yet are "absent" -, dirty nodes, and what each node's observers were told
    groups,         \* name -> its output node, and the source a domain sets
    links,          \* pendingEntityLinks: name -> links waiting for it
    stage,          \* how far each source has come
    input,          \* the value each source really has
    notices,        \* changes the monitor of each source has not taken
    setting,        \* the domain whose source was set but not read back
    unread,         \* history: sources whose reading failed and did not change since
    changes         \* how many changes there were

protectVars == <<graph, groups, links, stage, input, notices, setting, unread, changes>>

Names == DOMAIN Configured \cup UNION {Configured[n].sources : n \in DOMAIN Configured}
IsInput(n) == n \in DOMAIN Configured /\ Configured[n].kind = "input"
IsObject(n) == n \notin DOMAIN Configured
SourceNode(n) == <<"source", n>>
GroupNode(n) == <<"node", n>>
Nodes == {SourceNode(n) : n \in Names} \cup {GroupNode(n) : n \in Names}

-----------------------------------------------------------------------------
(* The graph.                                                              *)
NewNode(type) ==
    [type |-> type, output |-> FALSE, dirty |-> FALSE, snapshot |-> FALSE,
     incoming |-> {}, outgoing |-> {}]

AddNode(g, id, type) == [g EXCEPT !.nodes[id] = NewNode(type)]

Evaluate(g, id) ==
    LET node == g.nodes[id]
        on == {i \in node.incoming : g.nodes[i].output}
    IN  IF node.type = "AND" THEN on # {} /\ on = node.incoming ELSE on # {}

Touch(g, id) ==
    IF g.nodes[id].dirty THEN g
    ELSE [g EXCEPT !.nodes[id].dirty = TRUE, !.nodes[id].snapshot = g.nodes[id].output,
                   !.dirty = @ \cup {id}]

SetSource(g, id, v) == [Touch(g, id) EXCEPT !.nodes[id].output = v]

Connect(g, from, to) ==
    LET h == [Touch(g, to) EXCEPT !.nodes[from].outgoing = @ \cup {to},
                                  !.nodes[to].incoming = @ \cup {from}]
    IN  [h EXCEPT !.nodes[to].output = Evaluate(h, to)]

\* A source that is not needed any more leaves the graph.
LeaveAsIs(g, id, child) == [g EXCEPT !.nodes[child].incoming = @ \ {id}]

Leave(g, id, child) ==
    LET h == [Touch(g, child) EXCEPT !.nodes[child].incoming = @ \ {id}]
    IN  IF Evaluate(h, child) = h.nodes[child].output
        THEN [g EXCEPT !.nodes[child].incoming = @ \ {id}]
        ELSE [h EXCEPT !.nodes[child].output = Evaluate(h, child)]

Deactivate(g, id) ==
    FoldSet(LAMBDA child, h : Leave(h, id, child), AddNode(g, id, "source"),
            g.nodes[id].outgoing)

Graphs ==
    [nodes : [Nodes -> [type : {"absent", "source", "AND", "OR"},
                        output : BOOLEAN, dirty : BOOLEAN, snapshot : BOOLEAN,
                        incoming : SUBSET Nodes, outgoing : SUBSET Nodes]],
     dirty : SUBSET Nodes, told : [Nodes -> BOOLEAN]]

\* The nodes behind the dirty ones are evaluated until none changes.
Settle(graphBefore, behind) ==
    LET settled[g \in Graphs, queue \in SUBSET Nodes] ==
            IF queue = {} THEN g
            ELSE LET id == CHOOSE i \in queue : TRUE
                     rest == queue \ {id}
                 IN  IF Evaluate(g, id) = g.nodes[id].output THEN settled[g, rest]
                     ELSE settled[[g EXCEPT !.nodes[id].output = ~@],
                                  rest \cup g.nodes[id].outgoing]
    IN  settled[graphBefore, behind]

\* Then the observers of what changed are told.
Tell(g) ==
    [nodes |-> [i \in Nodes |->
                  [g.nodes[i] EXCEPT !.dirty = FALSE, !.snapshot = g.nodes[i].output]],
     dirty |-> {},
     told |-> [i \in Nodes |-> IF g.nodes[i].output # g.nodes[i].snapshot
                                THEN g.nodes[i].output ELSE g.told[i]]]

Propagate(g) ==
    Tell(Settle(g, UNION {g.nodes[i].outgoing : i \in g.dirty}))

-----------------------------------------------------------------------------
NoLinks == [n \in Names |-> {}]

Start ==
    /\ graph = [nodes |-> [id \in Nodes |-> NewNode("absent")], dirty |-> {},
                told |-> [id \in Nodes |-> FALSE]]
    /\ groups = <<>> /\ links = NoLinks
    /\ stage = [n \in Names |-> "none"]
    /\ input = [n \in Names |-> FALSE]
    /\ notices = [n \in Names |-> <<>>]
    /\ setting = "none" /\ unread = {} /\ changes = 0

Init == Start

Has(g, n) == g.nodes[SourceNode(n)].type # "absent"
WithSource(g, n) == IF Has(g, n) THEN g ELSE AddNode(g, SourceNode(n), "source")

\* addGroup links one source after the other.
LinkSource(g, n, s) ==
    IF s \in DOMAIN groups THEN Connect(g, groups[s].node, GroupNode(n))
    ELSE Connect(WithSource(g, s), SourceNode(s), GroupNode(n))

LinkSources(g, n) ==
    FoldSet(LAMBDA s, h : LinkSource(h, n, s), g, Configured[n].sources)

\* Links that waited for the group: its output takes the place of the source.
ResolveGroupLinks(g, n) ==
    FoldSet(LAMBDA t, h : Deactivate(Connect(h, GroupNode(n), t), SourceNode(n)), g, links[n])

AddGroup(n) ==
    /\ n \in DOMAIN Configured \ DOMAIN groups /\ ~IsInput(n)
    /\ LET c == Configured[n]
           unknown == c.sources \ DOMAIN groups
           linked == LinkSources(AddNode(graph, GroupNode(n), c.op), n)
       IN  /\ graph' = Propagate(ResolveGroupLinks(linked, n))
           /\ links' = [m \in Names |-> IF m = n THEN {}
                                        ELSE IF m \in unknown THEN links[m] \cup {GroupNode(n)}
                                        ELSE links[m]]
           /\ stage' = [m \in Names |-> IF m \in unknown /\ ~Has(graph, m) THEN "waiting"
                                        ELSE IF m = n THEN "none" ELSE stage[m]]
           /\ \E s \in IF c.kind = "domain" /\ unknown # {} THEN unknown ELSE {"none"} :
                 groups' = [m \in DOMAIN groups \cup {n} |->
                    IF m = n THEN [node |-> GroupNode(n), settable |-> s] ELSE groups[m]]
    /\ UNCHANGED <<input, notices, setting, unread, changes>>

\* An input adopts the source its name may already have.
AddGpioGroup(n) ==
    /\ n \in DOMAIN Configured \ DOMAIN groups /\ IsInput(n)
    /\ graph' = WithSource(graph, n)
    /\ groups' = [m \in DOMAIN groups \cup {n} |->
            IF m = n THEN [node |-> SourceNode(n), settable |-> "none"] ELSE groups[m]]
    /\ links' = [links EXCEPT ![n] = {}]
    /\ stage' = [stage EXCEPT ![n] = "waiting"]
    /\ UNCHANGED <<input, notices, setting, unread, changes>>

-----------------------------------------------------------------------------
\* The line is acquired, or the object found, on which no link need wait any more.
Acquired(n) == IsInput(n) /\ n \in DOMAIN groups /\ UNCHANGED links
Detected(n) == IsObject(n) /\ links' = [links EXCEPT ![n] = {}]

\* From now on changes are noticed.
Online(n) ==
    /\ stage[n] = "waiting"
    /\ Acquired(n) \/ Detected(n)
    /\ stage' = [stage EXCEPT ![n] = "online"]
    /\ UNCHANGED <<graph, groups, input, notices, setting, unread, changes>>

\* The first reading; the source is monitored even when it fails.
Activate(n) ==
    /\ stage[n] = "online"
    /\ stage' = [stage EXCEPT ![n] = "monitored"]
    /\ \/ /\ graph' = Propagate(SetSource(graph, SourceNode(n), input[n]))
          /\ UNCHANGED <<unread, changes>>
       \/ /\ changes < MaxChanges
          /\ changes' = changes + 1
          /\ unread' = unread \cup {n}
          /\ UNCHANGED graph
    /\ UNCHANGED <<groups, links, input, notices, setting>>

\* The input changes.  Edges and signals queue while nobody waits for them.
Notice(n) == IF stage[n] \in {"online", "monitored", "cooling"}
             THEN [notices EXCEPT ![n] = Append(@, input'[n])] ELSE notices

InputChanges(n) ==
    /\ IsInput(n) \/ IsObject(n)
    /\ changes < MaxChanges
    /\ changes' = changes + 1
    /\ input' = [input EXCEPT ![n] = ~@]
    /\ notices' = Notice(n)
    /\ UNCHANGED <<graph, groups, links, stage, setting, unread>>

\* An edge makes the line be read again - or fail -, a signal holds the value.
Monitor(n) ==
    /\ stage[n] = "monitored" /\ notices[n] # <<>>
    /\ notices' = [notices EXCEPT ![n] = Tail(@)]
    /\ \/ /\ graph' = Propagate(SetSource(graph, SourceNode(n),
                                          IF IsInput(n) THEN input[n] ELSE Head(notices[n])))
          /\ unread' = unread \ {n}
          /\ UNCHANGED changes
       \/ /\ IsInput(n) /\ changes < MaxChanges
          /\ changes' = changes + 1
          /\ unread' = unread \cup {n}
          /\ UNCHANGED graph
    /\ \E s \in {"monitored", "cooling"} : stage' = [stage EXCEPT ![n] = s]
    /\ UNCHANGED <<groups, links, input, setting>>

\* sourceChangedCoolOffInterval after the change before.
CoolOff(n) ==
    /\ stage[n] = "cooling"
    /\ stage' = [stage EXCEPT ![n] = "monitored"]
    /\ UNCHANGED <<graph, groups, links, input, notices, setting, unread, changes>>

\* set_write_protected of a domain: only an object that is there can be set,
\* and it need not obey.
SetWriteProtected(d) ==
    /\ setting = "none" /\ changes < MaxChanges
    /\ groups[d].settable # "none"
    /\ LET n == groups[d].settable
       IN  /\ IsObject(n) /\ stage[n] \in {"online", "monitored", "cooling"}
           /\ \E v \in BOOLEAN : input' = [input EXCEPT ![n] = v]
           /\ notices' = IF input'[n] # input[n] THEN Notice(n) ELSE notices
    /\ setting' = d
    /\ changes' = changes + 1
    /\ UNCHANGED <<graph, groups, links, stage, unread>>

\* The source is read back, whatever it was set to.
ReadBack ==
    /\ setting # "none"
    /\ \/ /\ graph' = Propagate(SetSource(graph, SourceNode(groups[setting].settable),
                                          input[groups[setting].settable]))
          /\ unread' = unread \ {groups[setting].settable}
       \/ UNCHANGED <<graph, unread>>
    /\ setting' = "none"
    /\ UNCHANGED <<groups, links, stage, input, notices, changes>>

Proceeds == ReadBack \/ \E n \in Names : Online(n) \/ Activate(n) \/ Monitor(n) \/ CoolOff(n)

Next ==
    \/ \E n \in Names : AddGroup(n) \/ AddGpioGroup(n) \/ InputChanges(n)
    \/ \E d \in DOMAIN groups : SetWriteProtected(d)
    \/ Proceeds

Spec == Init /\ [][Next]_protectVars /\ WF_protectVars(Proceeds)

-----------------------------------------------------------------------------
TypeOK ==
    /\ graph.dirty \subseteq Nodes
    /\ DOMAIN groups \subseteq DOMAIN Configured
    /\ stage \in [Names -> {"none", "waiting", "online", "monitored", "cooling"}]
    /\ input \in [Names -> BOOLEAN]
    /\ unread \subseteq Names /\ setting \in DOMAIN groups \cup {"none"}
    /\ changes \in 0..MaxChanges

\* What a name should show, from the values the sources were last set to.
Combined(name, values) ==
    LET combined[n \in Names] ==
            IF n \notin DOMAIN groups \/ IsInput(n) THEN values[n]
            ELSE LET on == {s \in Configured[n].sources : combined[s]}
                 IN  IF Configured[n].op = "AND" THEN on # {} /\ on = Configured[n].sources
                                                ELSE on # {}
    IN  combined[name]

SourceValues == [n \in Names |-> graph.nodes[SourceNode(n)].output]

(* In whatever order groups were configured, sources adopted, replaced and *)
(* changed, each group and domain shows the combination of its sources.    *)
ShownIsCombined ==
    \A n \in DOMAIN groups : graph.told[groups[n].node] = Combined(n, SourceValues)

\* What is on line and could be read.
Readings == [n \in Names |-> stage[n] \in {"monitored", "cooling"} /\ input[n]]

(* When inputs rest, a group shows the combination of the values they have *)
(* - none for what is not there -, also of those that changed while the    *)
(* monitor cooled off.                                                     *)
FollowsInputs ==
    unread = {} => \A n \in DOMAIN groups : graph.told[groups[n].node] = Combined(n, Readings)
ProtectionFollowsInputs == <>[]FollowsInputs
=============================================================================
