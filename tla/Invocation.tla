----------------------------- MODULE Invocation -----------------------------
(* What a run does for every member before it launches any: run.rs          *)
(* run_announcing builds the invocations one member after another           *)
(* (invoke.rs build), through one resolver that remembers what it read      *)
(* (resolve.rs), and writes the configs the two sides will run under into   *)
(* the member's scratch. The documents are the operator's, who may edit or  *)
(* remove one at any moment of it.                                          *)
(*                                                                          *)
(* A text is a file at a version; what it says is a record of what the      *)
(* composition tells apart in it. A reference is <<where, name>>: "graph"   *)
(* is the graph's directory, "name" a persona's name, "catalog" a file of   *)
(* the persona catalog, "url" and "clear" are remote, the second not https. *)
EXTENDS Integers, Sequences, FiniteSets

CONSTANTS
    Order,        \* the members, in the order of their names
    Requests,     \* the requests made
    PlanOf(_),    \* what a request's graph and run ask
    Files,        \* the operator's documents, the graph and the catalog too
    Graph,        \* the graph's own
    Catalog,      \* the persona catalog
    FileOf,       \* the file a reference names, where there is one
    Says,         \* Says[f][v]: what f says at version v
    Versions,     \* bound: the versions of a file
    Edits,        \* bound: how often the operator edits or removes one
    Shipped,      \* the names of the personas this crate ships
    Folded        \* Folded[name]: the name where cases are not told apart

References == DOMAIN FileOf
Gone == 0

ASSUME InvocationAssumption ==
    /\ {Graph, Catalog} \subseteq Files
    /\ \A k \in References : FileOf[k] \in Files
    /\ Versions \in Nat \ {0} /\ Edits \in Nat
    /\ Order \in Seq({Order[i] : i \in DOMAIN Order}) /\ Order # <<>>
    /\ \A i, j \in DOMAIN Order : Order[i] = Order[j] => i = j

VARIABLES
    request,   \* the request this run serves
    blind,     \* the host's file names do not tell cases apart
    disk,      \* disk[f]: the version of f, or Gone
    edits,     \* how many edits and removals so far
    seen,      \* Resolver::seen: the text each reference was read as
    at,        \* the place in Order of the member being built
    todo,      \* what is still to be done for it
    read,      \* the references read for it, with the text each gave
    role,      \* the persona it was given
    entries,   \* the judges composed for it
    scratch,   \* what the files of the members' scratch were composed of
    launches,  \* the invocations built
    refs,      \* the record's `refs`
    verdict    \* "building", "refused" or "recorded"

buildVars == <<request, blind, disk, edits, seen, at, todo, read, role, entries,
               scratch, launches, refs, verdict>>

plan == PlanOf(request)
member == Order[at]
Asked == plan.of[member]
NoRef == <<"none", "none">>
Nothing == [k \in {} |-> {}]
With(f, k, v) == [q \in DOMAIN f \cup {k} |-> IF q = k THEN v ELSE f[q]]

-----------------------------------------------------------------------------
(* resolve.rs                                                               *)

\* `seen.contains_key`
AlreadyRead(k) == k \in DOMAIN seen

OnDisk(k) == k \in References /\ disk[FileOf[k]] # Gone

\* read, fetch: a remote reference must be https
Readable(k) == AlreadyRead(k) \/ (OnDisk(k) /\ k[1] # "clear")

\* Resolver::resolve
TextOf(k) ==
    IF AlreadyRead(k) THEN seen[k] ELSE [file |-> FileOf[k], version |-> disk[FileOf[k]]]

Resolve(k) ==
    /\ seen' = With(seen, k, TextOf(k))
    /\ read' = With(read, k, TextOf(k))

Document(text) == Says[text.file][text.version]

\* base_dir: a fetched document sits in no directory
HasDirectory(k) == k[1] # "url"

\* mutant: what the graph itself names, and not what its catalog holds
InventoryOfGraph == {seen[k] : k \in {q \in DOMAIN seen : q[1] = "graph"}}

\* Resolver::new, and the graph that run_announcing has read by then
GraphRead == With(Nothing, <<"cwd", "graph">>, [file |-> Graph, version |-> 1])

\* Resolver::inventory
Inventory == {seen[k] : k \in DOMAIN seen}

-----------------------------------------------------------------------------
(* persona.rs, and the persona a member names                               *)

\* RoleBar::compose. Mutant: a bar that replaces the base's may be no bar.
ReplacesByAny(d) == TRUE
ReplacesByOwn(d) == d.replaces => d.bar

PersonaIsSound(d) == d.sound /\ ~d.owned /\ ReplacesByOwn(d)

NoRole == [file |-> "none", version |-> Gone]

\* take_role_bar, take_replaces_base: what the persona says of the bar
RoleBar ==
    IF role = NoRole THEN [own |-> FALSE, instead |-> FALSE]
    ELSE [own |-> Document(role).bar, instead |-> Document(role).replaces]

\* merge, RoleBar::over: the texts whose bars the member is judged by
BarsOf(base) ==
    (IF Document(base).bar /\ ~RoleBar.instead THEN {base} ELSE {})
    \cup (IF RoleBar.own THEN {role} ELSE {})

\* validate_base, base_preamble, base_review_bar, and merge's own refusals
BaseIsSound(d) == d.sound /\ ~d.owned

\* catalog_file looks at the disk, whatever was read before
InCatalog(name) == plan.catalog /\ OnDisk(<<"catalog", name>>)

\* persona_document
PersonaKey(ref) ==
    IF ref[1] # "name" THEN ref
    ELSE IF InCatalog(ref[2]) THEN <<"catalog", ref[2]>> ELSE <<"graph", ref[2]>>

IsShipped(ref) == ref[1] = "name" /\ ref[2] \in Shipped

Ambiguous(ref) ==
    /\ ref[1] = "name"
    /\ \/ InCatalog(ref[2]) /\ IsShipped(ref)
       \/ plan.catalog /\ ~InCatalog(ref[2]) /\ ~IsShipped(ref)

\* What a persona's reference is read as
RoleText(ref) ==
    IF IsShipped(ref) THEN [file |-> ref[2], version |-> 1] ELSE TextOf(PersonaKey(ref))

CanLoad(ref) ==
    /\ ~Ambiguous(ref)
    /\ IsShipped(ref) \/ Readable(PersonaKey(ref))
    /\ PersonaIsSound(Document(RoleText(ref)))

-----------------------------------------------------------------------------
(* invoke.rs: one side's config, stamped for the member                     *)

AgentSide == [model |-> Asked.model, mode |-> TRUE, stamped |-> TRUE]
BareSide == [model |-> FALSE, mode |-> FALSE, stamped |-> FALSE]
JudgeSide(j) == [model |-> j.model, mode |-> FALSE, stamped |-> TRUE]

OwnSide == IF Asked.kind = "onejudge" THEN AgentSide ELSE BareSide

\* harness_families: one model names no model of two families, nor of none
Pairable(d) == Cardinality(d.families) = 1

\* anchored: a path that names no root of its own is given one
Anchored(path) == IF path = "relative" THEN "rooted" ELSE path

\* anchor_paths: what becomes of the paths written in the document of k
PathOf(d, k) == IF HasDirectory(k) THEN Anchored(d.path) ELSE d.path

\* stamp_side
Stamped(k, t, side) ==
    [text |-> t, path |-> PathOf(Document(t), k),
     model |-> IF side.model THEN Document(t).families ELSE {},
     mode |-> side.mode, owner |-> IF side.stamped THEN member ELSE "nobody"]

Untouched(side, k) == side = BareSide /\ ~HasDirectory(k)

CanStamp(k, t, side) ==
    /\ Document(t).sound \/ Untouched(side, k)
    /\ Document(t).path # "no path" \/ ~HasDirectory(k)
    /\ side.model => Pairable(Document(t))

-----------------------------------------------------------------------------
(* provider_block, one judge at a time                                      *)

Judge == Asked.judges[Len(entries) + 1]
OneHarness == Len(Asked.judges) = 1 /\ Asked.judges[1].kind = "oneharness"

\* judge_file_label. <<s, 1>> is spelled s, and <<s, n>> is spelled s-n.
JudgeFile(k) ==
    LET j == Asked.judges[k]
    IN  IF OneHarness THEN <<"oneharness.judge.toml", 1>>
        ELSE IF j.label # NoRef THEN j.label
        ELSE <<j.kind, Cardinality({i \in 1 .. k : Asked.judges[i].kind = j.kind})>>

\* mutant: no file is claimed by an earlier judge
NoneClaimed == {}

\* `written`
Claimed == {entries[i].file : i \in 1 .. Len(entries)}

\* AGENT_CONFIG_FILE
OwnFile == <<"oneharness.toml", 1>>

\* A label is a file's name with no dot in it (is_judge_label)
ASSUME PlansAssumption ==
    \A r \in Requests, i \in DOMAIN Order :
        LET p == PlanOf(r).of[Order[i]]
        IN  /\ p.kind \in {"oneharness", "onejudge"}
            /\ p.judges \in Seq({p.judges[k] : k \in DOMAIN p.judges})
            /\ \A k \in DOMAIN p.judges : p.judges[k].label # OwnFile

\* The file a name opens in a member's scratch
PathIn(n, name) == <<n, IF blind /\ name \in DOMAIN Folded THEN Folded[name] ELSE name>>

CanJudge(j) ==
    /\ j.kind = "oneharness" =>
        /\ Readable(j.config)
        /\ CanStamp(j.config, TextOf(j.config), JudgeSide(j))
        /\ JudgeFile(Len(entries) + 1) \notin Claimed
    /\ j.kind = "llmlint" => j.config = NoRef \/ OnDisk(j.config)

-----------------------------------------------------------------------------
(* What else a launch carries                                               *)

\* reporting: a schema run does not stream
Reporting(d) == IF d.schema \/ d.stream = "false" THEN "buffered" ELSE "streamed"

\* member_task, expand_task: {task} is the run's from version 4 on
Prompt ==
    IF Asked.task = "none" THEN "the run's"
    ELSE IF Asked.task = "token" /\ plan.template
         THEN IF plan.given THEN "its own around the run's" ELSE "its own around nothing"
         ELSE "its own"

\* member_dir, scratch_anchored
Worktree ==
    IF Asked.dir \/ plan.rooted THEN "rooted"
    ELSE IF Asked.kind = "oneharness" THEN "in scratch" ELSE "as given"

Launchable ==
    /\ Asked.task # "none" \/ plan.given
    /\ Asked.kind = "oneharness" =>
        LET d == Document(read[Asked.config]) IN d.sound /\ ~(d.schema /\ d.stream = "true")

\* HarnessLaunch, JudgeLaunch
Launched ==
    [read |-> read, prompt |-> Prompt, worktree |-> Worktree,
     judges |-> [k \in 1 .. Len(entries) |-> entries[k].file],
     role |-> role,
     bars |-> IF Asked.kind = "onejudge" THEN BarsOf(read[Asked.base]) ELSE {},
     reporting |-> IF Asked.kind = "oneharness"
                   THEN Reporting(Document(read[Asked.config])) ELSE "streamed"]

-----------------------------------------------------------------------------
Steps(n) ==
    IF plan.of[n].kind = "oneharness" THEN <<"start", "config", "role", "stamp", "launch">>
    ELSE <<"start", "base", "role", "merge", "config", "stamp">>
         \o [j \in 1 .. Len(plan.of[n].judges) |-> "judge"] \o <<"launch">>

BuildInit ==
    /\ request \in Requests
    /\ blind \in BOOLEAN
    /\ disk = [f \in Files |-> 1]
    /\ edits = 0
    /\ seen = GraphRead
    /\ at = 1 /\ todo = Steps(Order[1])
    /\ read = Nothing /\ role = NoRole /\ entries = <<>>
    /\ scratch = Nothing /\ launches = Nothing
    /\ refs = {} /\ verdict = "building"

Doing(step) == verdict = "building" /\ todo # <<>> /\ Head(todo) = step
Done == todo' = Tail(todo)
Kept == <<request, blind, disk, edits, at, launches, refs, verdict>>

Possible ==
    /\ Doing("start") /\ plan.catalog => disk[Catalog] # Gone
    /\ Doing("base") => Readable(Asked.base)
    /\ Doing("role") => Asked.persona = NoRef \/ CanLoad(Asked.persona)
    /\ Doing("merge") => BaseIsSound(Document(read[Asked.base]))
    /\ Doing("config") => Readable(Asked.config)
    /\ Doing("stamp") => CanStamp(Asked.config, read[Asked.config], OwnSide)
    /\ Doing("judge") => CanJudge(Judge)
    /\ Doing("launch") => Launchable

\* build: a catalog the graph named is read whether or not it is looked in
Start ==
    /\ Doing("start") /\ Possible /\ Done
    /\ UNCHANGED <<Kept, seen, read, role, entries, scratch>>

ReadBase ==
    /\ Doing("base") /\ Possible /\ Done
    /\ Resolve(Asked.base)
    /\ UNCHANGED <<Kept, role, entries, scratch>>

\* load_persona. A shipped one is no reference of the run's.
LoadPersona ==
    /\ Doing("role") /\ Possible /\ Done
    /\ role' = IF Asked.persona = NoRef THEN NoRole ELSE RoleText(Asked.persona)
    /\ IF Asked.persona = NoRef \/ IsShipped(Asked.persona)
       THEN UNCHANGED <<seen, read>>
       ELSE Resolve(PersonaKey(Asked.persona))
    /\ UNCHANGED <<Kept, entries, scratch>>

Merge ==
    /\ Doing("merge") /\ Possible /\ Done
    /\ UNCHANGED <<Kept, seen, read, role, entries, scratch>>

ReadConfig ==
    /\ Doing("config") /\ Possible /\ Done
    /\ Resolve(Asked.config)
    /\ UNCHANGED <<Kept, role, entries, scratch>>

\* harness_side's end, and write
StampSide ==
    /\ Doing("stamp") /\ Possible /\ Done
    /\ scratch' = With(scratch, PathIn(member, OwnFile),
                       Stamped(Asked.config, read[Asked.config], OwnSide))
    /\ UNCHANGED <<Kept, seen, read, role, entries>>

ComposeHarnessJudge ==
    /\ Doing("judge") /\ Possible /\ Done
    /\ Judge.kind = "oneharness"
    /\ Resolve(Judge.config)
    /\ scratch' = With(scratch, PathIn(member, JudgeFile(Len(entries) + 1)),
                       Stamped(Judge.config, TextOf(Judge.config), JudgeSide(Judge)))
    /\ entries' = Append(entries, [file |-> JudgeFile(Len(entries) + 1)])
    /\ UNCHANGED <<Kept, role>>

\* An llmlint judge is handed its file where it stands, a command nothing
ComposeOtherJudge ==
    /\ Doing("judge") /\ Possible /\ Done
    /\ Judge.kind # "oneharness"
    /\ entries' = Append(entries, [file |-> NoRef])
    /\ UNCHANGED <<Kept, seen, read, role, scratch>>

\* The end of onejudge, or of build, and the next turn of run's loop
Launch ==
    /\ Doing("launch") /\ Possible
    /\ launches' = With(launches, member, Launched)
    /\ at' = at + 1
    /\ todo' = IF at < Len(Order) THEN Steps(Order[at + 1]) ELSE <<>>
    /\ read' = Nothing /\ role' = NoRole /\ entries' = <<>>
    /\ UNCHANGED <<request, blind, disk, edits, seen, scratch, refs, verdict>>

RefuseBuild ==
    /\ ~Possible
    /\ verdict' = "refused"
    /\ UNCHANGED <<request, blind, disk, edits, seen, at, todo, read, role, entries,
                   scratch, launches, refs>>

\* `record.refs = resolver.inventory()`
RecordRefs ==
    /\ verdict = "building" /\ at > Len(Order)
    /\ refs' = Inventory
    /\ verdict' = "recorded"
    /\ UNCHANGED <<request, blind, disk, edits, seen, at, todo, read, role, entries,
                   scratch, launches>>

\* The operator edits or removes a document, or puts it back
Edit(f) ==
    /\ verdict = "building" /\ edits < Edits
    /\ disk' \in {[disk EXCEPT ![f] = v] : v \in (0 .. Versions) \ {disk[f]}}
    /\ edits' = edits + 1
    /\ UNCHANGED <<request, blind, seen, at, todo, read, role, entries,
                   scratch, launches, refs, verdict>>

BuildNext ==
    \/ Start \/ ReadBase \/ LoadPersona \/ Merge \/ ReadConfig \/ StampSide
    \/ ComposeHarnessJudge \/ ComposeOtherJudge \/ Launch
    \/ RefuseBuild \/ RecordRefs
    \/ \E f \in Files : Edit(f)

-----------------------------------------------------------------------------
SidePath(n, name) == scratch[PathIn(n, name)]

(* Once a run is recorded, every side of every member finds in its scratch  *)
(* what was composed for it alone: the text its own reference was read as,  *)
(* its own model and nobody's mode but the agent's, and no path left to     *)
(* resolve in the scratch unless the document was fetched (invoke.rs        *)
(* stamp_side, provider_block: two judges that would share a file "are      *)
(* refused here, naming both, rather than the second silently overwriting   *)
(* the first"). A host that does not tell cases apart is left out: there    *)
(* two labels may open one file.                                            *)
SidesRunAsWritten ==
    verdict = "recorded" /\ ~blind => \A n \in DOMAIN launches :
        LET p == plan.of[n]
            own == SidePath(n, OwnFile)
        IN  /\ own.text = launches[n].read[p.config]
            /\ own.mode <=> p.kind = "onejudge"
            /\ own.path = "relative" => p.config[1] = "url"
            /\ \A k \in 1 .. Len(launches[n].judges) : p.judges[k].kind = "oneharness" =>
                   LET side == SidePath(n, launches[n].judges[k])
                   IN  /\ side.text = launches[n].read[p.judges[k].config]
                       /\ ~side.mode /\ side.owner = n
                       /\ side.model # {} <=> p.judges[k].model
                       /\ side.path = "relative" => p.judges[k].config[1] = "url"

(* However the operator edits the documents meanwhile, the record's `refs`  *)
(* are the texts the members run under, the graph among them, and two       *)
(* members that name one reference run under one text (resolve.rs           *)
(* Resolver).                                                               *)
InventoryIsWhatRan ==
    /\ verdict = "recorded" =>
        refs = {[file |-> Graph, version |-> 1]} \cup
               UNION {{launches[n].read[k] : k \in DOMAIN launches[n].read} : n \in DOMAIN launches}
    /\ \A n1, n2 \in DOMAIN launches :
        \A k \in DOMAIN launches[n1].read \cap DOMAIN launches[n2].read :
            launches[n1].read[k] = launches[n2].read[k]

(* No persona takes a member's review bar away: a member whose base has one *)
(* is launched under it, or under the persona's own (persona.rs             *)
(* RoleBar::compose).                                                       *)
NobodyUnjudged ==
    \A n \in DOMAIN launches :
        plan.of[n].kind = "onejudge" /\ Document(launches[n].read[plan.of[n].base]).bar =>
            launches[n].bars # {}

=============================================================================
