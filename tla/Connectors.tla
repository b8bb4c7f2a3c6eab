---------------------------- MODULE Connectors ----------------------------
(***************************************************************************)
(* The list of connectors of a home and the three copies of it: config.json *)
(* (connect_cmd, config), the connectors table (init_cmd, db) and the stubs *)
(* workflows are typechecked against (stubs).  The commands init, add,      *)
(* import, remove and sync, and the MCP tool add_connector, read the file   *)
(* whole, change it in memory, write it whole, ask every server for its     *)
(* tools and rewrite the two other copies.  Nothing locks the file, several *)
(* commands may be at it at once, and each may be killed between two steps. *)
(***************************************************************************)
EXTENDS Integers, Sequences

CONSTANTS Procs,        \* processes that run a command
          Names,        \* names of servers
          Attr,         \* Attr[n]: python_identifier(n), the ctx attribute
          Reserved,     \* the names whose attribute is ctx's own
          Slots,        \* where a value may stand: the headers, each spelling its own,
                        \* the variables of the environment, the url, the arguments
          Headers,      \* the slots that are headers
          Recognised,   \* SECRET_HEADERS in any case, and the variables of _SECRET_ENV
          Commands,     \* the commands somebody gives
          MaxCommands   \* bound: how many commands are given

\* What a slot holds: nothing, a secret and no ${VAR}, a value with a ${VAR} somebody
\* chose, or one with a ${RUNLACE_...} placeholder.
Value == {"none", "literal", "own", "generated"}
Working == {"literal", "own"}
Credential == [Slots -> Value]

\* One connector given to a command, and the commands.
Entry == [name : Names, cred : Credential]
Kind == {"init", "add", "import", "chat", "remove", "sync"}

ASSUME ConnectorsAssumption ==
    /\ Reserved \subseteq Names
    /\ Headers \subseteq Slots /\ Recognised \subseteq Slots
    /\ MaxCommands \in Nat
    /\ \A c \in Commands :
          /\ c.kind \in Kind
          /\ c.entries \in Seq(Entry)
          /\ c.kind = "remove" => c.entries # <<>>

VARIABLES config,       \* config.json: its state and its connectors
          table,        \* the connectors table: name -> credential and tools
          pyi,          \* the attributes with a stub file
          ctx,          \* the attributes ctx.pyi declares
          at,           \* where each process is, and what it holds in memory
          given,        \* commands given so far
          \* What happened, for the properties only:
          held,         \* the last list config.json held whole
          settled       \* the last command ended well, and nothing ran beside it

vars == <<config, table, pyi, ctx, at, given, held, settled>>

\* A process between commands.
Idle == [pc |-> "idle", kind |-> "sync", entries |-> <<>>, list |-> <<>>,
         up |-> {}, shared |-> FALSE]

Active == {p \in Procs : at[p].pc # "idle"}

-----------------------------------------------------------------------------
(* What the commands compute *)

Without(f, S) == [n \in DOMAIN f \ S |-> f[n]]

With(f, n, c) == [m \in DOMAIN f \cup {n} |-> IF m = n THEN c ELSE f[m]]

\* read_config: an entry whose attribute is ctx's own is dropped on the way in.
Readable(list) == Without(list, Reserved)

\* A variant: the incoming connector as it is.
TakeIncoming(old, new) == new

\* In a header of the same spelling a placeholder does not replace a value that is
\* no placeholder; anything else does, and so does an absent header.
KeepWorkingReferences(old, new) ==
    [s \in Slots |-> IF s \in Headers /\ new[s] = "generated" /\ old[s] \in Working
                     THEN old[s] ELSE new[s]]

\* A variant: names are compared, attributes are not.
SameName(list, n) == {}

\* The names of the list that already have the attribute of n.
Clashing(list, n) == {m \in DOMAIN list : Attr[m] = Attr[n] /\ m # n}

\* merge: one incoming connector after the other, a clash skipped.
MergeOne(list, e) ==
    IF Clashing(list, e.name) # {} THEN list
    ELSE With(list, e.name, IF e.name \in DOMAIN list
                            THEN KeepWorkingReferences(list[e.name], e.cred)
                            ELSE e.cred)

Merge(existing, entries) ==
    LET after[i \in 0 .. Len(entries)] ==
            IF i = 0 THEN existing ELSE MergeOne(after[i - 1], entries[i])
    IN  after[Len(entries)]

\* MergeResult.changed: some entry was not skipped.
Changes(existing, entries) ==
    \E i \in DOMAIN entries :
        Clashing(Merge(existing, SubSeq(entries, 1, i - 1)), entries[i].name) = {}

\* import_from_files: the last definition of a name wins, the first name of an
\* attribute; reserved attributes are left out.
Imported(entries) ==
    LET First(n) == CHOOSE i \in DOMAIN entries :
                        /\ entries[i].name = n
                        /\ \A j \in 1 .. i - 1 : entries[j].name # n
        Last(n) == CHOOSE i \in DOMAIN entries :
                        /\ entries[i].name = n
                        /\ \A j \in i + 1 .. Len(entries) : entries[j].name # n
        found == {entries[i].name : i \in DOMAIN entries} \ Reserved
        kept == {n \in found : \A m \in found :
                    Attr[m] = Attr[n] => First(n) <= First(m)}
    IN [n \in kept |-> entries[Last(n)].cred]

-----------------------------------------------------------------------------
(* The steps *)

Init ==
    /\ config = [state |-> "absent", list |-> <<>>]
    /\ table = <<>>
    /\ pyi = {}
    /\ ctx = {}
    /\ at = [p \in Procs |-> Idle]
    /\ given = 0
    /\ held = <<>>
    /\ settled = FALSE

files == <<config, table, pyi, ctx>>

\* A command gets to work.  The ones under way, and this one, have company.
Give(p, kind, entries) ==
    /\ at[p].pc = "idle"
    /\ given < MaxCommands
    /\ given' = given + 1
    /\ at' = [q \in Procs |->
                IF q = p THEN [Idle EXCEPT !.pc = "begun", !.kind = kind,
                                           !.entries = entries,
                                           !.shared = Active # {}]
                ELSE IF q \in Active THEN [at[q] EXCEPT !.shared = TRUE]
                ELSE at[q]]
    /\ UNCHANGED <<files, held, settled>>

Given(kind) == {c.entries : c \in {d \in Commands : d.kind = kind}}

\* Some command brings a literal for slot s of n: an init, if check_headers and
\* check_env know the slot.
BroughtIn(n, s) ==
    \E c \in Commands : \E i \in DOMAIN c.entries :
        /\ c.entries[i].name = n /\ c.entries[i].cred[s] = "literal"
        /\ s \in Recognised => c.kind = "init"

\* _existing_home: every command but init, and not the tool, needs one.
ExistingHome == config.state # "absent"

\* build_connector: a literal is refused (LiteralSecret) where one is looked for.
NoLiteral(entry) == \A s \in Recognised : entry.cred[s] # "literal"

\* _headers_for: there a placeholder stands for the secret the UI holds; what it has
\* in another header comes as it is.  (For a bearer token, which is in no header of
\* the UI, a placeholder is among the entries.)
HeadersFor(entry) ==
    [entry EXCEPT !.cred =
        [s \in Slots |-> IF s \in Recognised /\ @[s] = "literal" THEN "generated" ELSE @[s]]]

GiveInit(p) == \E s \in Given("init") : Give(p, "init", s)

GiveAdd(p) ==
    /\ ExistingHome
    /\ \E s \in Given("add") :
          /\ \A i \in DOMAIN s : NoLiteral(s[i])
          /\ Give(p, "add", s)

\* The entries of Open WebUI: an empty list ends the command.
GiveImport(p) ==
    /\ ExistingHome
    /\ \E s \in Given("import") :
          /\ s # <<>>
          /\ Give(p, "import", [i \in DOMAIN s |-> HeadersFor(s[i])])

\* The MCP tool add_connector.
GiveChat(p) ==
    \E s \in Given("chat") :
        /\ \A i \in DOMAIN s : NoLiteral(s[i])
        /\ Give(p, "chat", s)

GiveRemove(p) == ExistingHome /\ \E s \in Given("remove") : Give(p, "remove", s)

GiveSync(p) == ExistingHome /\ \E s \in Given("sync") : Give(p, "sync", s)

\* The command ends before it wrote anything: an error, a traceback, nothing to
\* do, or a question to the human.
End(p) == at' = [at EXCEPT ![p] = Idle]

Holding(p, list, pc) == at' = [at EXCEPT ![p].list = list, ![p].pc = pc]

\* A variant: a file that does not parse is an empty list.
StoredOrEmpty ==
    IF config.state = "whole" THEN {Readable(config.list)} ELSE {<<>>}

\* _stored: what a reader of the file gets.  No file is no connectors; a
\* truncated or mixed one does not parse, and the command dies of it.
Stored ==
    IF config.state = "whole" THEN {Readable(config.list)}
    ELSE IF config.state = "absent" THEN {<<>>}
    ELSE {}

\* run_init: the list of the sources, whatever the file held.
Import(p) ==
    /\ at[p].pc = "begun"
    /\ at[p].kind = "init"
    /\ Holding(p, Imported(at[p].entries), "decided")
    /\ UNCHANGED <<files, given, held, settled>>

\* add_connector plans on a first reading; without an effect it stops there, and
\* without confirm as well.
Plan(p) ==
    /\ at[p].pc = "begun"
    /\ at[p].kind = "chat"
    /\ \/ \E list \in Stored :
             /\ Changes(list, at[p].entries)
             /\ at' = [at EXCEPT ![p].pc = "planned"]
       \/ End(p)
    /\ UNCHANGED <<files, given, held, settled>>

\* add_connectors: merge into a (second) reading, and persist even when every
\* incoming connector was skipped.
Add(p) ==
    /\ \/ at[p].pc = "begun" /\ at[p].kind \in {"add", "import"}
       \/ at[p].pc = "planned"
    /\ \E list \in Stored : Holding(p, Merge(list, at[p].entries), "decided")
    /\ UNCHANGED <<files, given, held, settled>>

\* remove_connector: nothing is persisted when the name is not there.
Remove(p) ==
    /\ at[p].pc = "begun"
    /\ at[p].kind = "remove"
    /\ \E list \in Stored :
          LET n == at[p].entries[1].name
          IN  IF n \in DOMAIN list THEN Holding(p, Without(list, {n}), "decided")
              ELSE End(p)
    /\ UNCHANGED <<files, given, held, settled>>

\* run_sync: the list as it is, no write.
Sync(p) ==
    /\ at[p].pc = "begun"
    /\ at[p].kind = "sync"
    /\ \E list \in Stored : Holding(p, list, "written")
    /\ UNCHANGED <<files, given, held, settled>>

\* The file cannot be read.
Refuse(p) ==
    /\ at[p].pc \in {"begun", "planned"}
    /\ at[p].kind # "init"
    /\ Stored = {}
    /\ End(p)
    /\ UNCHANGED <<files, given, held, settled>>

\* write_config, first half: write_text opens the file and thereby empties it.
Truncate(p) ==
    /\ at[p].pc = "decided"
    /\ config' = [state |-> "empty", list |-> <<>>]
    /\ at' = [at EXCEPT ![p].pc = "truncated"]
    /\ settled' = FALSE
    /\ UNCHANGED <<table, pyi, ctx, given, held>>

\* write_config, second half.  If another process has written since p emptied the
\* file, what is longer of its text stays behind p's own, and no reader parses that.
Write(p) ==
    /\ at[p].pc = "truncated"
    /\ \/ /\ config' = [state |-> "whole", list |-> at[p].list]
          /\ held' = at[p].list
       \/ /\ config.state # "empty"
          /\ config' = [state |-> "mixed", list |-> <<>>]
          /\ held' = held
    /\ at' = [at EXCEPT ![p].pc = "written"]
    /\ UNCHANGED <<table, pyi, ctx, given, settled>>

\* A variant: the rows of names that left the list stay.
PersistUnpruned(p) ==
    /\ at[p].pc = "written"
    /\ \E up \in SUBSET DOMAIN at[p].list :
          /\ table' = [n \in DOMAIN at[p].list \cup DOMAIN table |->
                          IF n \in DOMAIN at[p].list
                          THEN [cred |-> at[p].list[n], tools |-> n \in up]
                          ELSE table[n]]
          /\ at' = [at EXCEPT ![p].pc = "persisted",
                              ![p].up = {Attr[n] : n \in up}]
    /\ settled' = FALSE
    /\ UNCHANGED <<config, pyi, ctx, given, held>>

\* discover_and_persist: every server of the list answers or does not; one
\* transaction prunes the names that are not in the list and replaces the rest.
Persist(p) ==
    /\ at[p].pc = "written"
    /\ \E up \in SUBSET DOMAIN at[p].list :
          /\ table' = [n \in DOMAIN at[p].list |->
                          [cred |-> at[p].list[n], tools |-> n \in up]]
          /\ at' = [at EXCEPT ![p].pc = "persisted",
                              ![p].up = {Attr[n] : n \in up}]
    /\ settled' = FALSE
    /\ UNCHANGED <<config, pyi, ctx, given, held>>

\* stubs.generate: the old stubs go, ...
ClearStubs(p) ==
    /\ at[p].pc = "persisted"
    /\ pyi' = {}
    /\ at' = [at EXCEPT ![p].pc = "cleared"]
    /\ UNCHANGED <<config, table, ctx, given, held, settled>>

\* ... the new ones are written, for the servers that answered, ...
WriteStubs(p) ==
    /\ at[p].pc = "cleared"
    /\ pyi' = pyi \cup at[p].up
    /\ at' = [at EXCEPT ![p].pc = "stubbed"]
    /\ UNCHANGED <<config, table, ctx, given, held, settled>>

\* ... and ctx.pyi names them.  The command is done.
WriteCtx(p) ==
    /\ at[p].pc = "stubbed"
    /\ ctx' = at[p].up
    /\ settled' = ~at[p].shared
    /\ End(p)
    /\ UNCHANGED <<config, table, pyi, given, held>>

\* The command is killed, or an exception ends it: the database stayed locked, a
\* stub it was about to unlink was gone.
Kill(p) ==
    /\ at[p].pc # "idle"
    /\ End(p)
    /\ UNCHANGED <<files, given, held, settled>>

Next ==
    \E p \in Procs :
        \/ GiveInit(p)   \/ GiveAdd(p)    \/ GiveImport(p)
        \/ GiveChat(p)   \/ GiveRemove(p) \/ GiveSync(p)
        \/ Import(p)     \/ Plan(p)       \/ Add(p)
        \/ Remove(p)     \/ Sync(p)       \/ Refuse(p)
        \/ Truncate(p)   \/ Write(p)      \/ Persist(p)
        \/ ClearStubs(p) \/ WriteStubs(p) \/ WriteCtx(p)
        \/ Kill(p)

Spec == Init /\ [][Next]_vars

-----------------------------------------------------------------------------
(* Properties *)

Place == {"idle", "begun", "planned", "decided", "truncated", "written",
          "persisted", "cleared", "stubbed"}

Attrs == {Attr[n] : n \in Names}

ByName(f, S) == DOMAIN f \subseteq Names /\ f \in [DOMAIN f -> S]

TypeOK ==
    /\ config.state \in {"absent", "empty", "mixed", "whole"} /\ ByName(config.list, Credential)
    /\ ByName(table, [cred : Credential, tools : BOOLEAN])
    /\ pyi \subseteq Attrs /\ ctx \subseteq Attrs
    /\ \A p \in Procs : at[p].pc \in Place /\ ByName(at[p].list, Credential)
    /\ ByName(held, Credential)

OneOwner(list) == \A m, n \in DOMAIN list : Attr[m] = Attr[n] => m = n

\* However the commands interleave, no two connectors of the file, of a list
\* about to be written or of the table share an attribute: the UNIQUE of the
\* table never refuses a row and no stub is written over another's.
OneNamePerAttr ==
    /\ OneOwner(config.list)
    /\ OneOwner(table)
    /\ \A p \in Procs : OneOwner(at[p].list)

Tooled == {Attr[n] : n \in {m \in DOMAIN table : table[m].tools}}

\* After a command that nothing ran beside, whatever was torn before it, the
\* file, the table and the stubs tell the same story, and stay so until the
\* next one writes.  The file may keep a reserved name that no reader sees.
QuietHomeAgrees ==
    settled =>
        /\ config.state = "whole"
        /\ DOMAIN Readable(config.list) = DOMAIN table \ Reserved
        /\ \A n \in DOMAIN table \ Reserved : table[n].cred = config.list[n]
        /\ pyi = Tooled
        /\ ctx = Tooled

\* add, import, remove and the tool leave every other connector as it was: one
\* disappears from the file only by its own removal, by an init, or by a command
\* that ran beside another.  A file that was truncated is refused, not taken for
\* a home without connectors.
NothingSilentlyDropped ==
    [][\A p \in Procs :
          Write(p) /\ at[p].kind # "init" /\ ~at[p].shared =>
              LET touched == {at[p].entries[i].name : i \in DOMAIN at[p].entries}
              IN  \A n \in DOMAIN Readable(held) \ touched :
                      n \in DOMAIN held' /\ held'[n] = held[n]]_vars

\* Outside init no placeholder takes the place of a header that worked: where a
\* command brings nothing but placeholders for a header, in the same spelling, what
\* the file held there stays.  (Another spelling of the header, a variable of the
\* environment, and a first of two servers of one name that has no such header, do
\* lose it.)
WorkingCredentialSurvives ==
    [][\A p \in Procs, n \in Names, s \in Headers :
          /\ Write(p) /\ at[p].kind # "init" /\ ~at[p].shared
          /\ n \in DOMAIN Readable(held) /\ n \in DOMAIN held'
          /\ held[n][s] \in Working
          /\ \A i \in DOMAIN at[p].entries :
                at[p].entries[i].name = n => at[p].entries[i].cred[s] = "generated"
          => held'[n][s] = held[n][s]]_vars

\* A literal is in the file, or on its way there, only in the connector and the slot
\* somebody gave it for, whatever was merged with what; in a slot that check_headers
\* or check_env knows, only if a source file of an init had it there.
SecretsStayOut ==
    \A list \in {config.list} \cup {at[p].list : p \in Procs} :
        \A n \in DOMAIN list, s \in Slots :
            list[n][s] = "literal" => BroughtIn(n, s)

\* What is in the file, or on its way there, is fit to be read, to be put in the
\* table and to be shown to others.
FileIsSound == TypeOK /\ OneNamePerAttr /\ SecretsStayOut
=============================================================================
