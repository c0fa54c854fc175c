--------------------------- MODULE FrozenModules ----------------------------
(***************************************************************************)
(* The modules that are compiled beforehand                                *)
(* (Palm/PalmGlue/frozen_importer.c).  At the start of a session the code  *)
(* of every module of the table is looked for among the records of a       *)
(* database and then among the resources of the program; both are cached   *)
(* in one list, locked, the first time they are searched.  The entries     *)
(* that nobody has asked for are unlocked before Python starts, the others *)
(* after it has ended.                                                     *)
(***************************************************************************)
EXTENDS Naturals, Sequences, FiniteSets, SequencesExt

CONSTANTS
  Table,           (* the names of _PyImport_FrozenModules                  *)
  Contents,        (* what a database and the resources may hold: sequences *)
                   (* of the names of modules                               *)
  NoCode

(* The tool that writes the table takes each name once (make_resource.py:  *)
(* the sorted keys of a dictionary).                                       *)
ASSUME FrozenAssumption ==
  /\ \A c \in Contents \cup {Table} : c \in Seq(ToSet(c))
  /\ \A i, j \in DOMAIN Table : Table[i] = Table[j] => i = j
  /\ NoCode \notin {"db", "res"} \X Nat

VARIABLES
  stage,           (* "open", "db" and "res" (where it looks), "run", "ended" *)
  dbNames, resNames,   (* the modules in the database, in the resources     *)
  search_db,       (* could the database be opened?                         *)
  cached,          (* which of "db" and "res" were cached                   *)
  all,             (* the cache                                             *)
  next,            (* the place in the table                                *)
  code,            (* of each place, the entry its code and handle are from *)
  modLocks         (* how often the handle of each entry is locked          *)

givenVars  == <<dbNames, resNames>>
frozenVars == <<stage, givenVars, search_db, cached, all, next, code, modLocks>>

(* An entry is named by its source and its place there. *)
Entries == {<<s, k>> : s \in {"db", "res"},
                       k \in 1 .. Len(dbNames) + Len(resNames)}

FrozenInit ==
  /\ stage = "open" /\ dbNames \in Contents /\ resNames \in Contents
  /\ search_db = FALSE /\ cached = {} /\ all = <<>> /\ next = 1
  /\ code = [i \in DOMAIN Table |-> NoCode]
  /\ modLocks = [e \in Entries |-> 0]

OpenModules ==
  /\ stage = "open" /\ stage' = "db"
  /\ search_db' \in BOOLEAN
  /\ UNCHANGED <<givenVars, cached, all, next, code, modLocks>>

(* The entries of a source, the last one first, as they are put before     *)
(* those that are in the list.                                             *)
Listed(s, names) ==
  Reverse([k \in DOMAIN names |-> [name |-> names[k], entry |-> <<s, k>>, used |-> FALSE]])

Source(s) == IF s \in cached THEN <<>> ELSE Listed(s, IF s = "db" THEN dbNames ELSE resNames)

Found(list, name) == {k \in DOMAIN list : list[k].name = name}
First(list, name) == CHOOSE k \in Found(list, name) : \A j \in Found(list, name) : k <= j

(* fromCache marks the first entry with the name as used. *)
Mark(list, name) ==
  [k \in DOMAIN list |->
     IF k \in Found(list, name) /\ k = First(list, name) THEN [list[k] EXCEPT !.used = TRUE]
     ELSE list[k]]

(* Mutant: with a database, the resources are not looked through. *)
SearchOnlyOne(s, other) ==
  /\ stage = s /\ next <= Len(Table)
  /\ LET list == Source(s) \o all  name == Table[next] IN
       /\ cached' = cached \cup {s}
       /\ all' = Mark(list, name)
       /\ modLocks' = [e \in Entries |->
                         modLocks[e] + Cardinality({k \in DOMAIN Source(s) : Source(s)[k].entry = e})]
       /\ IF Found(list, name) # {}
          THEN code' = [code EXCEPT ![next] = list[First(list, name)].entry]
          ELSE UNCHANGED code
       /\ next' = next + 1 /\ stage' = "db"
  /\ UNCHANGED <<givenVars, search_db>>

(* search_datamanager or search_resources, and what is done with a result. *)
(* The resources come next when the database does not have the module.     *)
Search(s, other) ==
  /\ stage = s /\ next <= Len(Table)
  /\ LET list == Source(s) \o all  name == Table[next] IN
       /\ cached' = cached \cup {s}
       /\ all' = Mark(list, name)
       /\ modLocks' = [e \in Entries |->
                         modLocks[e] + Cardinality({k \in DOMAIN Source(s) : Source(s)[k].entry = e})]
       /\ IF Found(list, name) # {}
          THEN /\ code' = [code EXCEPT ![next] = list[First(list, name)].entry]
               /\ next' = next + 1 /\ stage' = "db"
          ELSE /\ UNCHANGED code
               /\ next' = IF s = "res" THEN next + 1 ELSE next
               /\ stage' = other
  /\ UNCHANGED <<givenVars, search_db>>

search_datamanager == search_db /\ Search("db", "res")
search_resources   == Search("res", "db")

SkipDatabase ==
  /\ stage = "db" /\ ~search_db /\ next <= Len(Table)
  /\ stage' = "res"
  /\ UNCHANGED <<givenVars, search_db, cached, all, next, code, modLocks>>

(* The entries are freed; the list that still points to them is not used   *)
(* again in a session.                                                     *)
cleanupCache ==
  /\ stage = "db" /\ next > Len(Table) /\ stage' = "run"
  /\ LET unused == {all[k].entry : k \in {j \in DOMAIN all : ~all[j].used}} IN
       modLocks' = [e \in Entries |-> IF e \in unused THEN modLocks[e] - 1 ELSE modLocks[e]]
  /\ all' = <<>>
  /\ UNCHANGED <<givenVars, search_db, cached, next, code>>

(* frozen_handles *)
Handle(e) == {i \in DOMAIN Table : code[i] = e}

cleanup_FrozenModules ==
  /\ stage = "run" /\ stage' = "ended"
  /\ modLocks' = [e \in Entries |-> modLocks[e] - Cardinality(Handle(e))]
  /\ UNCHANGED <<givenVars, search_db, cached, all, next, code>>

FrozenNext == OpenModules \/ search_datamanager \/ SkipDatabase \/ search_resources
              \/ cleanupCache \/ cleanup_FrozenModules

FrozenSpec == FrozenInit /\ [][FrozenNext]_frozenVars

-----------------------------------------------------------------------------
(* Properties *)

(* While Python runs, the memory of a record or resource is locked exactly *)
(* if a module has its code there, whatever was cached and passed over;    *)
(* afterwards nothing is locked.                                           *)
CodeStaysLocked ==
  /\ stage = "run" => \A e \in Entries : modLocks[e] = Cardinality(Handle(e))
  /\ stage = "ended" => \A e \in Entries : modLocks[e] = 0

(* A module has its code if it is in the database that could be opened or  *)
(* in the resources, and it has the code of its name.                      *)
Available(name) == (search_db /\ name \in ToSet(dbNames)) \/ name \in ToSet(resNames)
NameOf(e) == IF e[1] = "db" THEN dbNames[e[2]] ELSE resNames[e[2]]
FoundWhereverItIs ==
  stage = "run" => \A i \in DOMAIN Table :
    IF Available(Table[i]) THEN code[i] # NoCode /\ NameOf(code[i]) = Table[i]
                           ELSE code[i] = NoCode

(* Every module of the table that is in a database or the resources is     *)
(* found there, and its code stays where it was found while Python runs.   *)
ModulesKeepTheirCode == FoundWhereverItIs /\ CodeStaysLocked
=============================================================================
