------------------------------- MODULE Debug -------------------------------
(***************************************************************************)
(* debug.c: the sorted array of the files whose debug messages are wanted, *)
(* and its binary search, step by step.  A name is a number: strcmp only   *)
(* orders them.  One cell behind the array is part of the model.           *)
(***************************************************************************)
EXTENDS Integers

CONSTANTS Names,              \* the names of source files, in alphabetical order
          MAX_FILES_NUMBER    \* 64 in debug.c

ASSUME DebugAssumption == Names \subseteq Nat /\ MAX_FILES_NUMBER \in Nat \ {0}

VARIABLES debugged_files, nb_debugged_files,
          search,     \* the call of __is_debugged: name, from, to, answer
          wanted,     \* for the properties: the names that add_debug_to has taken,
          named,      \* those that it was given,
          additions       \* and how often it was called

filesVars == <<debugged_files, nb_debugged_files, wanted, named, additions>>
debugVars == <<filesVars, search>>

NoSearch == [name |-> 0, from |-> 0, to |-> 0, answer |-> "none"]

DebugInit ==
    /\ debugged_files = [i \in 0..MAX_FILES_NUMBER |-> 0]     \* null pointers
    /\ nb_debugged_files = 0
    /\ search = NoSearch /\ wanted = {} /\ named = {} /\ additions = 0

(* The first cell that does not hold a smaller name; the loop also ends    *)
(* behind the last name and behind the array.                              *)
IsPlace(name, i) ==
    /\ i \in 0..MAX_FILES_NUMBER /\ i <= nb_debugged_files
    /\ \A k \in 0..(i - 1) : debugged_files[k] < name
    /\ i < nb_debugged_files /\ i < MAX_FILES_NUMBER => ~(debugged_files[i] < name)

(* mutant: the name goes behind the last one, wherever it belongs *)
AddAtTheEnd(name) ==
    /\ nb_debugged_files < MAX_FILES_NUMBER
    /\ debugged_files' = [debugged_files EXCEPT ![nb_debugged_files] = name]
    /\ nb_debugged_files' = nb_debugged_files + 1
    /\ wanted' = wanted \cup {name}
    /\ named' = named \cup {name} /\ additions' = additions + 1
    /\ UNCHANGED search

(* When the array is full, a name that belongs behind its end is dropped,  *)
(* and one that belongs in front of it moves the last one behind it; what  *)
(* comes after that is not followed.                                       *)
add_debug_to(name) ==
    /\ nb_debugged_files <= MAX_FILES_NUMBER
    /\ \E i \in 0..MAX_FILES_NUMBER :
          /\ IsPlace(name, i)
          /\ IF i >= MAX_FILES_NUMBER
             THEN UNCHANGED <<debugged_files, nb_debugged_files, wanted>>
             ELSE /\ debugged_files' = [j \in 0..MAX_FILES_NUMBER |->
                        IF j = i THEN name
                        ELSE IF i < j /\ j <= nb_debugged_files THEN debugged_files[j - 1]
                        ELSE debugged_files[j]]
                  /\ nb_debugged_files' = nb_debugged_files + 1
                  /\ wanted' = wanted \cup {name}
    /\ named' = named \cup {name} /\ additions' = additions + 1
    /\ UNCHANGED search

----------------------------------------------------------------------------
(* __is_debugged, which ends with an answer. *)

is_debugged_starts(name) ==
    /\ search' = [name |-> name, from |-> 0, to |-> nb_debugged_files - 1, answer |-> "sought"]
    /\ UNCHANGED filesVars

Middle == (search.from + search.to) \div 2

(* mutant: the upper half is taken without its first name *)
SearchSkipsOne ==
    /\ search.answer = "sought" /\ search.from < search.to
    /\ search' = IF debugged_files[Middle] < search.name THEN [search EXCEPT !.from = Middle + 2]
                 ELSE IF debugged_files[Middle] > search.name THEN [search EXCEPT !.to = Middle - 1]
                 ELSE [search EXCEPT !.answer = "yes"]
    /\ UNCHANGED filesVars

SearchHalves ==
    /\ search.answer = "sought" /\ search.from < search.to
    /\ search' = IF debugged_files[Middle] < search.name THEN [search EXCEPT !.from = Middle + 1]
                 ELSE IF debugged_files[Middle] > search.name THEN [search EXCEPT !.to = Middle - 1]
                 ELSE [search EXCEPT !.answer = "yes"]
    /\ UNCHANGED filesVars

SearchEnds ==
    /\ search.answer = "sought" /\ search.from >= search.to
    /\ search' = [search EXCEPT !.answer =
                     IF search.from = search.to /\ debugged_files[search.from] = search.name
                     THEN "yes" ELSE "no"]
    /\ UNCHANGED filesVars

SearchReturns ==
    /\ search.answer \in {"yes", "no"} /\ search' = NoSearch
    /\ UNCHANGED filesVars

DebugNext ==
    \/ \E name \in Names : search = NoSearch /\ (add_debug_to(name) \/ is_debugged_starts(name))
    \/ SearchHalves \/ SearchEnds \/ SearchReturns

DebugSpec == DebugInit /\ [][DebugNext]_debugVars

----------------------------------------------------------------------------
(* As long as the array is not overrun, the search says that a file is     *)
(* debugged exactly when add_debug_to has taken its name.                  *)
SearchIsRight ==
    nb_debugged_files <= MAX_FILES_NUMBER =>
        /\ search.answer = "yes" => search.name \in wanted
        /\ search.answer = "no" => search.name \notin wanted
============================================================================
