---------------------------- MODULE CatalogStore ----------------------------
(***************************************************************************)
(* The catalog file files/cloud_provider.json that every script under      *)
(* data/hack reads and rewrites (read_json / write_json, repeated verbatim *)
(* in each script).  A script run is one read, an in-memory mutation and   *)
(* one write; it runs to completion or dies with an uncaught exception     *)
(* before its write, so every run is one step of this specification.       *)
(*                                                                         *)
(* file is the content of the file: a catalog document, Missing (no file   *)
(* at the path) or Corrupt (a file json.load cannot parse: what is left    *)
(* when a run dies between the truncating io.open(name, 'w') and the end   *)
(* of f.write).  last records the script run by the latest step and how it *)
(* ended, the way the process's exit would show it.                        *)
(***************************************************************************)
EXTENDS Naturals, Sequences

CONSTANTS
    Missing,    \* no file at the catalog path
    Corrupt     \* a truncated or partially written file

VARIABLES file, last

Outcomes == {"none", "ok", "crash", "KeyError", "ValueError", "NetworkError"}

IsDoc(f) == f \notin {Missing, Corrupt}

(***************************************************************************)
(* read_json: an IOError (no file) is swallowed and yields {}, whose       *)
(* ['cloud_provider'] lookup then raises KeyError; a file that is not      *)
(* JSON makes json.load raise ValueError, which nothing catches.           *)
(***************************************************************************)
Loadable == IsDoc(file)

\* Mutant of ReadError: read_json without its except IOError.
ReadErrorUncaught == IF file = Missing THEN "IOError" ELSE "ValueError"

ReadError == IF file = Missing THEN "KeyError" ELSE "ValueError"

\* The process dies with err before write_json: the file is untouched.
Abort(op, err) ==
    /\ last' = [op |-> op, outcome |-> err]
    /\ UNCHANGED file

(***************************************************************************)
(* write_json: io.open(name, 'w') truncates the file, then json.dumps and  *)
(* f.write produce the new content.  There is no temporary file and no     *)
(* rename: a run killed inside this window leaves a Corrupt file.          *)
(***************************************************************************)
WriteJson(op, doc) ==
    \/ /\ file' = doc
       /\ last' = [op |-> op, outcome |-> "ok"]
    \/ /\ file' = Corrupt
       /\ last' = [op |-> op, outcome |-> "crash"]

(***************************************************************************)
(* One run of a catalog script whose mutation raises KeyError when fails  *)
(* holds of the document read, and otherwise turns it into doc.  The       *)
(* exception discards the partial in-memory mutation.                      *)
(***************************************************************************)
Invoke(op, fails, doc) ==
    \/ /\ ~Loadable
       /\ Abort(op, ReadError)
    \/ /\ Loadable
       /\ fails
       /\ Abort(op, "KeyError")
    \/ /\ Loadable
       /\ ~fails
       /\ WriteJson(op, doc)

=============================================================================
