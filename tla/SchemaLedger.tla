---------------------------- MODULE SchemaLedger ----------------------------
(***************************************************************************)
(* What the migration ledger (public.shipit_schema_migrations) promises to *)
(* the release gate that reads it: a row, once there, stays with its       *)
(* checksum and its mode, and a rollback_safe flag is written at most once *)
(* over "nobody said".  migration_manager.py is its only writer, and       *)
(* Migrations is shown to implement this; Deployment relies on it.         *)
(***************************************************************************)
EXTENDS Integers

CONSTANTS
    Number,    \* migration files, by their four digits
    Content    \* the bytes of a file: equal contents, equal checksums

VARIABLE ledger

Flag == {"yes", "no", "unknown"}

Row == [sum : Content, mode : {"apply", "baseline"}, safe : Flag]

\* All the ledgers there may be: the file names are the primary key.
Ledgers == UNION {[D -> Row] : D \in SUBSET Number}

Empty == [n \in {} |-> 0]

Init == ledger = Empty

\* new extends old, and classifies at most what nobody had classified.
Extends(old, new) ==
    /\ DOMAIN old \subseteq DOMAIN new
    /\ \A n \in DOMAIN old :
          /\ new[n].sum = old[n].sum
          /\ new[n].mode = old[n].mode
          /\ old[n].safe # "unknown" => new[n].safe = old[n].safe

Next == ledger' \in Ledgers /\ Extends(ledger, ledger')

Spec == Init /\ [][Next]_ledger
=============================================================================
