------------------------------ MODULE Suppliers ------------------------------
(***************************************************************************)
(* The supplier master data and the blacklist (app/services/suppliers.py). *)
(*                                                                         *)
(* A request is one transaction: its snapshot is taken when the caller is  *)
(* identified, before any lock.  Rows read FOR UPDATE are the latest ones, *)
(* everything else it reads is from the snapshot; what it writes is seen   *)
(* when it commits.                                                        *)
(***************************************************************************)
EXTENDS Naturals, Sequences, FiniteSets

CONSTANTS
    Sessions,       \* transactions that can be open at the same time
    Managers,       \* building managers; an employee is one or an administrator
    Admins,
    Names, Codes,   \* supplier_name, unified_social_credit_code
    Tokens,         \* action tokens; a client repeats a request with its token
    MaxTime,        \* bound: the clock
    MaxSuppliers,   \* bound: rows of supplier
    MaxEntries      \* bound: rows of supplier_blacklist

ASSUME SuppliersAssumption ==
    MaxTime \in Nat /\ MaxSuppliers \in Nat /\ MaxEntries \in Nat

VARIABLES
    now,
    supplier,       \* supplier as committed, by supplier_id
    entry,          \* supplier_blacklist as committed, by blacklist_id
    log,            \* the operation log's rows about blacklist entries
    tx              \* the open transactions

supplierVars == <<now, supplier, entry, log, tx>>

NoCode == "NULL"
Permanent == MaxTime + 2        \* end_at IS NULL
Times == 0..(MaxTime + 1)
Nobody == "NOBODY"

SupplierRow == [name : Names, code : Codes \cup {NoCode}]

Entry == [supplier : Nat, registrar : Managers,
          start : Times, end : Times \cup {Permanent},
          released : BOOLEAN, by : Managers \cup Admins \cup {Nobody}]

LogRow == [token : Tokens, released : BOOLEAN, entry : Nat]

\* What an open transaction has written; it holds the locks of these rows.
NothingWritten == [op |-> "NONE"]
NoTx == [open |-> FALSE, supplier |-> <<>>, entry |-> <<>>, tokens |-> {},
         wrote |-> NothingWritten]

SuppliersTypeOK ==
    /\ now \in Times
    /\ supplier \in Seq(SupplierRow)
    /\ entry \in Seq(Entry)
    /\ \A i \in DOMAIN entry : entry[i].supplier \in DOMAIN supplier
    /\ log \in Seq(LogRow)
    /\ \A i \in DOMAIN log : log[i].entry \in DOMAIN entry
    /\ DOMAIN tx = Sessions

\* effective_blacklist_condition
Effective(e, t) == ~e.released /\ e.start <= t /\ t < e.end

Used == {log[i].token : i \in DOMAIN log}

\* The transactions that hold the locks of rows they have written
Writers(op) == {s \in Sessions : tx[s].open /\ tx[s].wrote.op = op}

-----------------------------------------------------------------------------
SuppliersInit ==
    /\ now = 0
    /\ supplier = <<>> /\ entry = <<>> /\ log = <<>>
    /\ tx = [s \in Sessions |-> NoTx]

Tick ==
    /\ now < MaxTime
    /\ now' = now + 1
    /\ UNCHANGED <<supplier, entry, log, tx>>

Open(s) ==
    /\ ~tx[s].open
    /\ tx' = [tx EXCEPT ![s] = [open |-> TRUE, supplier |-> supplier,
                entry |-> entry, tokens |-> Used, wrote |-> NothingWritten]]
    /\ UNCHANGED <<now, supplier, entry, log>>

Writing(s, wrote) ==
    /\ tx[s].open /\ tx[s].wrote = NothingWritten
    /\ tx' = [tx EXCEPT ![s].wrote = wrote]
    /\ UNCHANGED <<now, supplier, entry, log>>

\* find_conflict, on any of the transaction's rows
Conflicts(rows, row) ==
    \E i \in DOMAIN rows :
        \/ rows[i].name = row.name
        \/ row.code # NoCode /\ rows[i].code = row.code

\* The unique key of the code: a second insert waits for the first one.
KeyFree(row) ==
    row.code # NoCode =>
        /\ \A i \in DOMAIN supplier : supplier[i].code # row.code
        /\ \A s \in Writers("CREATE") : tx[s].wrote.row.code # row.code

\* SupplierService.create
Create(s) ==
    \E row \in SupplierRow :
        /\ Len(supplier) + Cardinality(Writers("CREATE")) < MaxSuppliers
        /\ ~Conflicts(tx[s].supplier, row)
        /\ KeyFree(row)
        /\ Writing(s, [op |-> "CREATE", row |-> row])

\* The log row's unique key, likewise.
TokenFree(token) ==
    /\ token \notin Used
    /\ \A s \in Writers("LIST") \cup Writers("RELEASE") : tx[s].wrote.token # token

\* create_blacklist.  The manager may list the supplier of any completed
\* purchase of their building; which these are is not modelled.  The supplier's
\* row is locked, whether it has an effective entry is read in the snapshot.
CreateBlacklist(s) ==
    \E i \in DOMAIN supplier, m \in Managers, token \in Tokens,
       start \in 0..MaxTime, end \in Times \cup {Permanent} :
        /\ Len(entry) + Cardinality(Writers("LIST")) < MaxEntries
        /\ start < end
        /\ \A r \in Writers("LIST") : tx[r].wrote.row.supplier # i
        /\ token \notin tx[s].tokens
        /\ ~\E k \in DOMAIN tx[s].entry :
                tx[s].entry[k].supplier = i /\ Effective(tx[s].entry[k], now)
        /\ TokenFree(token)
        /\ Writing(s, [op |-> "LIST", token |-> token,
                row |-> [supplier |-> i, registrar |-> m, start |-> start,
                         end |-> end, released |-> FALSE, by |-> Nobody]])

\* Fault: the entry is read without FOR UPDATE.
LatestInSnapshot(s, k) ==
    IF k \in DOMAIN tx[s].entry THEN tx[s].entry[k] ELSE entry[k]

\* The row release_blacklist decides on
Latest(s, k) == entry[k]

\* release_blacklist, by an administrator or by the manager who listed.
ReleaseBlacklist(s) ==
    \E k \in DOMAIN entry, e \in Managers \cup Admins, token \in Tokens :
        /\ token \notin tx[s].tokens
        /\ \A r \in Writers("RELEASE") : tx[r].wrote.entry # k
        /\ ~Latest(s, k).released /\ now < Latest(s, k).end
        /\ e \in Admins \/ e = Latest(s, k).registrar
        /\ TokenFree(token)
        /\ Writing(s, [op |-> "RELEASE", token |-> token, entry |-> k, by |-> e])

\* The request is answered: without an error, the transaction commits.
Commit(s) ==
    /\ tx[s].open /\ tx[s].wrote # NothingWritten
    /\ LET w == tx[s].wrote
       IN \/ /\ w.op = "CREATE"
             /\ supplier' = Append(supplier, w.row)
             /\ UNCHANGED <<entry, log>>
          \/ /\ w.op = "LIST"
             /\ entry' = Append(entry, w.row)
             /\ log' = Append(log, [token |-> w.token, released |-> FALSE,
                                    entry |-> Len(entry) + 1])
             /\ UNCHANGED supplier
          \/ /\ w.op = "RELEASE"
             /\ entry' = [entry EXCEPT ![w.entry].released = TRUE,
                                       ![w.entry].by = w.by]
             /\ log' = Append(log, [token |-> w.token, released |-> TRUE,
                                    entry |-> w.entry])
             /\ UNCHANGED supplier
    /\ tx' = [tx EXCEPT ![s] = NoTx]
    /\ UNCHANGED now

\* Any check that fails, a duplicate key, or a lost connection
Rollback(s) ==
    /\ tx[s].open
    /\ tx' = [tx EXCEPT ![s] = NoTx]
    /\ UNCHANGED <<now, supplier, entry, log>>

SuppliersNext ==
    \/ Tick
    \/ \E s \in Sessions :
        \/ Open(s) \/ Create(s) \/ CreateBlacklist(s) \/ ReleaseBlacklist(s)
        \/ Commit(s) \/ Rollback(s)

SuppliersSpec == SuppliersInit /\ [][SuppliersNext]_supplierVars

-----------------------------------------------------------------------------
(***************************************************************************)
(* Properties.                                                             *)
(***************************************************************************)

\* knowledge/source/04:160, a released entry is kept as it was: however
\* releases and retries overlap, an entry changes once, when its registrar or
\* an administrator releases it, with a log row of its own under a token that
\* was not used before, and stays for good.
ReleasedForGood ==
    [][\A k \in DOMAIN entry : /\ k \in DOMAIN entry'
         /\ entry'[k] # entry[k] =>
              /\ ~entry[k].released
              /\ entry'[k] = [entry[k] EXCEPT !.released = TRUE, !.by = entry'[k].by]
              /\ entry'[k].by \in Admins \cup {entry[k].registrar}
              /\ \E token \in Tokens \ Used :
                   log' = Append(log, [token |-> token, released |-> TRUE,
                                       entry |-> k])]_supplierVars
=============================================================================
