---------------------------- MODULE CanaryLedger ----------------------------
(***************************************************************************)
(* What the V24 pipeline promises to anyone who reads the database: a      *)
(* ledger of intents and a book of paper positions.  An intent is handed   *)
(* in once and settled once; the only way into the book is an intent that  *)
(* is settled as opened, in the same step; a position is closed once; and  *)
(* the book never holds more open positions than its caps allow.           *)
(*                                                                         *)
(* Transactions, cycles, batches, cap checks, cooldowns, prices, crashes   *)
(* and rollbacks are gone: CanaryPipeline implements this module.          *)
(***************************************************************************)
EXTENDS Naturals, Sequences, FiniteSets

CONSTANTS Keys, Symbols, SymbolOf, MaxOpenGlobal, MaxOpenPerSymbol, MaxOpenPerKey

VARIABLES
    ledger,     \* intent id -> [key, status]
    book        \* position id -> [intent, key, open]

OpenInBook(b) == {p \in DOMAIN b : b[p].open}

WithinCaps(b) ==
    /\ Cardinality(OpenInBook(b)) <= MaxOpenGlobal
    /\ \A s \in Symbols :
          Cardinality({p \in OpenInBook(b) : SymbolOf[b[p].key] = s}) <= MaxOpenPerSymbol
    /\ \A k \in Keys :
          Cardinality({p \in OpenInBook(b) : b[p].key = k}) <= MaxOpenPerKey

LedgerInit == ledger = <<>> /\ book = <<>>

\* An authority hands in an intent.
HandIn ==
    /\ \E k \in Keys : ledger' = Append(ledger, [key |-> k, status |-> "pending"])
    /\ book' = book

\* The pending intents that this step opens.
Opening == {i \in DOMAIN ledger : ledger[i].status = "pending"
                                  /\ ledger'[i].status = "opened"}

Added == DOMAIN book' \ DOMAIN book

\* An adapter cycle becomes visible: it settles some of the pending intents,
\* books one position for each intent it opens, and closes some old positions.
RunCycle ==
    /\ DOMAIN ledger' = DOMAIN ledger
    /\ \A i \in DOMAIN ledger :
          /\ ledger'[i].key = ledger[i].key
          /\ ledger[i].status # "pending" => ledger'[i] = ledger[i]
    /\ DOMAIN book \subseteq DOMAIN book'
    /\ \A p \in DOMAIN book : book'[p] \in {book[p], [book[p] EXCEPT !.open = FALSE]}
    /\ \A p \in Added : /\ book'[p].intent \in Opening
                        /\ book'[p].key = ledger[book'[p].intent].key
                        /\ book'[p].open
    /\ \A i \in Opening : \E p \in Added : book'[p].intent = i
    /\ \A p, q \in Added : book'[p].intent = book'[q].intent => p = q
    /\ WithinCaps(book')

LedgerNext == HandIn \/ RunCycle

LedgerSpec == LedgerInit /\ [][LedgerNext]_<<ledger, book>>
=============================================================================
