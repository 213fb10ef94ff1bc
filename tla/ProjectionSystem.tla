--------------------------- MODULE ProjectionSystem ---------------------------
(***************************************************************************)
(* What the indexer projects and the API reads back: credentials (which    *)
(* this module extends) and schemas. A schema's resolution is settled      *)
(* when it is registered, and a credential only asks whether its schema is *)
(* known, so the two are not interleaved: part says which of them a        *)
(* behaviour is about, and the other rests in its initial state.           *)
(***************************************************************************)
EXTENDS CredentialReads

CONSTANTS
    FieldNames,          \* names of fields
    MaxFields,           \* MAX_SCHEMA_FIELDS
    MaxDepth,            \* MAX_SCHEMA_DEPTH
    MaxEntries,          \* MAX_SCHEMA_CATALOG_ENTRIES
    ListLimit,           \* limit of a page of schemas or of registrations
    MaxRegistrations     \* bound on registrations

\* The limits are positive numbers in the code; a catalog may be refused for its size.
ASSUME SchemaConstants ==
    /\ MaxFields \in Nat /\ MaxDepth \in Nat \ {0} /\ MaxEntries \in Nat
    /\ ListLimit \in Nat \ {0} /\ MaxRegistrations \in Nat

VARIABLES
    part,
    chain, registrations, schemas, corrupt, page      \* SchemaCatalog

schemaVars == <<chain, registrations, schemas, corrupt, page>>
allVars == <<part, readVars, schemaVars>>

Catalog == INSTANCE SchemaCatalog WITH
    ledger <- chain, events <- registrations,
    Publishers <- Accounts, Names <- FieldNames,
    PageLimit <- ListLimit, MaxLedger <- MaxRegistrations

ProjectionInit ==
    /\ part \in {"credentials", "schemas"}
    /\ ReadInit /\ Catalog!Init
    /\ part = "schemas" => closeTime = 0

ProjectionNext ==
    \/ part = "credentials" /\ ReadNext /\ UNCHANGED schemaVars
    \/ part = "schemas" /\ Catalog!Next /\ UNCHANGED readVars

ProjectionSpec == ProjectionInit /\ [][ProjectionNext /\ UNCHANGED part]_allVars

-----------------------------------------------------------------------------
(* The properties of the schemas, as conjunctions of the properties that   *)
(* SchemaCatalog states and explains; those of the credentials are         *)
(* inherited.                                                              *)

\* A schema the API shows is the one the transactions of the ledger define, whatever has
\* happened to one row of its tables.
SchemaTrue == part = "schemas" => Catalog!SchemaTrue

\* Nothing the indexer accepts is refused by the API.
AcceptedServed == part = "schemas" => Catalog!TypeOK /\ Catalog!AcceptedServed

\* What is handed out in bulk is complete: a catalog resolves by itself, and a client that
\* pages while schemas are registered misses and repeats nothing.
CollectionsComplete ==
    part = "schemas" => Catalog!CatalogSelfContained /\ Catalog!PagesComplete

=============================================================================
