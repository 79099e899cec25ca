-------------------------------- MODULE Storage --------------------------------
(***************************************************************************)
(* src/src/storage/mod.rs with the prefix arithmetic of                    *)
(* src/src/utils/shard_utils.rs: the persistent index from code hashes to  *)
(* accounts that the startup scan iterates, and the in-memory cache of the *)
(* newest state of every shard that it reads the accounts from.            *)
(*                                                                         *)
(* A shard is the u64 prefix with its tag bit, an account the first bits   *)
(* of its address, as many as a prefix has.  The two column families are   *)
(* sets of pairs <<code, account>>: code_hashes is keyed by the pair, and  *)
(* code_hashes_by_address by the account.                                  *)
(***************************************************************************)
EXTENDS Naturals, Sequences

CONSTANTS
  Full,       \* prefix of the whole workchain: the tag alone, 2^63 in the code
  Accounts,   \* addresses of the accounts considered
  Codes,      \* code hashes of active accounts
  NoCode      \* what other accounts are: "none", "uninit", "frozen"

Bodies == Codes \cup NoCode

\* Powers of two up to Full: whatever divides one, but for 1, is even.
Powers == {b \in 1 .. Full : \A d \in 2 .. b : b % d = 0 => d % 2 = 0}

\* Prefixes of addresses.
Points == 0 .. 2 * Full - 1

ASSUME StorageAssumption ==
  /\ Full \in Nat \ {0} /\ Full \in Powers
  /\ Accounts \subseteq Points
  /\ "none" \in NoCode /\ NoCode \subseteq {"none", "uninit", "frozen"}
  /\ Codes \cap NoCode = {}

VARIABLES
  primary,    \* code_hashes
  secondary,  \* code_hashes_by_address
  snapshot,   \* PersistentStorage::snapshot: {} or {the primary index it froze}
  reset,      \* reset_accounts under way: see Reset
  cache       \* RuntimeStorage::shard_accounts_cache

storageVars == <<primary, secondary, snapshot, reset, cache>>

Index == Codes \X Accounts
State == [body : Bodies, ver : Nat]

-----------------------------------------------------------------------------
(* Shards                                                                    *)

Idents == {s \in Points \ {0} : \E b \in Powers : s % b = 0 /\ (s \div b) % 2 = 1}

\* ShardIdent::lower_bits: the tag.
Lower(s) == CHOOSE b \in Powers : s % b = 0 /\ (s \div b) % 2 = 1
IsFull(s) == s = Full

\* ShardIdent::split.
Split(s) == {s - Lower(s) \div 2, s + Lower(s) \div 2}

\* contains_account: the prefixes agree above the tag.
Contains(s, a) == IsFull(s) \/ a \div (2 * Lower(s)) = s \div (2 * Lower(s))
Within(s) == {a \in Accounts : Contains(s, a)}

\* extend_account_prefix gives the ends of a range of keys, of which
\* delete_range_cf takes [from, to) and delete_cf `to` (mutant: only the range).
InRange_Open(s, a) == s - Lower(s) <= a /\ a < s + Lower(s) - 1
InRange(s, a) == s - Lower(s) <= a /\ a <= s + Lower(s) - 1

\* The mask by which the scan of the primary index picks a shard's keys.
Masked(s, a) == IsFull(s) \/ a \div (2 * Lower(s)) = (s - Lower(s)) \div (2 * Lower(s))

-----------------------------------------------------------------------------
(* The indices                                                               *)

\* One shard's reset: its keys of the primary index yet to be deleted.
NoReset == [shard |-> 0, keys |-> {}]
Reset == [shard : Idents \cup {0}, keys : SUBSET Index]

\* What a body adds to an index (extract_code_hash).
Entry(a, body) == IF body \in Codes THEN {<<body, a>>} ELSE {}
Entries(A, body) == UNION {Entry(a, body[a]) : a \in A}

StorageInit ==
  /\ \E code \in [Accounts -> Bodies] :
       /\ primary = Entries(Accounts, code)
       /\ secondary \in SUBSET primary
  /\ snapshot = {} /\ reset = NoReset /\ cache = <<>>

\* reset_accounts, remove_code_hashes: the secondary index is cleared by range;
\* then the keys of the primary are deleted one by one, off a snapshot; then
\* the accounts of the state are written in one batch.
BeginReset(s) ==
  /\ reset = NoReset
  /\ secondary' = {p \in secondary : ~InRange(s, p[2])}
  /\ reset' = [shard |-> s, keys |-> {p \in primary : Masked(s, p[2])}]
  /\ UNCHANGED <<primary, snapshot, cache>>

DeleteKey ==
  /\ \E p \in reset.keys :
       /\ primary' = primary \ {p}
       /\ reset' = [reset EXCEPT !.keys = @ \ {p}]
  /\ UNCHANGED <<secondary, snapshot, cache>>

WriteState(body) ==
  /\ reset.shard # 0 /\ reset.keys = {}
  /\ LET new == Entries(Within(reset.shard), body)
         A == {p[2] : p \in new}
     IN  /\ primary' = primary \cup new
         /\ secondary' = {p \in secondary : p[2] \notin A} \cup new
  /\ reset' = NoReset
  /\ UNCHANGED <<snapshot, cache>>

\* What `update` makes of an account's transactions in a block, given as the
\* bodies before the first and after each: its code hash is stored, removed or
\* kept (mutant: an account that was deleted and deployed again is kept).
Active(body) == body \in Codes
Was(path) == Active(path[1])
Is(path) == Active(path[Len(path)])
SpecialActions(path) ==
  \E i \in 1 .. Len(path) - 1 : /\ Active(path[i]) /\ Active(path[i + 1])
                                /\ path[i] # path[i + 1]
Redeployed(path) == Was(path) /\ \E i \in 1 .. Len(path) - 1 : ~Active(path[i])
Stores_SetCode(path) == Is(path) /\ (~Was(path) \/ SpecialActions(path))
Stores(path) == Is(path) /\ (~Was(path) \/ SpecialActions(path) \/ Redeployed(path))
Removes(path) == Was(path) /\ ~Is(path)

Changed(path) == Len(path) > 1 /\ (Stores(path) \/ Removes(path))
Stored(a) == {p \in secondary : p[2] = a}

\* PersistentStorage::update with update_code_hash for a block of shard s; it is
\* one write batch.  An account whose hash stays the same is skipped.
UpdateIndex(s, path) ==
  LET New(a) == Entry(a, path[a][Len(path[a])])
      T == {a \in Within(s) : Changed(path[a]) /\ Stored(a) # New(a)}
  IN  /\ primary' = (primary \ UNION {Stored(a) : a \in T}) \cup UNION {New(a) : a \in T}
      /\ secondary' = {p \in secondary : p[2] \notin T} \cup UNION {New(a) : a \in T}
      /\ UNCHANGED <<snapshot, reset, cache>>

-----------------------------------------------------------------------------
(* The cache                                                                 *)

\* update_contract_states: the shards a block with the given previous shards
\* drops once its own state is in the cache (mutant: the first block after a
\* split drops the parent).
Dropped_AtOnce(prev, cached) == prev
Dropped(prev, cached) ==
  IF \E p \in prev : prev = {p} THEN {p \in prev : Split(p) \subseteq cached} ELSE prev

UpdateCache(s, prev, state) ==
  LET cached == DOMAIN cache \cup {s}
      kept == cached \ (IF prev = {s} THEN {} ELSE Dropped(prev, cached))
  IN  /\ cache' = [t \in kept |-> IF t = s THEN [a \in Within(s) |-> state[a]] ELSE cache[t]]
      /\ UNCHANGED <<primary, secondary, snapshot, reset>>

\* get_contract_state: the account in the first shard found that contains it.
Readable(a) == {cache[s][a] : s \in {t \in DOMAIN cache : Contains(t, a)}}

UpdateSnapshot ==
  /\ snapshot' = {primary}
  /\ UNCHANGED <<primary, secondary, reset, cache>>

\* A process that dies keeps the two column families.
StorageCrash ==
  /\ snapshot' = {} /\ reset' = NoReset /\ cache' = <<>>
  /\ UNCHANGED <<primary, secondary>>

-----------------------------------------------------------------------------
StorageTypeOK ==
  /\ primary \in SUBSET Index /\ secondary \in SUBSET Index
  /\ snapshot \in SUBSET SUBSET Index
  /\ reset \in Reset
  /\ DOMAIN cache \subseteq Idents
  /\ \A s \in DOMAIN cache : cache[s] \in [Within(s) -> State]
=================================================================================
