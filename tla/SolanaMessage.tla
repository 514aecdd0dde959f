--------------------------- MODULE SolanaMessage ---------------------------
(***************************************************************************)
(* Wallets/Transaction/Solana/Transaction.cpp: the TransactionBuilder,     *)
(* which turns instructions into a Solana message, and the byte format of  *)
(* a transaction.  Keys are numbered in the order of their base58 strings, *)
(* by which build() sorts them.                                            *)
(*                                                                         *)
(* A message lists each account once.  Which of them must sign and which   *)
(* may be written is not stored with the account: three counts in the      *)
(* header say it of positions in the list.                                 *)
(***************************************************************************)
EXTENDS Naturals, Sequences, SequencesExt, FiniteSets

CONSTANTS
  Key,              \* public keys, as numbers
  Wallet,           \* the keys whose private key the user has
  System, Token,    \* SYSTEM_PROGRAM_ID, SPL_TOKEN_PROGRAM_ID
  TokenAccount,     \* getAssociatedTokenAccount, of a wallet and a mint
  Instruction,      \* the instructions a caller may add
  MaxInstructions,  \* bound on how many it adds
  ByteValues,       \* the values of a uint8_t (256 in the code)
  GroupValues       \* the values of a group of write_compact_u64 (128)

Meta(k, signer, writable) == [key |-> k, signer |-> signer, writable |-> writable]

AccountMeta == [key : Key, signer : BOOLEAN, writable : BOOLEAN]

TransferInstruction(from, to, lamports) ==
  [program  |-> System,
   accounts |-> <<Meta(from, TRUE, TRUE), Meta(to, FALSE, TRUE)>>,
   data     |-> <<2, lamports>>]

MintInstruction(payer, mint, authority, decimals) ==
  [program  |-> Token,
   accounts |-> <<Meta(payer, TRUE, TRUE), Meta(mint, FALSE, TRUE),
                  Meta(System, FALSE, FALSE)>>,
   data     |-> <<0, decimals, authority, 0>>]

AssociatedInstruction(payer, wallet, mint) ==
  [program  |-> Token,
   accounts |-> <<Meta(payer, TRUE, TRUE),
                  Meta(TokenAccount[wallet, mint], FALSE, TRUE),
                  Meta(wallet, FALSE, FALSE), Meta(mint, FALSE, FALSE),
                  Meta(System, FALSE, FALSE), Meta(Token, FALSE, FALSE)>>,
   data     |-> <<17>>]

ASSUME MessageAssumption ==
  /\ Key \subseteq Nat \ {0} /\ IsFiniteSet(Key)
  /\ {System, Token} \subseteq Key /\ Wallet \subseteq Key \ {System, Token}
  /\ TokenAccount \in [Key \X Key -> Key]
  /\ \A k \in Key : System <= k
  /\ Instruction \subseteq [program : Key, accounts : Seq(AccountMeta), data : Seq(Nat)]
  /\ MaxInstructions \in Nat
  /\ {ByteValues, GroupValues} \subseteq Nat \ {0, 1}
-----------------------------------------------------------------------------
\* build(): the map of accounts.

\* A mutant of Merge: a key that is met again takes its new roles.
MergeByReplacing(map, meta) ==
  [k \in DOMAIN map \cup {meta.key} |-> IF k = meta.key THEN meta ELSE map[k]]

\* A key that is met again keeps its roles and gains the new ones.
Merge(map, meta) ==
  [k \in DOMAIN map \cup {meta.key} |->
     IF k # meta.key THEN map[k]
     ELSE IF k \notin DOMAIN map THEN meta
     ELSE Meta(k, map[k].signer \/ meta.signer, map[k].writable \/ meta.writable)]

MetasOf(x) == <<Meta(x.program, FALSE, FALSE)>> \o x.accounts

Metas(xs) == FlattenSeq([i \in DOMAIN xs |-> MetasOf(xs[i])])

AccountMap(p, xs) ==
  FoldLeft(Merge, [k \in {p} |-> Meta(p, TRUE, TRUE)], Metas(xs))

\* In ascending order: at position i is the one that i - 1 are less than.
Below(keys, k) == {l \in keys : l < k}
Sorted(keys) ==
  [i \in 1..Cardinality(keys) |->
     CHOOSE k \in keys : Cardinality(Below(keys, k)) = i - 1]

\* A mutant of AccountKeys: the accounts in the opposite order.
AccountKeysDescending(map) ==
  Reverse(Sorted({k \in DOMAIN map : map[k].signer}))
    \o Reverse(Sorted({k \in DOMAIN map : ~map[k].signer}))

\* Those who sign before those who do not; either group by base58 alone.
AccountKeys(map) ==
  Sorted({k \in DOMAIN map : map[k].signer})
    \o Sorted({k \in DOMAIN map : ~map[k].signer})

Byte(n) == n % ByteValues

Count(map, signer, writable) ==
  Cardinality({k \in DOMAIN map : map[k].signer = signer
                                  /\ map[k].writable = writable})

Header(map) ==
  [required         |-> Byte(Count(map, TRUE, TRUE) + Count(map, TRUE, FALSE)),
   readOnlySigned   |-> Byte(Count(map, TRUE, FALSE)),
   readOnlyUnsigned |-> Byte(Count(map, FALSE, FALSE))]

\* A mutant of IndexOf: positions counted from one.
IndexFromOne(keys, k) == Byte(CHOOSE i \in DOMAIN keys : keys[i] = k)

IndexOf(keys, k) == Byte((CHOOSE i \in DOMAIN keys : keys[i] = k) - 1)

Compile(keys, x) ==
  [program  |-> IndexOf(keys, x.program),
   accounts |-> [i \in DOMAIN x.accounts |-> IndexOf(keys, x.accounts[i].key)],
   data     |-> x.data]

\* A mutant of Build: every signer is taken to have signed.
BuildSignedByAll(p, xs) ==
  LET map  == AccountMap(p, xs)
      keys == AccountKeys(map)
  IN  [signatures   |-> Sorted({k \in DOMAIN map : map[k].signer}),
       header       |-> Header(map),
       keys         |-> keys,
       instructions |-> [i \in DOMAIN xs |-> Compile(keys, xs[i])]]

\* build() and sign(): one signature, by the payer.
Build(p, xs) ==
  LET map  == AccountMap(p, xs)
      keys == AccountKeys(map)
  IN  [signatures   |-> <<p>>,
       header       |-> Header(map),
       keys         |-> keys,
       instructions |-> [i \in DOMAIN xs |-> Compile(keys, xs[i])]]
-----------------------------------------------------------------------------
\* Transaction::serialize, one element for a byte, a field of the data, a key
\* or a signature.

\* write_compact_u64: groups from the lowest on, all but the last marked.
Compact[n \in Nat] ==
  IF n < GroupValues THEN <<n>>
  ELSE <<(n % GroupValues) + GroupValues>> \o Compact[n \div GroupValues]

WithLength(seq) == Compact[Len(seq)] \o seq

\* A mutant of SerializeInstruction: the data before the accounts.
SerializeDataFirst(c) ==
  <<c.program>> \o WithLength(c.data) \o WithLength(c.accounts)

SerializeInstruction(c) ==
  <<c.program>> \o WithLength(c.accounts) \o WithLength(c.data)

Serialize(tx) ==
  WithLength(tx.signatures)
    \o <<tx.header.required, tx.header.readOnlySigned,
         tx.header.readOnlyUnsigned>>
    \o WithLength(tx.keys)
    \o <<"recentBlockhash">>
    \o Compact[Len(tx.instructions)]
    \o FlattenSeq([i \in DOMAIN tx.instructions |->
                     SerializeInstruction(tx.instructions[i])])
-----------------------------------------------------------------------------
\* What the network reads: a cursor over the bytes.

\* The number that starts at i, and where it ends.
ReadCompact(bytes, i) ==
  LET last == CHOOSE j \in i..Len(bytes) :
                /\ bytes[j] < GroupValues
                /\ \A h \in i..(j - 1) : bytes[h] >= GroupValues
      value[j \in i..last] ==
        IF j = last THEN bytes[j]
        ELSE bytes[j] - GroupValues + GroupValues * value[j + 1]
  IN  [value |-> value[i], next |-> last + 1]

\* A sequence preceded by its length.
ReadSeq(bytes, i) ==
  LET n == ReadCompact(bytes, i)
  IN  [value |-> SubSeq(bytes, n.next, n.next + n.value - 1),
       next  |-> n.next + n.value]

ReadInstruction(bytes, i) ==
  LET accounts == ReadSeq(bytes, i + 1)
      data     == ReadSeq(bytes, accounts.next)
  IN  [value |-> [program |-> bytes[i], accounts |-> accounts.value,
                  data |-> data.value],
       next  |-> data.next]

Deserialize(bytes) ==
  LET signatures == ReadSeq(bytes, 1)
      h          == signatures.next
      keys       == ReadSeq(bytes, h + 3)
      n          == ReadCompact(bytes, keys.next + 1)
      start[i \in 1..(n.value + 1)] ==
        IF i = 1 THEN n.next ELSE ReadInstruction(bytes, start[i - 1]).next
  IN  [signatures   |-> signatures.value,
       header       |-> [required |-> bytes[h], readOnlySigned |-> bytes[h + 1],
                         readOnlyUnsigned |-> bytes[h + 2]],
       keys         |-> keys.value,
       instructions |-> [i \in 1..n.value |->
                           ReadInstruction(bytes, start[i]).value]]

\* The roles that a header gives to the key at position i.
Signs(tx, i) == i <= tx.header.required
Writable(tx, i) ==
  IF Signs(tx, i) THEN i <= tx.header.required - tx.header.readOnlySigned
                  ELSE i <= Len(tx.keys) - tx.header.readOnlyUnsigned

\* The network takes a transaction with a signature for every key that is to
\* sign, in their order; the first pays.
Accepted(tx) == tx.signatures = SubSeq(tx.keys, 1, tx.header.required)
-----------------------------------------------------------------------------
VARIABLES
  instructions,  \* of a TransactionBuilder
  payer,         \* its payer; 0 if it was not set
  hasHash,       \* hasSetRecentBlockhash
  built          \* payer and instructions of the last build() that returned

vars == <<instructions, payer, hasHash, built>>

Nothing == [payer |-> 0, instructions |-> <<>>]

BuilderTypeOK ==
  /\ instructions \in Seq(Instruction)
  /\ payer \in Wallet \cup {0}
  /\ hasHash \in BOOLEAN
  /\ built \in [payer : Wallet, instructions : Seq(Instruction)] \cup {Nothing}

Init ==
  /\ instructions = <<>>
  /\ payer = 0
  /\ hasHash = FALSE
  /\ built = Nothing

AddInstruction(x) ==
  /\ Len(instructions) < MaxInstructions
  /\ instructions' = Append(instructions, x)
  /\ UNCHANGED <<payer, hasHash, built>>

SetPayer(k) ==
  /\ payer' = k
  /\ UNCHANGED <<instructions, hasHash, built>>

SetRecentBlockhash ==
  /\ hasHash' = TRUE
  /\ UNCHANGED <<instructions, payer, built>>

\* build() with the private key of k; it throws for another than the payer's.
BuildWith(k) ==
  /\ payer = k
  /\ hasHash
  /\ built' = [payer |-> payer, instructions |-> instructions]
  /\ UNCHANGED <<instructions, payer, hasHash>>

Next ==
  \/ \E x \in Instruction : AddInstruction(x)
  \/ \E k \in Wallet : SetPayer(k) \/ BuildWith(k)
  \/ SetRecentBlockhash

Spec == Init /\ [][Next]_vars
-----------------------------------------------------------------------------
HasBuilt == built # Nothing
Message == Build(built.payer, built.instructions)
Asked == built.instructions

MetasAsked == {Meta(built.payer, TRUE, TRUE)}
                \cup UNION {ToSet(Asked[i].accounts) : i \in DOMAIN Asked}

AskedToSign(k) == \E m \in MetasAsked : m.key = k /\ m.signer
AskedToWrite(k) == \E m \in MetasAsked : m.key = k /\ m.writable

\* The key that a compiled index stands for.
Resolves(index, k) ==
  index + 1 \in DOMAIN Message.keys /\ Message.keys[index + 1] = k

WithinAByte(k) ==
  \E i \in DOMAIN Message.keys : i <= ByteValues /\ Message.keys[i] = k

\* build() numbers the accounts of an instruction by their position in the
\* list, in a byte, and refuses no list for its length: what the network looks
\* up at such a number is what the instruction named exactly as long as that is
\* not further down than a byte can number.
IndicesResolve ==
  HasBuilt =>
    \A i \in DOMAIN Asked :
      LET compiled == Message.instructions[i]
      IN  /\ Resolves(compiled.program, Asked[i].program)
               <=> WithinAByte(Asked[i].program)
          /\ \A a \in DOMAIN Asked[i].accounts :
               Resolves(compiled.accounts[a], Asked[i].accounts[a].key)
                 <=> WithinAByte(Asked[i].accounts[a].key)

\* The header counts in bytes: of those who sign, and of those who neither sign
\* nor are written, there are not too many for one.
HeaderFits ==
  LET keys == ToSet(Message.keys)
  IN  /\ Cardinality({k \in keys : AskedToSign(k)}) < ByteValues
      /\ Cardinality({k \in keys : ~AskedToSign(k) /\ ~AskedToWrite(k)}) < ByteValues

\* In its group, no key that is only read is before one that is written.
ReadOnlyLast(signer) ==
  \A k, l \in ToSet(Message.keys) :
    /\ AskedToSign(k) = signer /\ AskedToSign(l) = signer
    /\ ~AskedToWrite(k) /\ AskedToWrite(l)
    => k > l

\* The roles that the header gives, by position, are those that the payer and
\* the instructions asked for exactly when the order of the base58 strings
\* happens to leave the read-only keys of either group for its end: build()
\* does not sort by isWritable.
RolesIffOrdered ==
  HasBuilt /\ HeaderFits =>
    ((\A i \in DOMAIN Message.keys :
        /\ Signs(Message, i) <=> AskedToSign(Message.keys[i])
        /\ Writable(Message, i) <=> AskedToWrite(Message.keys[i]))
      <=> ReadOnlyLast(TRUE) /\ ReadOnlyLast(FALSE))

IsTransfer(x) ==
  /\ x.program = System
  /\ Len(x.accounts) = 2
  /\ x.accounts[1].signer /\ x.accounts[2].writable

\* The string of the system program is the least of all.  In a message with a
\* transfer the program is therefore first of those that do not sign: it is
\* taken for writable, and in its stead the last of them cannot be written,
\* which is the recipient if the transfer is alone.
TransferMarksTheProgram ==
  HasBuilt /\ HeaderFits =>
    \A i \in DOMAIN Asked :
      LET from == Asked[i].accounts[1].key
          to   == Asked[i].accounts[2].key
          position(k) == CHOOSE j \in DOMAIN Message.keys : Message.keys[j] = k
      IN  IsTransfer(Asked[i]) /\ ~AskedToSign(to) =>
            /\ Writable(Message, position(System))
            /\ Len(Asked) = 1 /\ System \notin {from, to}
                 => ~Writable(Message, position(to))

\* sign() puts one signature, the payer's: a transaction is taken exactly when
\* nobody else is asked to sign.  A second signer is not refused by build(),
\* and may even come before the payer.
AcceptedIffAlone ==
  HasBuilt /\ HeaderFits =>
    (Accepted(Message)
      <=> \A k \in ToSet(Message.keys) : AskedToSign(k) => k = built.payer)

\* Every transaction that build() returns is read from its bytes as it was,
\* at whatever length its parts have.
WireRoundTrip == HasBuilt => Deserialize(Serialize(Message)) = Message
=============================================================================
