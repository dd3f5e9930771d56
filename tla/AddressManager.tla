--------------------------- MODULE AddressManager ---------------------------
(***************************************************************************)
(* The addresses of other nodes a node knows of and the ones it banned.     *)
(* Every operation holds the mutex of the manager, and writes what it       *)
(* changes through to the database, so that a restart reads back what was   *)
(* there.  An address is an IP and a port; bans are kept by IP.             *)
(***************************************************************************)
EXTENDS Integers, FiniteSets, Functions

CONSTANTS
  Address,       \* addresses, with the fields ip and port
  Routable,      \* those IsRoutable accepts
  maxAddresses,
  connectionFailedCountForRemove

ASSUME AddressAssumption ==
  /\ Routable \subseteq Address /\ maxAddresses \in Nat \ {0}
  /\ connectionFailedCountForRemove \in Nat \ {0, 1}

VARIABLES
  notBannedAddresses,  \* the connectionFailedCount of the addresses that are known
  bannedAddresses      \* for banned IPs, whether the ban is older than maxBanTime

addressVars == <<notBannedAddresses, bannedAddresses>>

remove(f, keys) == Restrict(f, DOMAIN f \ keys)

\* The addresses addAddressNoLock may evict when there are too many: the first one when
\* no other has a failure, otherwise one with the most failures, where the failures of
\* the first one do not count.  The order is that of a Go map: any.
Evicted(addresses) ==
  {a \in DOMAIN addresses : \E first \in DOMAIN addresses :
     LET rest == DOMAIN addresses \ {first}
     IN IF \A b \in rest : addresses[b] = 0 THEN a = first
        ELSE a \in rest /\ \A b \in rest : addresses[b] <= addresses[a]}

\* addAddressNoLock; what the manager may know afterwards.
WithAddress(addresses, a) ==
  IF a \notin Routable \/ a \in DOMAIN addresses THEN {addresses}
  ELSE LET added == [b \in DOMAIN addresses \cup {a} |-> IF b = a THEN 1 ELSE addresses[b]]
       IN IF Cardinality(DOMAIN added) <= maxAddresses THEN {added}
          ELSE {remove(added, {e}) : e \in Evicted(added)}

AddAddress(a) ==
  /\ notBannedAddresses' \in WithAddress(notBannedAddresses, a)
  /\ UNCHANGED bannedAddresses

\* MarkConnectionFailure and MarkConnectionSuccess, for an address and what came of
\* dialling it.  They return an error, which nobody looks at, when it is not known.
Marked(addresses, a, success) ==
  IF a \notin DOMAIN addresses THEN addresses
  ELSE IF success THEN [addresses EXCEPT ![a] = 0]
  ELSE IF addresses[a] + 1 >= connectionFailedCountForRemove THEN remove(addresses, {a})
  ELSE [addresses EXCEPT ![a] = @ + 1]

\* RandomAddresses: the sets of addresses it may return.
RandomAddresses(count, exceptions) ==
  LET valid == DOMAIN notBannedAddresses \ exceptions
      size == IF Cardinality(valid) < count THEN Cardinality(valid) ELSE count
  IN {s \in SUBSET valid : Cardinality(s) = size}

\* AddressManager.Ban; an IP that is banned already keeps the time of its ban.
BanIP(ip) ==
  /\ notBannedAddresses' = remove(notBannedAddresses, {a \in DOMAIN notBannedAddresses : a.ip = ip})
  /\ bannedAddresses' = IF ip \in DOMAIN bannedAddresses THEN bannedAddresses
                        ELSE [i \in DOMAIN bannedAddresses \cup {ip} |->
                                IF i = ip THEN FALSE ELSE bannedAddresses[i]]

\* Unban; an error when there is no ban.
Unban(ip) ==
  /\ ip \in DOMAIN bannedAddresses
  /\ bannedAddresses' = remove(bannedAddresses, {ip})
  /\ UNCHANGED notBannedAddresses

\* IsBanned: unbanIfOldEnough, and the answer.  The caller takes the error for an
\* unknown address for an address that is not banned.
unbanIfOldEnough(ip) ==
  /\ bannedAddresses' = IF ip \in DOMAIN bannedAddresses /\ bannedAddresses[ip]
                        THEN remove(bannedAddresses, {ip}) ELSE bannedAddresses
  /\ UNCHANGED notBannedAddresses

\* maxBanTime passes.
BanGrowsOld(ip) ==
  /\ ip \in DOMAIN bannedAddresses /\ ~bannedAddresses[ip]
  /\ bannedAddresses' = [bannedAddresses EXCEPT ![ip] = TRUE]
  /\ UNCHANGED notBannedAddresses

=============================================================================
