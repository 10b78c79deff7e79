--------------------------- MODULE ClientAddress ---------------------------
(***************************************************************************)
(* The client address behind the rate limits: middleware.ClientIP, and     *)
(* parsePrefixes of internal/config, which reads TRUSTED_PROXIES.          *)
(*                                                                         *)
(* A request starts at some host with headers of its choice and passes     *)
(* through proxies; each appends the address of its own peer to            *)
(* X-Forwarded-For.  An address is a host and whether it is written as an  *)
(* IPv4-mapped IPv6 address; a network is a set of hosts.                  *)
(***************************************************************************)
EXTENDS Integers, Sequences

CONSTANTS
  Hosts,
  Items,      \* TRUSTED_PROXIES: [cidr, net, mapped] for a network,
              \* [cidr, host, mapped] for a bare address
  MaxOwn,     \* bound: entries of X-Forwarded-For that the client sends
  MaxProxies  \* bound: proxies on the way

ASSUME HostsAssumption == "none" \notin Hosts /\ MaxOwn \in Nat

Address == [host : Hosts, mapped : BOOLEAN]
Malformed == [host |-> "none", mapped |-> FALSE]  \* text that does not parse
Entry == Address \cup {Malformed}

VARIABLES
  route,   \* the hosts the request has really been at
  peer,    \* the TCP peer of the host it is at now
  header,  \* X-Forwarded-For, all values in order
  realIP,  \* X-Real-IP
  stage,   \* "travelling", "scanning", "done"
  i,       \* the loop variable of fromForwardedFor
  remote   \* r.RemoteAddr

addressVars == <<route, peer, header, realIP, stage, i, remote>>

\* net/http writes the peer as an IPv4 address.
Plain(h) == [host |-> h, mapped |-> FALSE]

Unmap(a) == [a EXCEPT !.mapped = FALSE]

\* parsePrefixes: a bare address is unmapped, a network is kept as written.
\* (An item that does not parse is an error of Load: there is no server then.)
Parsed(item) ==
  IF item.cidr THEN [net |-> item.net, mapped |-> item.mapped]
               ELSE [net |-> {item.host}, mapped |-> FALSE]

\* netip: an IPv4 address is not in an IPv6 prefix, mapped or not.
PrefixContains(p, a) == a.mapped = p.mapped /\ a.host \in p.net

isTrusted(a) == \E item \in Items : PrefixContains(Parsed(item), Unmap(a))

-----------------------------------------------------------------------------
\* A proxy passes the request on.
Forward ==
  /\ stage = "travelling"
  /\ Len(route) <= MaxProxies
  /\ \E h \in Hosts, written \in BOOLEAN :
       /\ header' = Append(header, [peer EXCEPT !.mapped = written])
       /\ peer' = Plain(h)
       /\ remote' = peer'
       /\ route' = Append(route, h)
  /\ UNCHANGED <<realIP, stage, i>>

\* Variant: the headers are believed whoever sent them.
BelievesAny == Items # {}

\* The two early returns of ClientIP.
Believes == Items # {} /\ isTrusted(peer)

\* Where the loop of fromForwardedFor starts (counting from 1).
LastEntry == Len(header)

\* ClientIP up to fromForwardedFor.
Arrive ==
  /\ stage = "travelling"
  /\ stage' = IF Believes THEN "scanning" ELSE "done"
  /\ i' = LastEntry
  /\ UNCHANGED <<route, peer, header, realIP, remote>>

\* fromForwardedFor found nothing: X-Real-IP, if it parses.
FallBack ==
  /\ remote' = IF realIP = Malformed THEN remote ELSE Unmap(realIP)
  /\ stage' = "done"
  /\ UNCHANGED i

\* "malformed chain: don't guess".
MalformedEntry == FallBack

\* One round of the loop over the entries, from the right.
Scan ==
  /\ stage = "scanning"
  /\ IF i = 0 THEN FallBack
     ELSE IF header[i] = Malformed THEN MalformedEntry
     ELSE IF isTrusted(Unmap(header[i]))
       THEN i' = i - 1 /\ UNCHANGED <<remote, stage>>
       ELSE remote' = Unmap(header[i]) /\ stage' = "done" /\ UNCHANGED i
  /\ UNCHANGED <<route, peer, header, realIP>>

InitAddress ==
  /\ \E h \in Hosts : route = <<h>> /\ peer = Plain(h) /\ remote = peer
  /\ \E n \in 0..MaxOwn : header \in [1..n -> Entry]
  /\ realIP \in Entry
  /\ stage = "travelling"
  /\ i = 0

NextAddress == Forward \/ Arrive \/ Scan

SpecAddress == InitAddress /\ [][NextAddress]_addressVars

-----------------------------------------------------------------------------
Listed(h) == isTrusted(Plain(h))

\* The nearest hosts of the route that are trusted proxies without a gap.
Nearest(k) == \A j \in (k + 1)..Len(route) : Listed(route[j])

\* The rate limit is charged to the nearest host of the real route that is not
\* a trusted proxy, whatever headers the client sent along and however the
\* addresses are written.
ChargedToNearest ==
  stage = "done" =>
    \A k \in DOMAIN route : ~Listed(route[k]) /\ Nearest(k) => remote.host = route[k]
=============================================================================
