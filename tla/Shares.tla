-------------------------------- MODULE Shares --------------------------------
(***************************************************************************)
(* Share links (internal/server/share.go, internal/db/share.go): making a  *)
(* link to a file, revoking it, its expiry, the public request that        *)
(* follows it, and the end of a file's links when the file is deleted.     *)
(*                                                                         *)
(* The table files belongs to the rest of the catalog: this module reads   *)
(* it and CatalogBackup, which extends this one, writes it.  A link is its *)
(* token, its hash and its opaque id in one.  Of the clock only the order  *)
(* matters in which a link's expiry and the requests fall.                 *)
(***************************************************************************)
EXTENDS Naturals, Functions, FiniteSets

CONSTANTS
  Ids,       (* file ids                                                     *)
  Links,     (* links that may be made                                       *)
  Offered,   (* bound: the files links are made to                           *)
  Visitors,  (* public requests under way at the same time                   *)
  None

VARIABLES
  files,    \* table files, by id
  shares,   \* table shares: the file of a link, by link
  links,    \* per link, what its maker has done and for which file
  late,     \* links in the table whose expiry has passed
  visits,   \* public requests
  ended     \* (history) links that were revoked, removed as expired, or went with their file

shareVars == <<shares, links, late, visits, ended>>

NoLink  == [at |-> "none", file |-> None]
NoVisit == [at |-> "idle", file |-> None, over |-> FALSE]

\* The tables with keys out of ks and rows out of vs.
Table(ks, vs) == UNION {[d -> vs] : d \in SUBSET ks}

SharesTypeOK ==
  /\ shares \in Table(Links, Ids)
  /\ links \in [Links -> [at : {"none", "found", "made"}, file : Ids \cup {None}]]
  /\ late \subseteq Links /\ ended \subseteq Links
  /\ visits \in [Visitors -> [at : {"idle", "found"}, file : Ids \cup {None}, over : BOOLEAN]]

\* DELETE FROM shares: the rows of the links in ls, which have ended.
RemoveLinks(ls) ==
  /\ shares' = Restrict(shares, DOMAIN shares \ ls)
  /\ late' = late \ ls
  /\ ended' = ended \cup ls

\* The links whose rows name a file.
LinksOf(id) == {l \in DOMAIN shares : shares[l] = id}

\* DeleteSharesForFile, the last statement of the delete handler on a file.
DeleteSharesForFile(id) ==
  /\ RemoveLinks(LinksOf(id))
  /\ UNCHANGED <<links, visits>>

-----------------------------------------------------------------------------
(***************************************************************************)
(* Actions.                                                                *)
(***************************************************************************)
\* handleShareCreate: GetFile finds the file.
FindShared(l) ==
  /\ links[l] = NoLink
  /\ \E id \in Offered \cap DOMAIN files : links' = [links EXCEPT ![l] = [at |-> "found", file |-> id]]
  /\ UNCHANGED <<shares, late, visits, ended>>

\* CreateShare.  Whether the file is still there is not asked again.
CreateShare(l) ==
  /\ links[l].at = "found"
  /\ links' = [links EXCEPT ![l].at = "made"]
  /\ shares' = [k \in DOMAIN shares \cup {l} |-> IF k = l THEN links[l].file ELSE shares[k]]
  /\ UNCHANGED <<late, visits, ended>>

\* Time passes the expires_at of a link that is still there.
Expire(l) ==
  /\ l \in DOMAIN shares \ late
  /\ late' = late \cup {l}
  /\ UNCHANGED <<shares, links, visits, ended>>

\* handleShareRevoke: GetShareByID finds the row, DeleteShareByID removes it.
Revoke(l) ==
  /\ l \in DOMAIN shares
  /\ RemoveLinks({l})
  /\ UNCHANGED <<links, visits>>

\* A request that finds the row of a link.  over: the link had ended or expired by now.
Found(v, l) ==
  visits' = [visits EXCEPT ![v] =
    [at |-> "found", file |-> shares[l], over |-> l \in ended \cup late]]

\* Slip: nobody looks at the expiry.
VisitAnytime(v, l) ==
  /\ visits[v].at # "found" /\ links[l].at = "made"
  /\ IF l \in DOMAIN shares THEN Found(v, l) ELSE visits' = [visits EXCEPT ![v] = NoVisit]
  /\ UNCHANGED <<shares, links, late, ended>>

\* handleSharePublic up to the expiry: GetShare finds nothing, or an expired link
\* that DeleteShareByID removes, or the link.
Visit(v, l) ==
  /\ visits[v].at # "found" /\ links[l].at = "made"
  /\ IF l \in DOMAIN shares \ late
     THEN Found(v, l) /\ UNCHANGED <<shares, late, ended>>
     ELSE visits' = [visits EXCEPT ![v] = NoVisit] /\ RemoveLinks(late \cap {l})
  /\ UNCHANGED links

IsServed(v) == visits[v].at = "found" /\ visits[v].file \in DOMAIN files

\* GetFile, then TouchShare and the download (IsServed; see Stream for the rest), or
\* "file no longer exists".
Serve(v) ==
  /\ visits[v].at = "found"
  /\ visits' = [visits EXCEPT ![v] = NoVisit]
  /\ UNCHANGED <<shares, links, late, ended>>

ShareInit ==
  /\ shares = <<>> /\ late = {} /\ ended = {}
  /\ links = [l \in Links |-> NoLink]
  /\ visits = [v \in Visitors |-> NoVisit]

ShareNext ==
  \/ \E l \in Links : FindShared(l) \/ CreateShare(l) \/ Expire(l) \/ Revoke(l)
  \/ \E v \in Visitors : Serve(v) \/ \E l \in Links : Visit(v, l)

-----------------------------------------------------------------------------
(***************************************************************************)
(* Properties.                                                             *)
(***************************************************************************)
\* A request that comes after its link was revoked, had expired, or went with its
\* deleted file is never served, even when a restore has brought the file back in
\* the meantime: handleDelete takes the links along (server.go:1152), and a backup
\* does not hold them.  (Two kinds of links are not taken along: those whose maker had
\* looked the file up before the delete and stored the row after it, share.go:44-71,
\* and those of a delete whose statement failed, server.go:1152.)
EndedStayEnded == \A v \in Visitors : IsServed(v) => ~visits[v].over

\* A link that nobody revoked, that has not expired and whose file nobody deleted
\* is still in the table, for the file it was made for.
LiveLinksStay ==
  \A l \in Links : links[l].at = "made" /\ l \notin ended \cup late
                     => l \in DOMAIN shares /\ shares[l] = links[l].file

\* A link lives as long as it should and no longer: nobody revoked it, time has
\* not run out, and its file has not been deleted (share.go, server.go:1152).
LinksHonest == EndedStayEnded /\ LiveLinksStay
===============================================================================
