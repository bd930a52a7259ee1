------------------------------ MODULE MCUsers ------------------------------
(* A small user table for TLC, and a comment of the code the code does not keep. *)
EXTENDS UserAdminProperties, TLC

\* An administrator, an editor and a viewer (whose seeded address has a space in it) of
\* one domain, a deleted account of another.
Addresses == {"root@a", "ed@b", "van r@b", "old@c", "new@b", "NEW@b", "con@c"}
MCTexts == Addresses \cup ROLES \cup {"bad", "owner", "Email", "email", "name", "role", "Ann", ""}
MCNormal == [t \in MCTexts |-> CASE t = "NEW@b" -> "new@b" [] t = "Email" -> "email" [] OTHER -> t]
MCValid == {"root@a", "ed@b", "old@c", "new@b", "con@c"}
MCDomainOf == "root@a" :> <<"a">> @@ "old@c" :> <<"c">> @@ "con@c" :> <<"c">>
              @@ [e \in {"ed@b", "van r@b", "new@b"} |-> <<"b">>]
MCSeedUsers == << [email |-> "root@a", role |-> "admin", status |-> "active"],
                  [email |-> "ed@b", role |-> "editor", status |-> "active"],
                  [email |-> "van r@b", role |-> "viewer", status |-> "active"],
                  [email |-> "old@c", role |-> "viewer", status |-> "deleted"] >>
MCDomains == {<<"a">>, <<"b">>, <<"c">>, <<>>}

InRow(email, named, role) == [email |-> email, named |-> named, role |-> role]
MCNewUsers == {InRow("NEW@b", TRUE, "editor"), InRow("con@c", TRUE, "viewer")}

Set(field, value) ==
    [[email |-> Nothing, name |-> Nothing, role |-> Nothing, status |-> Nothing]
       EXCEPT ![field] = value]
MCUpdates == {Set("email", "NEW@b"), Set("email", "con@c"), Set("name", "given"),
              Set("role", "admin"), Set("role", "owner"), Set("status", "active")}

\* A batch with every kind of bad row, one too long, and one whose first row gives the
\* address con@c, until then an unknown actor, the role of a viewer.
MCBatches == {
    <<InRow("new@b", TRUE, "viewer"), InRow("NEW@b", TRUE, "editor"), InRow("bad", TRUE, "viewer")>>,
    <<InRow("ed@b", TRUE, "viewer"), InRow("new@b", TRUE, "owner"), InRow("new@b", FALSE, "viewer")>>,
    <<InRow("con@c", TRUE, "viewer"), InRow("NEW@b", TRUE, "customer")>>,
    [i \in 1 .. 4 |-> InRow("new@b", TRUE, "viewer")] }

\* A file with its columns in another order and a line without a name; one without a header,
\* with a blank line and a bad row; a header and nothing else; and one whose first user is
\* called Email.
MCFiles == {
    << <<>>, <<"role", "Email", "name">>, <<"viewer", "con@c", "Ann">>, <<"viewer", "new@b">> >>,
    << <<"new@b", "Ann", "viewer">>, <<>>, <<"con@c", "Ann">>, <<"NEW@b", "Ann", "editor">> >>,
    << <<"email", "", "role">> >>,
    << <<"con@c", "Email", "viewer">>, <<>>, <<"new@b", "Ann", "viewer">> >> }

\* Two domains that differ where the one that is named has an underscore.
LikeTexts == {"ann@a_b", "joe@axb", "root@r", "", "admin", "viewer"}
LikeValid == {"ann@a_b", "joe@axb", "root@r"}
LikeNormal == [t \in LikeTexts |-> t]
LikeDomainOf == "ann@a_b" :> <<"a", "_", "b">> @@ "joe@axb" :> <<"a", "x", "b">>
                @@ "root@r" :> <<"r">>
LikeSeedUsers == << [email |-> "ann@a_b", role |-> "viewer", status |-> "active"],
                    [email |-> "joe@axb", role |-> "viewer", status |-> "active"],
                    [email |-> "root@r", role |-> "admin", status |-> "active"] >>
LikeDomains == {<<"a", "_", "b">>, <<"a", "x", "b">>, <<"r">>}
LikeUpdates == {Set("status", s) : s \in {"active", "suspended"}}

\* The comment of findByDomain (users.service.ts:143-147): "All users whose email belongs
\* to the given domain (suffix `@domain`, case-insensitive)".
OnlyTheDomainIsSuspended ==
    flow.kind = "suspend" =>
        \A n \in Since : DomainOf[TableAt(n)[audit[n].target].email] = flow.about
=============================================================================
