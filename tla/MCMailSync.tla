----------------------------- MODULE MCMailSync -----------------------------
EXTENDS MailSync

\* Mails with Message-IDs of their own, and the second one a copy of the first.
Single == <<1, 2, 3>>
Copies == <<1, 1, 3>>

With(protocol, folders, limit, post, rule, message) ==
  [protocol |-> protocol, folders |-> folders, limit |-> limit, post |-> post,
   rule |-> rule, message |-> message]

SomeSetups == {
  With("imap", 1, 1, "none", "delete", Single),
  With("imap", 2, 2, "delete", "read", Single),
  With("imap", 1, 0, "move", "none", Copies),
  With("pop3", 1, 1, "delete", "delete", Single),
  With("pop3 numbers", 1, 0, "delete", "none", Copies),
  With("graph", 1, 0, "none", "delete", Single),
  With("graph", 1, 2, "delete", "none", Single)}

GraphUnlimited == {With("graph", 1, 0, "none", "none", Single)}
=============================================================================
