---------------------------- MODULE ControlProofs ---------------------------
(* Proofs about Control, for any number of sessions, accounts and names    *)
(* and any tree of directories.                                            *)
EXTENDS Control, FiniteSetTheorems, SequenceTheorems, TLAPS

-----------------------------------------------------------------------------
(* The inductive invariant. *)

Busy == {"mkd", "list"}

(* A command that goes on owes exactly one final reply. *)
Owes(s) ==
  /\ pc[s] = "read" => due[s] = 0
  /\ pc[s] \in Busy => due[s] = 1

(* What a command found in the tree is still there, if nobody else has     *)
(* changed it.                                                             *)
Finds(s) == ~disturbed[s] =>
  /\ pc[s] = "mkd" => Linked(Here(s))
  /\ pc[s] = "list" => \A n \in todo[s] : At(s, n) # None

IInv == TypeOK /\ \A s \in Sessions : Owes(s) /\ Finds(s)

-----------------------------------------------------------------------------
(* The replies that commands send. *)
LEMMA TwoElements == Cardinality({1} \cup {3}) = 2
<1>1. IsFiniteSet({1}) /\ Cardinality({1}) = 1
  BY FS_Singleton
<1>2. 3 \notin {1}
  OBVIOUS
<1>3. Cardinality({1} \cup {3}) = 1 + 1
  BY <1>1, <1>2, FS_AddElement
<1> QED
  BY <1>3

LEMMA FinalsOf ==
  /\ Finals(<< >>) = 0
  /\ \A x \in Int : Finals(<<x>>) = IF x >= 200 THEN 1 ELSE 0
  /\ \A x \in Int : x >= 200 => Finals(<<150, x>>) = 1
<1>1. Finals(<< >>) = 0
  <2>1. {k \in DOMAIN << >> : << >>[k] >= 200} = {}
    OBVIOUS
  <2> QED
    BY <2>1, FS_EmptySet DEF Finals
<1>2. ASSUME NEW x \in Int
      PROVE  Finals(<<x>>) = IF x >= 200 THEN 1 ELSE 0
  <2>1. CASE x >= 200
    <3>1. {k \in DOMAIN <<x>> : <<x>>[k] >= 200} = {1}
      BY <2>1
    <3> QED
      BY <2>1, <3>1, FS_Singleton DEF Finals
  <2>2. CASE ~(x >= 200)
    <3>1. {k \in DOMAIN <<x>> : <<x>>[k] >= 200} = {}
      BY <2>2
    <3> QED
      BY <2>2, <3>1, FS_EmptySet DEF Finals
  <2> QED
    BY <2>1, <2>2
<1>3. ASSUME NEW x \in Int, x >= 200
      PROVE  Finals(<<150, x>>) = 1
  <2>1. {k \in DOMAIN <<150, x>> : <<150, x>>[k] >= 200} = {2}
    BY <1>3
  <2> QED
    BY <2>1, FS_Singleton DEF Finals
<1> QED
  BY <1>1, <1>2, <1>3

-----------------------------------------------------------------------------
(* How a command begins: answered, or with its answer due. *)
Answered(s) ==
  /\ pc[s] = "read"
  /\ pc' = [pc EXCEPT ![s] = "read"] /\ due' = [due EXCEPT ![s] = 0]

GoesOn(s, next) ==
  /\ pc[s] = "read"
  /\ pc' = [pc EXCEPT ![s] = next] /\ due' = [due EXCEPT ![s] = 1]

LEMMA BeginForms ==
  ASSUME NEW s \in Sessions, NEW c, Wanted(c) = 1
  PROVE  /\ \A x \in Int : x >= 200 /\ Begin(s, c, <<x>>, "read") => Answered(s)
         /\ \A x \in Int : x >= 200 /\ Begin(s, c, <<150, x>>, "read") => Answered(s)
         /\ \A x \in Int : \A next : x >= 200 /\ Begin(s, c, <<x>>, next)
              => pc' = [pc EXCEPT ![s] = next] /\ due' = [due EXCEPT ![s] = 0]
         /\ \A next : Begin(s, c, << >>, next) => GoesOn(s, next)
         /\ \A next : Begin(s, c, <<150>>, next) => GoesOn(s, next)
BY FinalsOf DEF Begin, Set, Answered, GoesOn

Loud == {"USER", "PASS", "CWD", "CDUP", "PWD", "MKD", "RMD", "DELE", "RNFR", "RNTO",
         "STOR", "RETR", "LIST", "QUIT", "TYPE", "ACCT", "UNKNOWN"} \cup DOMAIN Simple

LEMMA WantedOf ==
  /\ \A c \in Loud : Wanted(c) = 1
  /\ \A c \in Silent : Wanted(c) = 0
  /\ Wanted("RETR of a directory") = 2
BY DEF Wanted, Loud, Simple, Silent, Twice

LEMMA LoudBegin ==
  ASSUME NEW s \in Sessions, NEW c \in Loud
  PROVE  /\ \A x \in {221, 230, 250, 257, 331, 350} :
              Begin(s, c, <<x>>, "read") => Answered(s)
         /\ \A next : Begin(s, c, << >>, next) => GoesOn(s, next)
         /\ \A next : Begin(s, c, <<150>>, next) => GoesOn(s, next)
<1>1. Wanted(c) = 1
  BY WantedOf
<1>2. \A x \in {221, 230, 250, 257, 331, 350} : x \in Int /\ x >= 200
  OBVIOUS
<1> QED
  BY <1>1, <1>2, BeginForms

LEMMA UploadBegin ==
  ASSUME NEW s \in Sessions, NEW replies \in Uploads, Begin(s, "STOR", replies, "read")
  PROVE  Answered(s)
<1>1. Wanted("STOR") = 1
  BY WantedOf DEF Loud
<1>2. PICK x \in {226, 426, 451, 553} : replies = <<x>> \/ replies = <<150, x>>
  BY DEF Uploads
<1>3. x \in Int /\ x >= 200
  BY <1>2
<1> QED
  BY <1>1, <1>2, <1>3, BeginForms

LEMMA ContinueForms ==
  ASSUME NEW s \in Sessions, NEW next, due[s] = 1
  PROVE  /\ Continue(s, << >>, next) =>
              pc' = [pc EXCEPT ![s] = next] /\ due' = [due EXCEPT ![s] = 1]
         /\ \A x \in Int : x >= 200 /\ Continue(s, <<x>>, next) =>
              pc' = [pc EXCEPT ![s] = next] /\ due' = [due EXCEPT ![s] = 0]
BY FinalsOf DEF Continue, Set

(* A command that only answers. *)
JustReplies(s) == Answered(s) /\ Keep(s) /\ UNCHANGED <<session, todo>>

LEMMA ReplyAnswers ==
  ASSUME NEW s \in Sessions, NEW c, NEW replies, Reply(s, c, replies),
         Finals(replies) = Wanted(c)
  PROVE  JustReplies(s)
<1>1. Wanted(c) - Finals(replies) = 0
  BY DEF Wanted
<1> QED
  BY <1>1 DEF Reply, Begin, Set, Answered, JustReplies

LEMMA OneReply ==
  ASSUME NEW s \in Sessions, NEW c \in Loud, NEW x \in Int, x >= 200, Reply(s, c, << x >>)
  PROVE  JustReplies(s)
<1>1. Finals(<< x >>) = 1
  BY FinalsOf
<1>2. Wanted(c) = 1
  BY WantedOf
<1>3. Finals(<< x >>) = Wanted(c)
  BY <1>1, <1>2
<1> QED
  BY <1>3, ReplyAnswers

LEMMA TransferReply ==
  ASSUME NEW s \in Sessions, NEW c \in Loud, NEW x \in Int, x >= 200, Reply(s, c, <<150, x>>)
  PROVE  JustReplies(s)
<1>1. Finals(<<150, x>>) = 1
  BY FinalsOf
<1>2. Wanted(c) = 1
  BY WantedOf
<1>3. Finals(<<150, x>>) = Wanted(c)
  BY <1>1, <1>2
<1> QED
  BY <1>3, ReplyAnswers

LEMMA TwoFinals ==
  ASSUME NEW replies \in DirDownloads
  PROVE  Finals(replies) = 2
<1>1. CASE replies = <<550, 150, 226>>
  <2>1. {k \in DOMAIN replies : replies[k] >= 200} = {1} \cup {3}
    BY <1>1
  <2> QED
    BY <2>1, TwoElements DEF Finals
<1>2. CASE replies = <<550, 150, 550>>
  <2>1. {k \in DOMAIN replies : replies[k] >= 200} = {1} \cup {3}
    BY <1>2
  <2> QED
    BY <2>1, TwoElements DEF Finals
<1> QED
  BY <1>1, <1>2 DEF DirDownloads

LEMMA TwoReplies ==
  ASSUME NEW s \in Sessions, NEW replies \in DirDownloads,
         Reply(s, "RETR of a directory", replies)
  PROVE  JustReplies(s)
<1>1. Finals(replies) = Wanted("RETR of a directory")
  BY TwoFinals, WantedOf
<1> QED
  BY <1>1, ReplyAnswers

LEMMA SilentForms ==
  ASSUME NEW s \in Sessions, NEW c \in Silent, Reply(s, c, << >>)
  PROVE  JustReplies(s)
<1>1. Finals(<< >>) = 0 /\ Wanted(c) = 0
  BY FinalsOf, WantedOf
<1> QED
  BY <1>1, ReplyAnswers

LEMMA ReplyCases ==
  ASSUME NEW s \in Sessions
  PROVE  /\ \A c \in Loud : \A x \in {257, 500, 502, 503, 504, 530, 550} :
                Reply(s, c, <<x>>) => JustReplies(s)
         /\ Other(s) => JustReplies(s)
<1>1. ASSUME NEW c \in Loud,
             NEW x \in {257, 500, 502, 503, 504, 530, 550}, Reply(s, c, <<x>>)
      PROVE  JustReplies(s)
  <2>1. x \in Int /\ x >= 200
    OBVIOUS
  <2> QED
    BY <1>1, <2>1, OneReply
<1>2. CASE \E c \in DOMAIN Simple : Reply(s, c, <<Simple[c]>>)
  <2>1. PICK c \in DOMAIN Simple : Reply(s, c, <<Simple[c]>>)
    BY <1>2
  <2>2. Simple[c] \in Int /\ Simple[c] >= 200
    BY DEF Simple
  <2>3. c \in Loud
    BY DEF Loud
  <2> QED
    BY <2>1, <2>2, <2>3, OneReply
<1>3. CASE \E c \in Silent : Reply(s, c, << >>)
  BY <1>3, SilentForms
<1>4. "TYPE" \in Loud /\ "ACCT" \in Loud /\ "UNKNOWN" \in Loud
  BY DEF Loud
<1>5. CASE \/ Reply(s, "TYPE", <<500>>) \/ Reply(s, "ACCT", <<502>>)
           \/ Reply(s, "UNKNOWN", <<500>>)
  BY <1>1, <1>4, <1>5
<1> QED
  BY <1>1, <1>2, <1>3, <1>5 DEF Other

-----------------------------------------------------------------------------
(* What a step leaves alone: the other sessions but for the tree, whose    *)
(* change is on record for those in the middle of a command.               *)
Same(t) ==
  /\ pc'[t] = pc[t] /\ due'[t] = due[t] /\ todo'[t] = todo[t] /\ cwd'[t] = cwd[t]
  /\ uid'[t] = uid[t] /\ gid'[t] = gid[t]

Recorded(t) ==
  \/ UNCHANGED entry /\ disturbed'[t] = disturbed[t]
  \/ ~disturbed'[t] => ~disturbed[t] /\ pc[t] \notin Busy

LEMMA OthersStep ==
  ASSUME TypeOK, NEW s \in Sessions, Step(s), NEW t \in Sessions, t # s
  PROVE  Same(t) /\ Recorded(t)
<1> USE DEF TypeOK, Same, Recorded, Busy, Set, Begin, Continue, Keep, Gone, session
<1>1. ASSUME NEW c, NEW x, Reply(s, c, x)
      PROVE  Same(t) /\ Recorded(t)
  BY <1>1 DEF Reply
<1>2. ASSUME NEW p, NEW n, NEW x, Link(s, p, n, x)
      PROVE  ~disturbed'[t] => ~disturbed[t] /\ pc[t] \notin Busy
  BY <1>2 DEF Link, Disturb
<1>3. ASSUME NEW c, NEW path, Move(s, c, path)
      PROVE  Same(t) /\ Recorded(t)
  BY <1>3 DEF Move
<1>4. ASSUME NEW c, NEW n, NEW ok, Remove(s, c, n, ok)
      PROVE  Same(t) /\ Recorded(t)
  BY <1>1, <1>2, <1>4 DEF Remove
<1>17. ASSUME NEW c, NEW x, NEW how, End(s, c, x, how)
       PROVE  Same(t) /\ Recorded(t)
  BY <1>17 DEF End
<1>5. CASE User(s)
  BY <1>1, <1>5 DEF User
<1>6. CASE Pass(s)
  BY <1>1, <1>6, <1>17 DEF Pass
<1>7. CASE Cdup(s) \/ Pwd(s)
  BY <1>1, <1>3, <1>7 DEF Cdup, Pwd
<1>8. CASE MkdGetcwd(s) \/ ListEntry(s) \/ ListEnd(s)
  BY <1>8 DEF MkdGetcwd, ListEntry, ListEnd
<1>9. CASE NoData(s) \/ List(s) \/ Quit(s) \/ Renew(s)
  BY <1>9, <1>17 DEF NoData, List, Quit, Renew
<1>10. CASE Other(s)
  <2> HIDE DEF Set, Begin, Keep, Gone, session, Same, Recorded, Busy, TypeOK
  <2>1. CASE \E c \in DOMAIN Simple : Reply(s, c, <<Simple[c]>>)
    BY <1>1, <2>1
  <2>2. CASE \E c \in Silent : Reply(s, c, << >>)
    BY <1>1, <2>2
  <2>3. CASE \/ Reply(s, "TYPE", <<500>>) \/ Reply(s, "ACCT", <<502>>)
             \/ Reply(s, "UNKNOWN", <<500>>)
    BY <1>1, <2>3
  <2> QED
    BY <1>10, <2>1, <2>2, <2>3 DEF Other
<1>11. ASSUME NEW n \in Names, Cwd(s, n) \/ Rmd(s, n) \/ Dele(s, n)
       PROVE  Same(t) /\ Recorded(t)
  BY <1>1, <1>3, <1>4, <1>11 DEF Cwd, Rmd, Dele
<1>12. ASSUME NEW n \in Names, Mkd(s, n)
       PROVE  Same(t) /\ Recorded(t)
  BY <1>1, <1>2, <1>12 DEF Mkd
<1>13. ASSUME NEW n \in Names, Rnfr(s, n)
       PROVE  Same(t) /\ Recorded(t)
  BY <1>13 DEF Rnfr
<1>14. ASSUME NEW n \in Names, Rnto(s, n)
       PROVE  Same(t) /\ Recorded(t)
  <2>1. ASSUME Disturb(s)
        PROVE  ~disturbed'[t] => ~disturbed[t] /\ pc[t] \notin Busy
    BY <2>1 DEF Disturb
  <2>2. CASE Reply(s, "RNTO", <<503>>) \/ Reply(s, "RNTO", <<550>>)
    BY <1>1, <2>2
  <2>3. CASE ~(Reply(s, "RNTO", <<503>>) \/ Reply(s, "RNTO", <<550>>))
    <3>1. /\ Disturb(s) /\ pc' = [pc EXCEPT ![s] = "read"]
          /\ \E v : due' = [due EXCEPT ![s] = v]
          /\ UNCHANGED <<uid, gid, cwd, todo>>
      BY <1>14, <2>3 DEF Rnto
    <3> QED
      BY <2>1, <3>1
  <2> QED
    BY <2>2, <2>3
<1>15. ASSUME NEW n \in Names, Store(s, n)
       PROVE  Same(t) /\ Recorded(t)
  BY <1>1, <1>2, <1>15 DEF Store, Uploaded
<1>16. ASSUME NEW n \in Names, Retr(s, n)
       PROVE  Same(t) /\ Recorded(t)
  <2> HIDE DEF Set, Begin, Keep, Gone, session, Same, Recorded, Busy, TypeOK
  <2> QED
    BY <1>1, <1>16, <1>17 DEF Retr
<1> QED
  BY <1>5, <1>6, <1>7, <1>8, <1>9, <1>10, <1>11, <1>12, <1>13, <1>14, <1>15, <1>16 DEF Step

-----------------------------------------------------------------------------
(* A step of the session itself. *)
Own(s) == TypeOK' /\ Owes(s)' /\ Finds(s)'

LEMMA HereType ==
  ASSUME TypeOK, NEW s \in Sessions
  PROVE  /\ Here(s) \in Dirs \cup {Top}
         /\ \A n \in Names : At(s, n) \in Nodes \cup {None}
<1>1. cwd[s] \in Seq(Dirs \cup {Top}) /\ cwd[s] # << >>
  BY DEF TypeOK
<1>2. Len(cwd[s]) \in 1 .. Len(cwd[s])
  BY <1>1, EmptySeq, LenProperties
<1>3. Here(s) \in Dirs \cup {Top}
  BY <1>1, <1>2, ElementOfSeq DEF Here
<1> QED
  BY <1>3 DEF At, TypeOK

(* What an answered command must respect. *)
LEMMA AnsweredOwn ==
  ASSUME IInv, NEW s \in Sessions, Answered(s), disturbed' \in [Sessions -> BOOLEAN],
         entry' \in [Dirs \cup {Top} -> [Names -> Nodes \cup {None}]],
         user' \in [Sessions -> Accounts], uid' \in [Sessions -> Accounts],
         gid' \in [Sessions -> Accounts],
         cwd' \in [Sessions -> Seq(Dirs \cup {Top}) \ {<< >>}],
         rnfr' \in [Sessions -> Names \cup {None}], todo' \in [Sessions -> SUBSET Names]
  PROVE  Own(s)
BY DEF IInv, TypeOK, Answered, Own, Owes, Finds, Busy

LEMMA LinkType ==
  ASSUME TypeOK, NEW s \in Sessions, NEW p \in Dirs \cup {Top}, NEW n \in Names,
         NEW x \in Nodes \cup {None}, Link(s, p, n, x)
  PROVE  /\ entry' \in [Dirs \cup {Top} -> [Names -> Nodes \cup {None}]]
         /\ disturbed' \in [Sessions -> BOOLEAN]
BY DEF Link, Disturb, TypeOK

LEMMA JustRepliesOwn ==
  ASSUME IInv, NEW s \in Sessions, JustReplies(s)
  PROVE  Own(s)
<1>1. /\ Answered(s) /\ disturbed' = [disturbed EXCEPT ![s] = FALSE]
      /\ UNCHANGED <<entry, user, uid, gid, cwd, rnfr, todo>>
  BY DEF JustReplies, Keep, Set, session
<1> QED
  BY <1>1, AnsweredOwn DEF IInv, TypeOK

(* A command with which the session ends. *)
LEMMA GoneOwn ==
  ASSUME IInv, NEW s \in Sessions, NEW how \in Ended, NEW v \in Int, Gone(s),
         pc' = [pc EXCEPT ![s] = how], due' = [due EXCEPT ![s] = v],
         disturbed' \in [Sessions -> BOOLEAN],
         entry' \in [Dirs \cup {Top} -> [Names -> Nodes \cup {None}]]
  PROVE  Own(s)
<1>1. TypeOK /\ <<Top>> \in Seq(Dirs \cup {Top}) \ {<< >>} /\ Root \in Accounts
  BY DEF IInv, Accounts
<1>2. how \notin Busy \cup {"read"}
  BY DEF Ended, Errors, Busy
<1> QED
  BY <1>1, <1>2 DEF Gone, Set, TypeOK, Own, Owes, Finds, Busy

LEMMA ExitOwn ==
  ASSUME IInv, NEW s \in Sessions, NEW c, NEW replies, NEW how, End(s, c, replies, how),
         Finals(replies) \in Int
  PROVE  Own(s)
<1>1. Wanted(c) - Finals(replies) \in Int
  BY DEF Wanted
<1>2. /\ how \in Ended /\ Gone(s) /\ UNCHANGED entry
      /\ disturbed' = [disturbed EXCEPT ![s] = FALSE]
      /\ pc' = [pc EXCEPT ![s] = how]
      /\ due' = [due EXCEPT ![s] = Wanted(c) - Finals(replies)]
  BY DEF End, Begin, Keep, Set
<1> QED
  BY <1>1, <1>2, GoneOwn DEF IInv, TypeOK

LEMMA ExitCases ==
  ASSUME IInv, NEW s \in Sessions
  PROVE  /\ \A c, how : End(s, c, << >>, how) => Own(s)
         /\ \A c, how : \A x \in Int : End(s, c, <<x>>, how) => Own(s)
<1>1. Finals(<< >>) \in Int /\ \A x \in Int : Finals(<<x>>) \in Int
  BY FinalsOf
<1> QED
  BY <1>1, ExitOwn

LEMMA AccountOwn ==
  ASSUME IInv, NEW s \in Sessions
  PROVE  /\ User(s) => Own(s)
         /\ Pass(s) => Own(s)
<1>0. TypeOK /\ << >> \in Seq(Dirs \cup {Top}) /\ <<Top>> \in Seq(Dirs \cup {Top}) \ {<< >>}
  BY DEF IInv
<1>1. CASE User(s)
  <2>1. CASE Reply(s, "USER", <<530>>)
    BY <2>1, ReplyCases, JustRepliesOwn DEF Loud
  <2>2. ASSUME NEW u \in Accounts, Begin(s, "USER", << 331 >>, "read"), Set(user, s, u), Keep(s),
               UNCHANGED <<uid, gid, cwd, rnfr, todo>>
        PROVE  Own(s)
    <3>1. Answered(s)
      BY <2>2, LoudBegin DEF Loud
    <3>2. user' = [user EXCEPT ![s] = u] /\ disturbed' = [disturbed EXCEPT ![s] = FALSE]
          /\ UNCHANGED entry
      BY <2>2 DEF Set, Keep
    <3> QED
      BY <1>0, <2>2, <3>1, <3>2, AnsweredOwn DEF TypeOK
  <2> QED
    BY <1>1, <2>1, <2>2 DEF User
<1>2. CASE Pass(s)
  <2>1. CASE Reply(s, "PASS", <<530>>)
    BY <2>1, ReplyCases, JustRepliesOwn DEF Loud
  <2>2. ASSUME NEW how, End(s, "PASS", << >>, how)
        PROVE  Own(s)
    BY <2>2, ExitCases
  <2>3. ASSUME Begin(s, "PASS", << 230 >>, "read"), Set(cwd, s, <<Top>>), Set(uid, s, user[s]),
               Set(gid, s, user[s]), Keep(s), UNCHANGED <<user, rnfr, todo>>
        PROVE  Own(s)
    <3>1. /\ uid' = [uid EXCEPT ![s] = user[s]] /\ gid' = [gid EXCEPT ![s] = user[s]]
          /\ disturbed' = [disturbed EXCEPT ![s] = FALSE] /\ UNCHANGED entry
          /\ cwd' = [cwd EXCEPT ![s] = <<Top>>]
      BY <2>3 DEF Set, Keep
    <3>2. Answered(s)
      BY <2>3, LoudBegin DEF Loud
    <3> QED
      BY <1>0, <2>3, <3>1, <3>2, AnsweredOwn DEF TypeOK
  <2> QED
    BY <1>2, <2>1, <2>2, <2>3 DEF Pass
<1> QED
  BY <1>1, <1>2

LEMMA MoveOwn ==
  ASSUME IInv, NEW s \in Sessions
  PROVE  /\ \A n \in Names : Cwd(s, n) => Own(s)
         /\ Cdup(s) => Own(s)
         /\ Pwd(s) => Own(s)
<1>0. TypeOK /\ cwd[s] \in Seq(Dirs \cup {Top}) /\ cwd[s] # << >>
  BY DEF IInv, TypeOK
<1>1. ASSUME NEW path \in Seq(Dirs \cup {Top}) \ {<< >>}, cwd' = [cwd EXCEPT ![s] = path],
             Answered(s), Keep(s), UNCHANGED <<user, uid, gid, rnfr, todo>>
      PROVE  Own(s)
  <2>1. disturbed' = [disturbed EXCEPT ![s] = FALSE] /\ UNCHANGED entry
    BY <1>1 DEF Set, Keep
  <2> QED
    BY <1>0, <1>1, <2>1, AnsweredOwn DEF TypeOK
<1>2. ASSUME NEW n \in Names, Cwd(s, n)
      PROVE  Own(s)
  <2>1. CASE At(s, n) \in Dirs /\ Move(s, "CWD", Append(cwd[s], At(s, n)))
    <3> DEFINE down == Append(cwd[s], At(s, n))
    <3>1. down \in Seq(Dirs \cup {Top}) \ {<< >>}
      BY <1>0, <2>1, AppendProperties
    <3>2. Begin(s, "CWD", <<250>>, "read") /\ cwd' = [cwd EXCEPT ![s] = down]
          /\ Keep(s) /\ UNCHANGED <<user, uid, gid, rnfr, todo>>
      BY <2>1 DEF Move, Set
    <3>3. Answered(s)
      BY <3>2, LoudBegin DEF Loud
    <3> QED
      BY <1>1, <3>1, <3>2, <3>3
  <2>2. CASE Reply(s, "CWD", <<550>>)
    BY <2>2, ReplyCases, JustRepliesOwn DEF Loud
  <2> QED
    BY <1>2, <2>1, <2>2 DEF Cwd
<1>3. CASE Cdup(s)
  <2> DEFINE len == Len(cwd[s])
             up == SubSeq(cwd[s], 1, len - 1)
             path == IF len = 1 THEN cwd[s] ELSE up
  <2>1. len \in Nat \ {0}
    BY <1>0, LenProperties, EmptySeq
  <2>2. path \in Seq(Dirs \cup {Top}) \ {<< >>}
    <3>1. CASE len = 1
      BY <1>0, <3>1
    <3>2. CASE len # 1
      <4>1. len - 1 \in 1 - 1 .. len /\ len - 1 > 0
        <5> HIDE DEF len
        <5> QED
          BY <2>1, <3>2
      <4>2. up \in Seq(Dirs \cup {Top}) /\ Len(up) = len - 1
        BY <1>0, <2>1, <4>1, SubSeqProperties
      <4> HIDE DEF up
      <4>3. up # << >>
        BY <4>1, <4>2, EmptySeq
      <4> QED
        BY <3>2, <4>2, <4>3
    <3> QED
      BY <3>1, <3>2
  <2>3. Begin(s, "CDUP", <<250>>, "read") /\ cwd' = [cwd EXCEPT ![s] = path]
        /\ Keep(s) /\ UNCHANGED <<user, uid, gid, rnfr, todo>>
    BY <1>3 DEF Cdup, Move, Set
  <2>4. Answered(s)
    BY <2>3, LoudBegin DEF Loud
  <2> HIDE DEF path
  <2> QED
    BY <1>1, <2>2, <2>3, <2>4
<1>4. CASE Pwd(s)
  <2>1. "PWD" \in Loud
    BY DEF Loud
  <2>2. CASE Gets(s)
    <3>1. Reply(s, "PWD", <<257>>)
      BY <1>4, <2>2 DEF Pwd, Reply, Begin
    <3> QED
      BY <2>1, <3>1, ReplyCases, JustRepliesOwn
  <2>3. CASE ~Gets(s)
    <3>1. Reply(s, "PWD", <<504>>)
      BY <1>4, <2>3 DEF Pwd, Reply, Begin
    <3> QED
      BY <2>1, <3>1, ReplyCases, JustRepliesOwn
  <2> QED
    BY <2>2, <2>3
<1> QED
  BY <1>2, <1>3, <1>4

LEMMA MkdOwn ==
  ASSUME IInv, NEW s \in Sessions, NEW n \in Names, Mkd(s, n)
  PROVE  Own(s)
<1>0. TypeOK /\ Here(s) \in Dirs \cup {Top}
  BY HereType DEF IInv
<1>1. CASE Reply(s, "MKD", <<550>>)
  BY <1>1, ReplyCases, JustRepliesOwn DEF Loud
<1>3. ASSUME NEW absolute \in BOOLEAN, NEW d \in Dirs,
             LET p == IF absolute THEN Top ELSE Here(s) IN
             /\ CanCreate(p, n)
             /\ IF absolute THEN Begin(s, "MKD", << 257 >>, "read")
                            ELSE Begin(s, "MKD", << >>, "mkd")
             /\ Link(s, p, n, d) /\ UNCHANGED <<session, todo>>
      PROVE  Own(s)
  <2> DEFINE p == IF absolute THEN Top ELSE Here(s)
  <2>1. /\ entry' \in [Dirs \cup {Top} -> [Names -> Nodes \cup {None}]]
        /\ disturbed' \in [Sessions -> BOOLEAN]
        /\ UNCHANGED <<user, uid, gid, cwd, rnfr, todo>>
    BY <1>0, <1>3, LinkType DEF Nodes, session
  <2>2. CASE absolute
    <3>1. Answered(s)
      BY <1>3, <2>2, LoudBegin DEF Loud
    <3> QED
      BY <2>1, <3>1, AnsweredOwn DEF IInv, TypeOK
  <2>3. CASE ~absolute
    <3>1. GoesOn(s, "mkd") /\ p = Here(s)
      BY <1>3, <2>3, LoudBegin DEF Loud
    <3>2. (Linked(Here(s)))'
      <4>1. Here(s)' = Here(s)
        BY <2>1 DEF Here
      <4>2. Linked(Here(s)) /\ entry[Here(s)][n] = None
        BY <1>3, <3>1 DEF CanCreate
      <4>3. ASSUME NEW q \in Dirs \cup {Top}, NEW m \in Names, entry[q][m] = Here(s), Here(s) # Top
            PROVE  entry'[q][m] = Here(s)
        <5>1. Here(s) # None
          BY <1>0, ControlAssumption
        <5>2. entry' = [entry EXCEPT ![Here(s)][n] = d]
          BY <1>3, <3>1 DEF Link
        <5> QED
          BY <1>0, <4>2, <4>3, <5>1, <5>2 DEF TypeOK
      <4> QED
        BY <4>1, <4>2, <4>3 DEF Linked
    <3> QED
      BY <1>0, <2>1, <3>1, <3>2 DEF GoesOn, TypeOK, Own, Owes, Finds, Busy
  <2> QED
    BY <2>2, <2>3
<1> QED
  BY <1>1, <1>3 DEF Mkd

LEMMA GetcwdOwn ==
  ASSUME IInv, NEW s \in Sessions, MkdGetcwd(s)
  PROVE  Own(s)
<1>0. TypeOK /\ Owes(s) /\ Finds(s)
  BY DEF IInv
<1>1. due[s] = 1 /\ pc[s] = "mkd" /\ UNCHANGED <<entry, disturbed>>
  BY <1>0 DEF MkdGetcwd, Owes, Busy
<1>2. CASE Continue(s, <<257>>, "read") /\ UNCHANGED <<session, todo>>
  <2>0. 257 \in Int /\ 257 >= 200
    OBVIOUS
  <2>1. pc' = [pc EXCEPT ![s] = "read"] /\ due' = [due EXCEPT ![s] = 0]
    BY <1>1, <1>2, <2>0, ContinueForms
  <2>2. UNCHANGED <<user, uid, gid, cwd, rnfr, todo>>
    BY <1>2 DEF session
  <2> QED
    BY <1>0, <1>1, <2>1, <2>2 DEF TypeOK, Own, Owes, Finds, Busy
<1>3. CASE Continue(s, << >>, "getcwd") /\ Gone(s)
  <2>1. pc' = [pc EXCEPT ![s] = "getcwd"] /\ due' = [due EXCEPT ![s] = 1]
    BY <1>1, <1>3, ContinueForms
  <2>2. "getcwd" \in Ended
    BY DEF Ended, Errors
  <2> QED
    BY <1>0, <1>1, <1>3, <2>1, <2>2, GoneOwn DEF TypeOK
<1> QED
  BY <1>2, <1>3 DEF MkdGetcwd

LEMMA ListOwn ==
  ASSUME IInv, NEW s \in Sessions
  PROVE  /\ List(s) => Own(s)
         /\ ListEntry(s) => Own(s)
         /\ ListEnd(s) => Own(s)
<1>0. TypeOK /\ Owes(s) /\ Finds(s)
  BY DEF IInv
<1>4. CASE End(s, "LIST", <<150>>, "opendir")
  BY <1>4, ExitCases
<1>1. CASE /\ Begin(s, "LIST", <<150>>, "list")
           /\ Set(todo, s, {n \in Names : At(s, n) # None})
           /\ Keep(s) /\ UNCHANGED session
  <2>1. GoesOn(s, "list")
    BY <1>1, LoudBegin DEF Loud
  <2>2. /\ todo' = [todo EXCEPT ![s] = {n \in Names : At(s, n) # None}]
        /\ disturbed' = [disturbed EXCEPT ![s] = FALSE]
        /\ UNCHANGED <<entry, user, uid, gid, cwd, rnfr>>
    BY <1>1 DEF Set, Keep, session
  <2>3. \A n : At(s, n)' = At(s, n)
    BY <2>2 DEF At, Here
  <2> QED
    BY <1>0, <2>1, <2>2, <2>3 DEF GoesOn, TypeOK, Own, Owes, Finds, Busy
<1>2. CASE ListEntry(s)
  <2>1. PICK n \in todo[s] :
          \/ /\ At(s, n) # None /\ Continue(s, << >>, "list")
             /\ Set(todo, s, todo[s] \ {n}) /\ UNCHANGED session
          \/ Continue(s, << >>, "lstat") /\ Gone(s)
    BY <1>2 DEF ListEntry
  <2>2. UNCHANGED <<entry, disturbed>> /\ pc[s] = "list" /\ due[s] = 1
    BY <1>0, <1>2 DEF ListEntry, Owes, Busy
  <2>3. CASE /\ Continue(s, << >>, "list")
             /\ Set(todo, s, todo[s] \ {n}) /\ UNCHANGED session
    <3>0. /\ todo' = [todo EXCEPT ![s] = todo[s] \ {n}]
          /\ UNCHANGED <<user, uid, gid, cwd, rnfr>>
      BY <2>3 DEF Set, session
    <3>1. pc' = [pc EXCEPT ![s] = "list"] /\ due' = [due EXCEPT ![s] = 1]
      BY <2>2, <2>3, ContinueForms
    <3>2. \A m : At(s, m)' = At(s, m)
      BY <2>2, <3>0 DEF At, Here
    <3>3. todo' \in [Sessions -> SUBSET Names] /\ todo'[s] \subseteq todo[s]
      BY <1>0, <3>0 DEF TypeOK
    <3> QED
      BY <1>0, <2>2, <3>0, <3>1, <3>2, <3>3 DEF TypeOK, Own, Owes, Finds, Busy
  <2>4. CASE Continue(s, << >>, "lstat") /\ Gone(s)
    <3>1. pc' = [pc EXCEPT ![s] = "lstat"] /\ due' = [due EXCEPT ![s] = 1]
      BY <2>2, <2>4, ContinueForms
    <3>2. "lstat" \in Ended
      BY DEF Ended, Errors
    <3> QED
      BY <1>0, <2>2, <2>4, <3>1, <3>2, GoneOwn DEF TypeOK
  <2> QED
    BY <2>1, <2>3, <2>4
<1>3. CASE ListEnd(s)
  <2>1. pc[s] = "list" /\ due[s] = 1
    BY <1>0, <1>3 DEF ListEnd, Owes, Busy
  <2>2. Continue(s, <<226>>, "read") /\ 226 \in Int /\ 226 >= 200
    BY <1>3 DEF ListEnd
  <2>3. pc' = [pc EXCEPT ![s] = "read"] /\ due' = [due EXCEPT ![s] = 0]
    BY <2>1, <2>2, ContinueForms
  <2>4. UNCHANGED <<entry, user, uid, gid, cwd, rnfr, todo, disturbed>>
    BY <1>3 DEF ListEnd, session
  <2> QED
    BY <1>0, <2>1, <2>3, <2>4 DEF TypeOK, Own, Owes, Finds, Busy
<1> QED
  BY <1>1, <1>2, <1>3, <1>4 DEF List

LEMMA TreeOwn ==
  ASSUME IInv, NEW s \in Sessions, NEW n \in Names
  PROVE  /\ Rmd(s, n) => Own(s)
         /\ Dele(s, n) => Own(s)
         /\ Rnfr(s, n) => Own(s)
         /\ Store(s, n) => Own(s)
         /\ Retr(s, n) => Own(s)
<1>0. TypeOK /\ Here(s) \in Dirs \cup {Top}
  BY HereType DEF IInv
<1>1. ASSUME NEW c \in Loud, NEW ok, Remove(s, c, n, ok)
      PROVE  Own(s)
  <2>1. CASE Reply(s, c, <<550>>)
    BY <2>1, ReplyCases, JustRepliesOwn
  <2>2. CASE Begin(s, c, <<250>>, "read") /\ Link(s, Here(s), n, None) /\ UNCHANGED <<session, todo>>
    <3>1. Answered(s)
      BY <2>2, LoudBegin
    <3>2. UNCHANGED <<user, uid, gid, cwd, rnfr, todo>>
      BY <2>2 DEF session
    <3> QED
      BY <1>0, <2>2, <3>1, <3>2, LinkType, AnsweredOwn DEF TypeOK
  <2> QED
    BY <1>1, <2>1, <2>2 DEF Remove
<1>2. CASE Rmd(s, n) \/ Dele(s, n)
  BY <1>1, <1>2 DEF Rmd, Dele, Loud
<1>3. CASE Rnfr(s, n)
  <2>1. Answered(s)
    BY <1>3, LoudBegin DEF Rnfr, Loud
  <2>2. /\ rnfr' = [rnfr EXCEPT ![s] = n] /\ disturbed' = [disturbed EXCEPT ![s] = FALSE]
        /\ UNCHANGED <<entry, user, uid, gid, cwd, todo>>
    BY <1>3 DEF Rnfr, Set, Keep
  <2> QED
    BY <1>0, <2>1, <2>2, AnsweredOwn DEF TypeOK
<1>4. CASE Store(s, n)
  <2>0. "STOR" \in Loud /\ 553 \in Int /\ 553 >= 200
    BY DEF Loud
  <2>1. CASE Reply(s, "STOR", <<553>>)
    <3>1. JustReplies(s)
      BY <2>0, <2>1, OneReply
    <3> QED
      BY <3>1, JustRepliesOwn
  <2>2. ASSUME Uploaded(s), disturbed' \in [Sessions -> BOOLEAN],
               entry' \in [Dirs \cup {Top} -> [Names -> Nodes \cup {None}]]
        PROVE  Own(s)
    <3>1. ASSUME NEW replies \in Uploads, Begin(s, "STOR", replies, "read"),
                 UNCHANGED <<session, todo>>
          PROVE  Own(s)
      <4>1. Answered(s)
        BY <3>1, UploadBegin
      <4>2. UNCHANGED <<user, uid, gid, cwd, rnfr, todo>>
        BY <3>1 DEF session
      <4> QED
        BY <1>0, <2>2, <4>1, <4>2, AnsweredOwn DEF TypeOK
    <3>2. CASE Begin(s, "STOR", << >>, "lseek") /\ Gone(s)
      <4>1. pc' = [pc EXCEPT ![s] = "lseek"] /\ due' = [due EXCEPT ![s] = 1]
        <5>1. GoesOn(s, "lseek")
          BY <2>0, <3>2, LoudBegin
        <5> QED
          BY <5>1 DEF GoesOn
      <4>2. "lseek" \in Ended /\ 1 \in Int
        BY DEF Ended, Errors
      <4> QED
        BY <2>2, <3>2, <4>1, <4>2, GoneOwn
    <3> QED
      BY <2>2, <3>1, <3>2 DEF Uploaded
  <2>3. CASE Uploaded(s) /\ Keep(s)
    <3>1. UNCHANGED entry /\ disturbed' \in [Sessions -> BOOLEAN]
      BY <1>0, <2>3 DEF Keep, Set, TypeOK
    <3> QED
      BY <1>0, <2>2, <2>3, <3>1 DEF TypeOK
  <2>4. ASSUME NEW f \in Files, Uploaded(s), Link(s, Here(s), n, f)
        PROVE  Own(s)
    <3>1. f \in Nodes \cup {None}
      BY DEF Nodes
    <3> QED
      BY <1>0, <2>2, <2>4, <3>1, LinkType
  <2> QED
    BY <1>4, <2>1, <2>3, <2>4 DEF Store
<1>5. CASE Retr(s, n)
  <2>0. "RETR" \in Loud
    BY DEF Loud
  <2>1. \A end \in {226, 550} : end \in Int /\ end >= 200
    OBVIOUS
  <2>2. ASSUME NEW replies \in Downloads, Reply(s, "RETR", replies)
        PROVE  Own(s)
    <3>1. PICK x \in {226, 550} : replies = <<150, x>>
      BY DEF Downloads
    <3>2. x \in Int /\ x >= 200
      BY <2>1
    <3>3. Reply(s, "RETR", <<150, x>>)
      BY <2>2, <3>1
    <3>4. JustReplies(s)
      BY <2>0, <3>2, <3>3, TransferReply
    <3> QED
      BY <3>4, JustRepliesOwn
  <2>4. ASSUME NEW replies \in DirDownloads, Reply(s, "RETR of a directory", replies)
        PROVE  Own(s)
    BY <2>4, TwoReplies, JustRepliesOwn
  <2>3. ASSUME NEW x \in Int, NEW how, End(s, "RETR", <<x>>, how)
        PROVE  Own(s)
    BY <2>3, ExitCases
  <2>5. 550 \in Int /\ 150 \in Int
    OBVIOUS
  <2> QED
    BY <1>5, <2>2, <2>3, <2>4, <2>5 DEF Retr
<1> QED
  BY <1>2, <1>3, <1>4, <1>5

LEMMA RntoOwn ==
  ASSUME IInv, NEW s \in Sessions, NEW b \in Names, Rnto(s, b)
  PROVE  Own(s)
<1>0. TypeOK /\ Here(s) \in Dirs \cup {Top}
  BY HereType DEF IInv
<1> DEFINE a == rnfr[s]
<1>1. CASE Reply(s, "RNTO", <<503>>) \/ Reply(s, "RNTO", <<550>>)
  <2>1. "RNTO" \in Loud
    BY DEF Loud
  <2> QED
    BY <1>1, <2>1, ReplyCases, JustRepliesOwn
<1>2. CASE ~(Reply(s, "RNTO", <<503>>) \/ Reply(s, "RNTO", <<550>>))
  <2>1. /\ a # None
        /\ Begin(s, "RNTO", <<250>>, "read")
        /\ entry' = [entry EXCEPT ![Here(s)] =
             [m \in Names |-> IF m = b THEN @[a] ELSE IF m = a THEN None ELSE @[m]]]
        /\ Disturb(s) /\ rnfr' = [rnfr EXCEPT ![s] = None]
        /\ UNCHANGED <<user, uid, gid, cwd, todo>>
    BY <1>2 DEF Rnto, Set
  <2>2. Answered(s)
    BY <2>1, LoudBegin DEF Loud
  <2>3. a \in Names
    BY <1>0, <2>1 DEF TypeOK
  <2>4. [m \in Names |-> IF m = b THEN entry[Here(s)][a] ELSE IF m = a THEN None
                         ELSE entry[Here(s)][m]] \in [Names -> Nodes \cup {None}]
    BY <1>0, <2>3 DEF TypeOK
  <2>5. entry' \in [Dirs \cup {Top} -> [Names -> Nodes \cup {None}]]
    BY <1>0, <2>1, <2>4 DEF TypeOK
  <2>6. disturbed' \in [Sessions -> BOOLEAN]
    BY <1>0, <2>1 DEF Disturb, TypeOK
  <2> QED
    BY <1>0, <2>1, <2>2, <2>5, <2>6, AnsweredOwn DEF TypeOK
<1> QED
  BY <1>1, <1>2

LEMMA EndOwn ==
  ASSUME IInv, NEW s \in Sessions
  PROVE  /\ Quit(s) => Own(s)
         /\ NoData(s) => Own(s)
         /\ Renew(s) => Own(s)
<1>1. CASE Quit(s)
  BY <1>1, ExitCases DEF Quit
<1>2. CASE NoData(s)
  <2>1. PICK c \in {"LIST", "RETR", "STOR"}, replies \in {<<425>>, << >>} :
          End(s, c, replies, "data")
    BY <1>2 DEF NoData
  <2> QED
    BY <2>1, ExitCases
<1>3. CASE Renew(s)
  BY <1>3 DEF Renew, Keep, Set, session, IInv, TypeOK, Own, Owes, Finds, Busy
<1> QED
  BY <1>1, <1>2, <1>3

-----------------------------------------------------------------------------
LEMMA IInvInit == Init => IInv
BY ControlAssumption DEF Init, IInv, TypeOK, Owes, Finds, Busy, Accounts, Nodes

LEMMA IInvStep == IInv /\ [Next]_vars => IInv'
<1> SUFFICES ASSUME IInv, [Next]_vars PROVE IInv'
  OBVIOUS
<1>1. CASE UNCHANGED vars
  BY <1>1 DEF vars, session, IInv, TypeOK, Owes, Finds, Busy, Linked, Here, At
<1>2. ASSUME NEW s \in Sessions, Step(s)
      PROVE  IInv'
  <2>1. Own(s)
    BY <1>2, AccountOwn, MoveOwn, MkdOwn, GetcwdOwn, ListOwn, TreeOwn, RntoOwn, EndOwn,
       ReplyCases, JustRepliesOwn DEF Step
  <2>2. ASSUME NEW t \in Sessions, t # s
        PROVE  (Owes(t) /\ Finds(t))'
    <3>1. Same(t) /\ Recorded(t) /\ Owes(t) /\ Finds(t)
      BY <1>2, <2>2, OthersStep DEF IInv
    <3>2. Owes(t)'
      BY <3>1 DEF Same, Owes
    <3>3. CASE UNCHANGED entry /\ disturbed'[t] = disturbed[t]
      <4>1. /\ Linked(Here(t))' <=> Linked(Here(t))
            /\ \A n : At(t, n)' = At(t, n)
        BY <3>1, <3>3 DEF Same, Linked, Here, At
      <4> QED
        BY <3>1, <3>2, <3>3, <4>1 DEF Same, Finds
    <3>4. CASE ~disturbed'[t] => ~disturbed[t] /\ pc[t] \notin Busy
      BY <3>1, <3>2, <3>4 DEF Same, Finds, Busy
    <3> QED
      BY <3>1, <3>2, <3>3, <3>4 DEF Recorded
  <2> QED
    BY <2>1, <2>2 DEF IInv, Own
<1> QED
  BY <1>1, <1>2 DEF Next

LEMMA Invariance == Spec => []IInv
BY IInvInit, IInvStep, PTL DEF Spec

(* Variables range over what the code can put into them. *)
THEOREM TypeCorrect == Spec => []TypeOK
<1>1. IInv => TypeOK
  BY DEF IInv
<1> QED
  BY <1>1, Invariance, PTL

(* When a command is read, the one before has had its one final reply. *)
THEOREM AnswersInStep == Spec => []OneAnswer
<1>1. IInv => OneAnswer
  BY DEF IInv, Owes, OneAnswer
<1> QED
  BY <1>1, Invariance, PTL

(* A listing, and do_mkd below a path that fits tmp, end the session only  *)
(* after another one has changed the tree during the command.              *)
THEOREM FailsDisturbed == Spec => FailsByOthers
<1>1. ASSUME IInv, NEW t \in Sessions, Step(t), NEW s \in Sessions, pc[s] \in Busy,
             pc'[s] \in {"lstat", "getcwd"}
      PROVE  MkdGetcwd(s) \/ ListEntry(s)
  <2>0. TypeOK /\ pc[s] # "read" /\ pc[s] \notin Ended
    BY <1>1 DEF IInv, Busy, Ended, Errors
  <2>1. s = t
    BY <1>1, <2>0, OthersStep DEF Same, Busy
  <2>2. ~ListEnd(s)
    BY <1>1, <2>0 DEF ListEnd, Continue, Set, TypeOK
  <2>3. \A c, x, next : ~Begin(s, c, x, next)
    BY <2>0 DEF Begin
  <2>4. \A c, x : ~Reply(s, c, x) /\ \A how : ~End(s, c, x, how)
    BY <2>3 DEF Reply, End
  <2>5. ~User(s) /\ ~Pass(s) /\ ~Cdup(s) /\ ~Pwd(s) /\ ~NoData(s) /\ ~List(s)
    BY <2>3, <2>4 DEF User, Pass, Cdup, Move, Pwd, NoData, List
  <2>6. ~Other(s) /\ ~Quit(s) /\ ~Renew(s)
    BY <2>0, <2>4 DEF Other, Quit, Renew
  <2>7. ASSUME NEW n \in Names
        PROVE  ~Cwd(s, n) /\ ~Mkd(s, n) /\ ~Rmd(s, n) /\ ~Dele(s, n)
    BY <2>3, <2>4 DEF Cwd, Move, Mkd, Rmd, Dele, Remove
  <2>8. ASSUME NEW n \in Names
        PROVE  ~Rnfr(s, n) /\ ~Rnto(s, n) /\ ~Store(s, n) /\ ~Retr(s, n)
    BY <2>3, <2>4 DEF Rnfr, Rnto, Store, Uploaded, Retr
  <2> QED
    BY <1>1, <2>1, <2>2, <2>5, <2>6, <2>7, <2>8 DEF Step
<1>2. ASSUME IInv, NEW s \in Sessions, MkdGetcwd(s), pc'[s] \in {"lstat", "getcwd"}
      PROVE  disturbed[s] \/ TooLong(s)
  <2>1. TypeOK /\ Finds(s) /\ pc[s] = "mkd"
    BY <1>2 DEF IInv, MkdGetcwd
  <2>2. ~Gets(s)
    BY <1>2, <2>1 DEF MkdGetcwd, Continue, Set, TypeOK
  <2> QED
    BY <2>1, <2>2 DEF Finds, Gets
<1>3. ASSUME IInv, NEW s \in Sessions, ListEntry(s), pc'[s] \in {"lstat", "getcwd"}
      PROVE  disturbed[s]
  <2>1. TypeOK /\ Finds(s) /\ pc[s] = "list"
    BY <1>3 DEF IInv, ListEntry
  <2>2. \E n \in todo[s] : At(s, n) = None
    BY <1>3, <2>1 DEF ListEntry, Continue, Set, TypeOK
  <2> QED
    BY <2>1, <2>2 DEF Finds
<1>4. IInv /\ [Next]_vars =>
        [\A s \in Sessions :
           /\ pc[s] = "list" /\ pc'[s] = "lstat" => disturbed[s]
           /\ pc[s] = "mkd" /\ pc'[s] = "getcwd" => disturbed[s] \/ TooLong(s)]_vars
  <2>1. ASSUME NEW s \in Sessions
        PROVE  (MkdGetcwd(s) => pc[s] = "mkd") /\ (ListEntry(s) => pc[s] = "list")
    BY DEF MkdGetcwd, ListEntry
  <2> QED
    BY <1>1, <1>2, <1>3, <2>1 DEF Next, Busy
<1> QED
  BY <1>4, Invariance, PTL DEF Spec, FailsByOthers
=============================================================================
