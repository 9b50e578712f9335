------------------------------ MODULE MCWorker ------------------------------
(* The parts of the download worker that keep state of their own.  They    *)
(* share no variable, so a behaviour runs one of them.                     *)
EXTENDS NntpConnection, FileWriters, ArticleCache, SpeedLimiter, YencDecoder, TLC

CONSTANTS dot, a, Parts

VARIABLE part

TwoArticles == "m1" :> <<<<dot>>, <<a, dot>>, <<>>>> @@ "m2" :> <<<<dot, dot, a>>>>
TwoFiles == 1 :> "rar" @@ 2 :> "rar" @@ 3 :> "rar" @@ 4 :> "par"
Offsets == 1 :> 0 @@ 2 :> 1 @@ 3 :> 2 @@ 4 :> 1
Messages == 1 :> "a" @@ 2 :> "a" @@ 3 :> "b" @@ 4 :> "c" @@ 5 :> "a"
Sizes == "a" :> 2 @@ "b" :> 1 @@ "c" :> 3
Expected == 1 :> 3 @@ 2 :> 1 @@ 3 :> 7

workerVars == <<part, nntpVars, writerVars, cacheVars, speedVars, yencVars>>

WorkerInit ==
    /\ part \in Parts
    /\ NntpInit /\ (part # "nntp" => Head(to_client).code = 200)
    /\ SpeedInit /\ (part # "speed" => rate = 0)
    /\ WriterInit /\ CacheInit /\ YencInit

WorkerNext ==
    /\ UNCHANGED part
    /\ \/ part = "nntp" /\ NntpNext
          /\ UNCHANGED <<writerVars, cacheVars, speedVars, yencVars>>
       \/ part = "writers" /\ WriterNext
          /\ UNCHANGED <<nntpVars, cacheVars, speedVars, yencVars>>
       \/ part = "cache" /\ CacheNext
          /\ UNCHANGED <<nntpVars, writerVars, speedVars, yencVars>>
       \/ part = "speed" /\ SpeedNext
          /\ UNCHANGED <<nntpVars, writerVars, cacheVars, yencVars>>
       \/ part = "yenc" /\ YencNext
          /\ UNCHANGED <<nntpVars, writerVars, cacheVars, speedVars>>

WorkerSpec == WorkerInit /\ [][WorkerNext]_workerVars
=============================================================================
