\* Two windows, the web server and the download queue search for two things;
\* the hub reconnects and the timer goes on.
CONSTANTS
    frame1 = frame1
    frame2 = frame2
    q1 = q1
    q2 = q2
    Frames = {frame1, frame2}
    WebServer = WebServer
    NULL = NULL
    Queries = {q1, q2}
    interval = 1
SPECIFICATION FairSpec
INVARIANTS WantedIsQueued OneSearchPerWindow
PROPERTIES ToldItsWait UserSearchNotDelayed UserSearchIsSent
