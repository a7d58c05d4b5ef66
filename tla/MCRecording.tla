----------------------------- MODULE MCRecording -----------------------------
EXTENDS Recording
\* One queue for each recording, and one for another subscriber.
RecordingQueues == 0..(MaxStops + 1)
OtherQueue == MaxStops + 1
=============================================================================
