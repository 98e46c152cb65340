\* A batch that commits, and a client that closes; no timer has to fire.
CONSTANTS
  Queries <- MCBatch
  Executes <- MCNone
  Actions = {"delay", "hold_response", "close_connection"}
  MaxFrames = 3
SPECIFICATION PromptSpec
PROPERTY EofEndsWait
