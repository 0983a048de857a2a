SPECIFICATION Spec
CONSTANTS
  Places <- MousePlaces
  Motions <- MouseMotions
CONSTRAINT Bound
INVARIANTS TypeOK TurnsWithTheMouse FreeCameraOwnsCursor SkyboxCentred CameraRidesPlanet LightsTogether
